----------------------- MODULE LifecycleArchiveProofs -----------------------
(* For any contents and any number of writes, restores, scans and faults. *)
EXTENDS LifecycleArchive, Integers, TLAPS, SequenceTheorems

-----------------------------------------------------------------------------
(* Types *)

Metas == {o \in Metadata : o.at <= clock /\ o.loc <= clock /\ o.arch <= clock}

Archives == [type : {"archive", "requeueTransition"}, etag : Contents, at : 0 .. clock]

Statuses ==
    [type : {"status", "archivedSource"}, etag : Contents, arch : 1 .. clock, at : 0 .. clock]

Collections == [type : {"coldGC"}, etag : Contents, arch : 1 .. clock]

Restores == [type : {"requeueRestore", "restore"}, etag : Contents, arch : 0 .. clock]

Expirations == [type : {"gc"}, etag : Contents]

Deletions == [type : {"deleteData"}, loc : 0 .. clock]

Adjusts == [type : {"adjust"}, arch : 0 .. clock]

AllMsgs ==
    Archives \cup Statuses \cup Collections \cup Restores \cup Expirations \cup Deletions
    \cup Adjusts

Logs ==
    [type : {"put"}, op : {"restore", "retry"}, master : BOOLEAN, value : Metas]
    \cup {e \in [type : {"delete"}, master : BOOLEAN, value : Metas] : e.value.arch # NoId}
    \cup [type : {"bucket"}, config : BOOLEAN]

Scans ==
    [kind : {"scan"}, pc : {"refresh"}, msg : {[type |-> "scan"]}, seen : {NoObject}]
    \cup [kind : {"scan"}, pc : {"put"}, msg : {[type |-> "scan"]}, seen : Metas]

StatusTasks ==
    [kind : {"status"}, pc : {"put"}, msg : {m \in Statuses : m.type = "status"}, seen : Metas]
    \cup [kind : {"status"}, pc : {"gc"}, msg : {m \in Statuses : m.type = "status"},
          seen : {NoObject}]

SourceTasks ==
    [kind : {"archivedSource"}, pc : {"delete", "put"},
     msg : {m \in Statuses : m.type = "archivedSource"}, seen : Metas]

ExpirationTasks == [kind : {"gc"}, pc : {"put", "gc"}, msg : Expirations, seen : Metas]

RequeueTasks ==
    [kind : {"requeue"}, pc : {"put"},
     msg : {m \in Archives \cup Restores : m.type \in {"requeueTransition", "requeueRestore"}},
     seen : Metas]

AllTasks == Scans \cup StatusTasks \cup SourceTasks \cup ExpirationTasks \cup RequeueTasks

Events == {"writes", "restores", "scans", "faults"}

StateOK ==
    /\ clock \in Nat /\ md \in Metas \cup {NoObject}
    /\ data \subseteq [loc : 1 .. clock, etag : Contents]
    /\ cold \subseteq [id : 1 .. clock, etag : Contents]
    /\ versioned \in BOOLEAN /\ config \in BOOLEAN /\ zkNode \in BOOLEAN
    /\ stale \in BOOLEAN /\ lost \in BOOLEAN /\ thrown \in BOOLEAN
    /\ log \in Seq(Logs)

UsedOK == used \in [Events -> Nat] /\ \A e \in Events : used[e] <= Max[e]

(* What can be set aside after an error *)
Holdable == {"status", "archivedSource", "gc"}

(* An entry is in the hands of one task at most, and then not set aside *)
MsgsOK ==
    /\ msgs \subseteq AllMsgs /\ held \subseteq msgs
    /\ \A m \in held : m.type \in Holdable

TasksOK ==
    /\ tasks \subseteq AllTasks
    /\ \A t \in tasks : t.kind # "scan" => t.msg \in msgs \ held
    /\ \A t, u \in tasks : t.kind # "scan" /\ t.msg = u.msg => t = u

Shape == StateOK /\ UsedOK /\ MsgsOK /\ TasksOK

-----------------------------------------------------------------------------
(* What the entries and the tasks say of the object *)

Elems(s) == {s[i] : i \in 1 .. Len(s)}

LogSet == Elems(log)

(* The archives that the cold backend is, or will be, told to delete *)
Dead ==
    {m.arch : m \in {x \in msgs : x.type = "coldGC"}}
    \cup {e.value.arch : e \in {x \in LogSet : x.type = "delete"}}

(* The locations that will be deleted *)
Doomed ==
    {m.loc : m \in {x \in msgs : x.type = "deleteData"}}
    \cup {t.seen.loc : t \in {x \in tasks : x.kind = "archivedSource"}}
    \cup {t.seen.loc : t \in {x \in tasks : x.kind = "gc" /\ x.pc = "gc"}}

Stored(id, etag) == \E c \in cold : c.id = id /\ c.etag = etag

Archived == md.arch # NoId

(* An entry about the object as it is now, and not about an earlier write *)
MsgCurrent(m) ==
    /\ m.type \in {"archive", "requeueTransition", "status", "archivedSource"} =>
         (m.at = md.at => m.etag = md.etag)
    /\ m.type = "status" /\ m.at = md.at => Stored(m.arch, m.etag) /\ m.arch \notin Dead
    /\ m.type = "archivedSource" /\ m.at = md.at => Archived

TaskCurrent(t) ==
    /\ t.kind = "status" /\ t.pc = "put" => t.seen.at = t.msg.at /\ ~t.seen.done
    /\ t.kind = "status" /\ t.pc = "gc" => (t.msg.at = md.at => Archived)
    /\ t.kind = "archivedSource" => t.seen.at = t.msg.at /\ ~t.seen.done
    /\ t.kind = "gc" => t.seen.arch # NoId /\ RestoreExpired(t.seen)
    /\ t.kind = "requeue" /\ t.msg.type = "requeueRestore" =>
         t.seen.arch # NoId /\ t.seen.req /\ ~t.seen.done

(* The data of an object that is not archived, and a restored copy, stay *)
ObjectData ==
    /\ ~Archived => \E d \in data : d.loc = md.loc /\ d.etag = md.etag
    /\ Archived => Stored(md.arch, md.etag) /\ md.arch \notin Dead
    /\ md.done => \E d \in data : d.loc = md.loc
    /\ ~Archived \/ md.done => md.loc \notin Doomed
    /\ md.past => md.done
    /\ md.req => Archived

Current ==
    /\ \A m \in msgs : MsgCurrent(m)
    /\ \A t \in tasks : TaskCurrent(t)
    /\ ObjectData

Alive == md # NoObject /\ ~stale

Inv == Shape /\ (Alive => Current)

(* A log entry that the populator turns into a restore request *)
Asks(e) == e.type = "put" /\ ~e.value.done /\ e.value.req /\ ~(versioned /\ e.master)

-----------------------------------------------------------------------------
(* Bounds and types *)

LEMMA UsesCount ==
    ASSUME UsedOK, NEW e \in Events, UNCHANGED used \/ Use(e)
    PROVE  UsedOK'
<1>1. CASE UNCHANGED used
  BY <1>1 DEF UsedOK, Max
<1>2. CASE Use(e)
  <2>1. used[e] \in Nat /\ Max[e] \in Nat /\ used[e] < Max[e]
    BY <1>2, ArchiveAssumption DEF UsedOK, Use, Max, Events, ArchiveAssumption
  <2>2. used' = [used EXCEPT ![e] = used[e] + 1]
    BY <1>2 DEF Use
  <2>3. used' \in [Events -> Nat]
    BY <2>1, <2>2 DEF UsedOK
  <2>4. ASSUME NEW f \in Events PROVE used'[f] <= Max[f]
    BY <2>1, <2>2 DEF UsedOK
  <2> QED BY <2>3, <2>4 DEF UsedOK, Max
<1> QED BY <1>1, <1>2

(* Identifiers are never given again: what was well formed stays so *)
LEMMA TypesGrow ==
    ASSUME clock \in Nat, clock' \in Nat, clock <= clock'
    PROVE  /\ Metas \subseteq Metas' /\ AllMsgs \subseteq AllMsgs'
           /\ AllTasks \subseteq AllTasks' /\ Logs \subseteq Logs'
<1>1. Metas \subseteq Metas'
  BY DEF Metas, Metadata
<1>2. /\ Archives \subseteq Archives' /\ Statuses \subseteq Statuses'
      /\ Collections \subseteq Collections' /\ Restores \subseteq Restores'
      /\ Deletions \subseteq Deletions' /\ Adjusts \subseteq Adjusts'
      /\ Expirations \subseteq Expirations'
  BY DEF Archives, Statuses, Collections, Restores, Deletions, Adjusts, Expirations
<1>3. AllMsgs \subseteq AllMsgs'
  BY <1>2 DEF AllMsgs
<1>4. Logs \subseteq Logs'
  BY <1>1 DEF Logs
<1>5. /\ Scans \subseteq Scans' /\ StatusTasks \subseteq StatusTasks'
      /\ SourceTasks \subseteq SourceTasks' /\ ExpirationTasks \subseteq ExpirationTasks'
  BY <1>1, <1>2 DEF Scans, StatusTasks, SourceTasks, ExpirationTasks
<1>6. RequeueTasks \subseteq RequeueTasks'
  BY <1>1, <1>2 DEF RequeueTasks
<1> QED BY <1>1, <1>3, <1>4, <1>5, <1>6 DEF AllTasks

(* The entries of each type, and the tasks of each kind *)
LEMMA EntryTypes ==
    ASSUME NEW m \in AllMsgs
    PROVE  /\ m.type \in {"archive", "requeueTransition"} => m \in Archives
           /\ m.type \in {"status", "archivedSource"} => m \in Statuses
           /\ m.type = "coldGC" => m \in Collections
           /\ m.type \in {"requeueRestore", "restore"} => m \in Restores
           /\ m.type = "gc" => m \in Expirations
           /\ m.type = "deleteData" => m \in Deletions
           /\ m.type = "adjust" => m \in Adjusts
           /\ m # [type |-> "scan"]
BY DEF AllMsgs, Archives, Statuses, Collections, Restores, Expirations, Deletions, Adjusts

LEMMA TaskKinds ==
    ASSUME NEW t \in AllTasks
    PROVE  /\ t.kind = "scan" => t \in Scans /\ t.msg = [type |-> "scan"]
           /\ t.kind = "status" => t \in StatusTasks /\ t.msg.type = "status"
           /\ t.kind = "archivedSource" => t \in SourceTasks /\ t.msg.type = "archivedSource"
           /\ t.kind = "gc" => t \in ExpirationTasks /\ t.msg.type = "gc"
           /\ t.kind = "requeue" =>
                /\ t \in RequeueTasks
                /\ t.msg.type \in {"requeueTransition", "requeueRestore"}
           /\ t.kind \in {"scan", "status", "archivedSource", "gc", "requeue"}
<1>1. CASE t \in Scans
  BY <1>1 DEF Scans
<1>2. CASE t \in StatusTasks
  BY <1>2 DEF StatusTasks
<1>3. CASE t \in SourceTasks
  BY <1>3 DEF SourceTasks
<1>4. CASE t \in ExpirationTasks
  BY <1>4 DEF ExpirationTasks, Expirations
<1>5. CASE t \in RequeueTasks
  BY <1>5 DEF RequeueTasks
<1> QED BY <1>1, <1>2, <1>3, <1>4, <1>5 DEF AllTasks

-----------------------------------------------------------------------------
(* The tasks and the entries of the topics *)

(* Entries are added, or committed without a task *)
LEMMA EntriesChange ==
    ASSUME Shape, StateOK', clock <= clock', UNCHANGED <<tasks, held>>,
           msgs' \subseteq AllMsgs',
           \A m \in msgs : m \notin msgs' =>
               m \notin held /\ \A t \in tasks : t.kind # "scan" => t.msg # m
    PROVE  MsgsOK' /\ TasksOK'
<1>1. AllTasks \subseteq AllTasks'
  BY TypesGrow DEF Shape, StateOK
<1>2. MsgsOK'
  BY DEF Shape, MsgsOK
<1> QED BY <1>1, <1>2 DEF Shape, TasksOK

(* A task begins *)
LEMMA TaskBegins ==
    ASSUME Shape, StateOK', UNCHANGED <<clock, held>>,
           NEW u \in AllTasks, tasks' = tasks \cup {u},
           msgs \subseteq msgs', msgs' \subseteq AllMsgs,
           u.kind # "scan" => u.msg \in msgs /\ Idle(u.msg),
           u.kind = "scan" => \A t \in tasks : t.kind # "scan"
    PROVE  MsgsOK' /\ TasksOK'
<1>1. AllTasks \subseteq AllTasks' /\ AllMsgs \subseteq AllMsgs'
  BY TypesGrow DEF Shape, StateOK
<1>2. MsgsOK'
  BY <1>1 DEF Shape, MsgsOK
<1>3. ASSUME NEW t \in tasks, t.msg = u.msg, t.kind # "scan" \/ u.kind # "scan" PROVE FALSE
  <2>1. CASE u.kind # "scan"
    BY <1>3, <2>1 DEF Idle
  <2>2. CASE u.kind = "scan" /\ t.kind # "scan"
    <3>1. t.msg \in AllMsgs
      BY <2>2 DEF Shape, TasksOK, MsgsOK
    <3>2. u.msg = [type |-> "scan"]
      BY <2>2, TaskKinds
    <3> QED BY <1>3, <3>1, <3>2, EntryTypes
  <2> QED BY <1>3, <2>1, <2>2
<1>4. \A t, v \in tasks' : t.kind # "scan" /\ t.msg = v.msg => t = v
  BY <1>3 DEF Shape, TasksOK
<1>5. \A t \in tasks' : t.kind # "scan" => t.msg \in msgs' \ held'
  BY DEF Shape, TasksOK, Idle
<1> QED BY <1>1, <1>2, <1>4, <1>5 DEF Shape, TasksOK

(* A task goes on *)
LEMMA TaskGoesOn ==
    ASSUME Shape, StateOK', UNCHANGED <<clock, held>>,
           NEW t \in tasks, NEW u \in AllTasks, tasks' = (tasks \ {t}) \cup {u},
           t.kind = u.kind, t.msg = u.msg, msgs' = msgs
    PROVE  MsgsOK' /\ TasksOK'
<1>1. AllTasks \subseteq AllTasks' /\ AllMsgs \subseteq AllMsgs'
  BY TypesGrow DEF Shape, StateOK
<1>2. MsgsOK'
  BY <1>1 DEF Shape, MsgsOK
<1>3. \A v, w \in tasks' : v.kind # "scan" /\ v.msg = w.msg => v = w
  BY DEF Shape, TasksOK
<1> QED BY <1>1, <1>2, <1>3 DEF Shape, TasksOK

(* A task ends: its entry is committed, stays or is set aside *)
LEMMA TaskEnds ==
    ASSUME Shape, StateOK', UNCHANGED clock,
           NEW t \in tasks, tasks' = tasks \ {t},
           msgs \ {t.msg} \subseteq msgs', msgs' \subseteq AllMsgs,
           held' # held =>
               /\ held' = held \cup {t.msg} /\ t.msg \in msgs'
               /\ t.kind # "scan" /\ t.msg.type \in Holdable
    PROVE  MsgsOK' /\ TasksOK'
<1>1. AllTasks \subseteq AllTasks' /\ AllMsgs \subseteq AllMsgs'
  BY TypesGrow DEF Shape, StateOK
<1>2. t.msg \notin held
  <2>1. CASE t.kind # "scan"
    BY <2>1 DEF Shape, TasksOK
  <2>2. CASE t.kind = "scan"
    BY <2>2, TaskKinds, EntryTypes DEF Shape, TasksOK, MsgsOK
  <2> QED BY <2>1, <2>2
<1>3. MsgsOK'
  BY <1>1, <1>2 DEF Shape, MsgsOK
<1>4. ASSUME NEW u \in tasks', u.kind # "scan"
      PROVE  u.msg \in msgs' \ held'
  <2>1. u \in tasks /\ u # t /\ u.msg \in msgs \ held /\ u.msg # t.msg
    BY <1>4 DEF Shape, TasksOK
  <2> QED BY <2>1
<1> QED BY <1>1, <1>3, <1>4 DEF Shape, TasksOK

(* An entry that needed no task is committed *)
LEMMA NotATask ==
    ASSUME Shape, NEW m, NEW k, NEW pc, NEW seen,
           (\A t \in tasks : t.msg # m) \/ k = "deleteData"
    PROVE  Task(k, pc, m, seen) \notin tasks
<1> SUFFICES ASSUME Task(k, pc, m, seen) \in tasks PROVE FALSE
  OBVIOUS
<1>1. Task(k, pc, m, seen).msg = m /\ Task(k, pc, m, seen).kind = k
  BY DEF Task
<1>2. Task(k, pc, m, seen) \in AllTasks
  BY DEF Shape, TasksOK
<1> QED BY <1>1, <1>2, TaskKinds

LEMMA DoneWithoutTask ==
    ASSUME Shape, StateOK', UNCHANGED clock, NEW m \in msgs, NEW k, NEW pc, NEW seen, NEW sent,
           Idle(m) \/ (k = "deleteData" /\ m.type = "deleteData"),
           sent \subseteq AllMsgs,
           Done(Task(k, pc, m, seen), sent)
    PROVE  /\ MsgsOK' /\ TasksOK' /\ UNCHANGED <<tasks, held>>
           /\ msgs' = (msgs \ {m}) \cup sent \/ msgs' = msgs \cup sent
           /\ UNCHANGED used \/ Fault
<1>1. Task(k, pc, m, seen) \notin tasks
  BY NotATask DEF Idle
<1>2. Task(k, pc, m, seen).msg = m
  BY DEF Task
<1>3. /\ UNCHANGED <<tasks, held>>
      /\ msgs' = (msgs \ {m}) \cup sent \/ msgs' = msgs \cup sent
      /\ UNCHANGED used \/ Fault
  BY <1>1, <1>2 DEF Done
<1>4. m \notin held /\ \A t \in tasks : t.kind # "scan" => t.msg # m
  <2>1. CASE Idle(m)
    BY <2>1 DEF Idle
  <2>2. CASE m.type = "deleteData"
    BY <2>2, TaskKinds DEF Shape, MsgsOK, TasksOK, Holdable
  <2> QED BY <2>1, <2>2
<1>5. msgs' \subseteq AllMsgs'
  BY <1>3, TypesGrow DEF Shape, MsgsOK, StateOK
<1>6. clock <= clock'
  BY DEF Shape, StateOK
<1> QED BY <1>3, <1>4, <1>5, <1>6, EntriesChange

-----------------------------------------------------------------------------
(* The log *)

LEMMA Elements ==
    ASSUME NEW S, NEW a \in Seq(S), NEW b \in Seq(S)
    PROVE  /\ a \o b \in Seq(S)
           /\ Elems(a \o b) = Elems(a) \cup Elems(b)
<1>1. a \o b \in Seq(S) /\ Len(a \o b) = Len(a) + Len(b) /\ Len(a) \in Nat /\ Len(b) \in Nat
  OBVIOUS
<1>2. \A i \in 1 .. Len(a) : (a \o b)[i] = a[i]
  OBVIOUS
<1>3. \A i \in 1 .. Len(b) : (a \o b)[Len(a) + i] = b[i]
  OBVIOUS
<1>4. \A i \in 1 .. Len(a \o b) : i \in 1 .. Len(a) \/ i - Len(a) \in 1 .. Len(b)
  BY <1>1
<1>5. \A i \in 1 .. Len(a \o b) :
        (\E j \in 1 .. Len(a) : (a \o b)[i] = a[j]) \/ (\E j \in 1 .. Len(b) : (a \o b)[i] = b[j])
  <2> TAKE i \in 1 .. Len(a \o b)
  <2>1. CASE i \in 1 .. Len(a)
    BY <1>2, <2>1
  <2>2. CASE i - Len(a) \in 1 .. Len(b)
    <3>1. (a \o b)[Len(a) + (i - Len(a))] = b[i - Len(a)]
      BY <1>3, <2>2
    <3>2. Len(a) + (i - Len(a)) = i
      BY <1>1
    <3> QED BY <2>2, <3>1, <3>2
  <2> QED BY <1>4, <2>1, <2>2
<1>6. \A i \in 1 .. Len(a) : i \in 1 .. Len(a \o b)
  BY <1>1
<1>7. \A i \in 1 .. Len(b) : Len(a) + i \in 1 .. Len(a \o b)
  BY <1>1
<1> DEFINE A == {a[i] : i \in 1 .. Len(a)}
           B == {b[i] : i \in 1 .. Len(b)}
           C == {(a \o b)[i] : i \in 1 .. Len(a \o b)}
<1>8. \A x \in C : x \in A \cup B
  BY <1>5
<1>9. \A x \in A : x \in C
  BY <1>2, <1>6
<1>10. \A x \in B : x \in C
  BY <1>3, <1>7
<1>11. C = A \cup B
  <2> HIDE DEF A, B, C
  <2> QED BY <1>8, <1>9, <1>10
<1> QED BY <1>1, <1>11 DEF Elems

(* One entry, or two of a version: the last of them is not the master's *)
LEMMA KeysOfWrite ==
    ASSUME versioned \in BOOLEAN, NEW S, NEW f \in [Keys -> S]
    PROVE  /\ f \in Seq(S)
           /\ Elems(f) = {f[i] : i \in Keys}
           /\ versioned => 2 \in Keys
           /\ 1 \in Keys /\ Keys \subseteq {1, 2}
<1>1. PICK n \in {1, 2} : Keys = 1 .. n
  BY DEF Keys
<1>2. Keys \subseteq {1, 2} /\ 1 \in Keys
  BY <1>1
<1>3. versioned => 2 \in Keys
  BY DEF Keys
<1>4. f \in Seq(S) /\ Len(f) = n
  BY <1>1, <1>2
<1> QED BY <1>1, <1>2, <1>3, <1>4 DEF Elems

(* What a put, or a deletion, adds to the log *)
LEMMA PutIsLogged ==
    ASSUME StateOK, NEW op \in {"restore", "retry"}, NEW value \in Metas,
           log' = LoggedPut(op, value)
    PROVE  /\ log' \in Seq(Logs)
           /\ LogSet' = LogSet \cup {[type |-> "put", op |-> op, master |-> i = 1,
                                      value |-> value] : i \in Keys}
           /\ \E i \in Keys : versioned => i # 1
<1> DEFINE f == [i \in Keys |-> [type |-> "put", op |-> op, master |-> i = 1, value |-> value]]
<1>1. f \in [Keys -> Logs]
  BY DEF Logs
<1>2. versioned \in BOOLEAN /\ log \in Seq(Logs) /\ log' = log \o f
  BY DEF StateOK, LoggedPut
<1>3. {f[i] : i \in Keys} = {[type |-> "put", op |-> op, master |-> i = 1, value |-> value] : i \in Keys}
  OBVIOUS
<1> HIDE DEF f
<1>4. /\ f \in Seq(Logs) /\ Elems(f) = {f[i] : i \in Keys}
      /\ 1 \in Keys /\ (versioned => 2 \in Keys)
  BY <1>1, <1>2, KeysOfWrite
<1>5. log \o f \in Seq(Logs) /\ Elems(log \o f) = Elems(log) \cup Elems(f)
  BY <1>2, <1>4, Elements, Zenon
<1>6. LogSet' = LogSet \cup Elems(f)
  BY <1>2, <1>5, Zenon DEF LogSet
<1>7. \E i \in Keys : versioned => i # 1
  BY <1>2, <1>4
<1> QED BY <1>2, <1>3, <1>4, <1>5, <1>6, <1>7, Zenon

LEMMA DeleteIsLogged ==
    ASSUME StateOK, NEW value \in Metas, value.arch # NoId, log' = LoggedDelete(value)
    PROVE  /\ log' \in Seq(Logs)
           /\ \A e \in LogSet' : e \in LogSet \/ (e.type = "delete" /\ e.value = value)
           /\ LogSet \subseteq LogSet'
           /\ \E e \in LogSet' : e.type = "delete" /\ e.value = value /\ ~(versioned /\ e.master)
<1> DEFINE f == [i \in Keys |-> [type |-> "delete", master |-> i = 1, value |-> value]]
<1>1. f \in [Keys -> Logs]
  BY DEF Logs
<1>2. versioned \in BOOLEAN /\ log \in Seq(Logs) /\ log' = log \o f
  BY DEF StateOK, LoggedDelete
<1>3. \A i \in Keys : f[i].type = "delete" /\ f[i].value = value /\ (f[i].master => i = 1)
  OBVIOUS
<1> HIDE DEF f
<1>4. /\ f \in Seq(Logs) /\ Elems(f) = {f[i] : i \in Keys}
      /\ 1 \in Keys /\ (versioned => 2 \in Keys)
  BY <1>1, <1>2, KeysOfWrite
<1>5. log \o f \in Seq(Logs) /\ Elems(log \o f) = Elems(log) \cup Elems(f)
  BY <1>2, <1>4, Elements, Zenon
<1>6. LogSet' = LogSet \cup Elems(f)
  BY <1>2, <1>5, Zenon DEF LogSet
<1>7. PICK i \in Keys : versioned => i # 1
  BY <1>2, <1>4
<1>8. f[i] \in LogSet' /\ f[i].type = "delete" /\ f[i].value = value /\ ~(versioned /\ f[i].master)
  BY <1>3, <1>4, <1>6, <1>7
<1>9. \E e \in LogSet' : e.type = "delete" /\ e.value = value /\ ~(versioned /\ e.master)
  BY <1>8, Zenon
<1>10. \A e \in LogSet' : e \in LogSet \/ (e.type = "delete" /\ e.value = value)
  BY <1>3, <1>4, <1>6
<1>11. log' \in Seq(Logs) /\ LogSet \subseteq LogSet'
  BY <1>2, <1>5, <1>6
<1> QED BY <1>9, <1>10, <1>11

LEMMA BucketIsLogged ==
    ASSUME StateOK, NEW c \in BOOLEAN, log' = Append(log, [type |-> "bucket", config |-> c])
    PROVE  log' \in Seq(Logs)
<1>1. [type |-> "bucket", config |-> c] \in Logs
  BY DEF Logs
<1> QED BY <1>1 DEF StateOK

(* The populator reads the first entry *)
LEMMA EntryIsRead ==
    ASSUME StateOK, log # << >>, log' = Tail(log)
    PROVE  /\ log' \in Seq(Logs) /\ Head(log) \in Logs
           /\ Head(log) \in LogSet /\ LogSet' \subseteq LogSet
           /\ LogSet \subseteq LogSet' \cup {Head(log)}
<1>1. log \in Seq(Logs) /\ Len(log) \in Nat /\ Len(log) > 0 /\ Len(log') = Len(log) - 1
  BY DEF StateOK
<1>2. log' \in Seq(Logs) /\ Head(log) \in Logs /\ Head(log) = log[1] /\ 1 \in 1 .. Len(log)
  BY <1>1
<1>3. \A i \in 1 .. Len(log') : log'[i] = log[i + 1] /\ i + 1 \in 1 .. Len(log)
  BY <1>1
<1>4. ASSUME NEW i \in 1 .. Len(log)
      PROVE  log[i] = Head(log) \/ \E j \in 1 .. Len(log') : log'[j] = log[i]
  <2>1. CASE i = 1
    BY <1>2, <2>1
  <2>2. CASE i # 1
    <3>1. i - 1 \in 1 .. Len(log') /\ (i - 1) + 1 = i
      BY <1>1, <2>2
    <3> QED BY <1>3, <3>1
  <2> QED BY <2>1, <2>2
<1>5. \A e \in LogSet : e = Head(log) \/ e \in LogSet'
  BY <1>4 DEF LogSet, Elems
<1>6. Head(log) \in LogSet /\ LogSet' \subseteq LogSet
  BY <1>2, <1>3 DEF LogSet, Elems
<1> QED BY <1>2, <1>5, <1>6

-----------------------------------------------------------------------------
(* Steps that are about the same write of the object *)

(* The metadata may change, and no archive comes to be deleted *)
LEMMA SameWrite ==
    ASSUME Inv, Shape',
           Alive' => /\ Alive /\ md'.at = md.at /\ md'.etag = md.etag
                     /\ Archived => Archived'
                     /\ Dead' \subseteq Dead
                     /\ \A c \in cold : c.id \notin Dead => c \in cold'
                     /\ \A m \in msgs' : m \notin msgs => MsgCurrent(m)'
                     /\ \A t \in tasks' : t \notin tasks => TaskCurrent(t)'
                     /\ ObjectData'
    PROVE  Inv'
<1> SUFFICES ASSUME Alive' PROVE Current'
  BY DEF Inv
<1>1. Current
  BY DEF Inv
<1>2. ASSUME NEW m, MsgCurrent(m) PROVE MsgCurrent(m)'
  BY <1>2 DEF MsgCurrent, Stored
<1>3. ASSUME NEW t, TaskCurrent(t) PROVE TaskCurrent(t)'
  BY <1>3 DEF TaskCurrent, RestoreExpired
<1> QED BY <1>1, <1>2, <1>3 DEF Current

(* The metadata does not change, and only data that is to be deleted goes *)
LEMMA SameMetadata ==
    ASSUME Inv, Shape', UNCHANGED md, stale => stale',
           Alive' => /\ Dead' \subseteq Dead
                     /\ \A c \in cold : c.id \notin Dead => c \in cold'
                     /\ \A d \in data : d.loc \notin Doomed => d \in data'
                     /\ ~Archived \/ md.done => Doomed' \subseteq Doomed
                     /\ \A m \in msgs' : m \notin msgs => MsgCurrent(m)'
                     /\ \A t \in tasks' : t \notin tasks => TaskCurrent(t)'
    PROVE  Inv'
<1> SUFFICES ASSUME Alive' PROVE Alive /\ ObjectData'
  BY SameWrite DEF Archived, Alive, Inv
<1>1. Alive
  BY DEF Alive, Shape, Inv, StateOK
<1>2. ObjectData
  BY <1>1 DEF Inv, Current
<1>3. Archived' <=> Archived
  BY DEF Archived
<1>4. Archived => Stored(md.arch, md.etag)' /\ md'.arch \notin Dead'
  BY <1>2 DEF ObjectData, Stored
<1>5. ~Archived \/ md.done => md'.loc \notin Doomed'
  BY <1>2 DEF ObjectData
<1> QED BY <1>1, <1>2, <1>3, <1>4, <1>5 DEF ObjectData

(* A step that leaves the object and what is stored alone *)
LEMMA Quiet ==
    ASSUME Inv, UNCHANGED <<versioned, md, data, cold, clock>>, stale => stale',
           StateOK', UsedOK', MsgsOK', TasksOK',
           \A e \in LogSet' : e.type = "delete" => e \in LogSet,
           \A m \in msgs' : m \notin msgs =>
               m.type \notin {"coldGC", "deleteData"} /\ (Alive' => MsgCurrent(m)),
           \A t \in tasks' : t \notin tasks =>
               /\ t.kind # "archivedSource" /\ (t.kind = "gc" => t.pc = "put")
               /\ Alive' => TaskCurrent(t)
    PROVE  Inv'
<1>1. Dead' \subseteq Dead /\ Doomed' \subseteq Doomed
  BY DEF Dead, Doomed
<1>2. Shape'
  BY DEF Shape
<1>3. ASSUME NEW m, MsgCurrent(m) PROVE MsgCurrent(m)'
  BY <1>1, <1>3 DEF MsgCurrent, Stored, Archived
<1>4. ASSUME NEW t, TaskCurrent(t) PROVE TaskCurrent(t)'
  BY <1>4 DEF TaskCurrent, RestoreExpired, Archived
<1> QED BY <1>1, <1>2, <1>3, <1>4, SameMetadata

(* Metadata is not the absence of an object *)
LEMMA MetaIsObject ==
    ASSUME NEW o \in Metas
    PROVE  o # NoObject
BY DEF Metas, Metadata, NoObject

(* What holds of the object, the tasks and the entries at hand *)
LEMMA AtHand ==
    ASSUME Inv
    PROVE  /\ \A t \in tasks : /\ t \in AllTasks /\ (Alive => TaskCurrent(t))
                               /\ t.kind # "scan" => t.msg \in msgs /\ t.msg \in AllMsgs
                                                     /\ t.msg \notin held
           /\ \A m \in msgs : m \in AllMsgs /\ (Alive => MsgCurrent(m))
           /\ clock \in Nat /\ stale \in BOOLEAN /\ lost \in BOOLEAN /\ thrown \in BOOLEAN
           /\ md # NoObject => md \in Metas
           /\ Alive => ObjectData
           /\ Shape /\ StateOK /\ UsedOK /\ MsgsOK /\ TasksOK
BY DEF Inv, Shape, TasksOK, MsgsOK, StateOK, Current

(* The parts of the state that a step of a task does not touch *)
LEMMA SameState ==
    ASSUME Inv, UNCHANGED <<versioned, clock, data, cold>>,
           md' \in Metas \cup {NoObject}, log' \in Seq(Logs),
           config' \in BOOLEAN, zkNode' \in BOOLEAN, stale' \in BOOLEAN, lost' \in BOOLEAN,
           thrown' \in BOOLEAN
    PROVE  StateOK'
<1>1. Metas' = Metas /\ Logs' = Logs
  BY DEF Metas, Logs
<1> QED BY <1>1 DEF Inv, Shape, StateOK

(* Nothing but the tasks and the entries changes *)
LEMMA SameWorld ==
    ASSUME Inv, UNCHANGED <<versioned, md, data, cold, clock, log, bucket>>,
           stale' \in BOOLEAN, lost' \in BOOLEAN, thrown' \in BOOLEAN,
           UNCHANGED used \/ Fault
    PROVE  StateOK' /\ UsedOK' /\ LogSet' = LogSet /\ AllMsgs' = AllMsgs /\ AllTasks' = AllTasks
<1>1. StateOK'
  BY SameState DEF Inv, Shape, StateOK, bucket
<1>2. "faults" \in Events
  BY DEF Events
<1>3. UsedOK'
  BY <1>2, UsesCount DEF Inv, Shape, Fault
<1>4. LogSet' = LogSet
  BY DEF LogSet
<1>5. AllMsgs' = AllMsgs /\ AllTasks' = AllTasks
  BY DEF AllMsgs, Archives, Statuses, Collections, Restores, Expirations, Deletions, Adjusts,
         AllTasks, Scans, StatusTasks, SourceTasks, ExpirationTasks, RequeueTasks, Metas
<1> QED BY <1>1, <1>3, <1>4, <1>5

-----------------------------------------------------------------------------
(* Steps that leave the object alone *)

LEMMA RestartInv == Inv /\ Restart /\ UNCHANGED versioned => Inv'
<1> SUFFICES ASSUME Inv, Restart, UNCHANGED versioned PROVE Inv'
  OBVIOUS
<1>1. /\ UNCHANGED <<versioned, md, data, cold, clock, log, bucket, used, history>>
      /\ UNCHANGED <<msgs, tasks>> /\ held' = {}
  BY DEF Restart
<1>2. StateOK' /\ UsedOK' /\ LogSet' = LogSet /\ AllMsgs' = AllMsgs /\ AllTasks' = AllTasks
  BY <1>1, SameWorld, AtHand DEF history
<1>3. MsgsOK' /\ TasksOK'
  BY <1>1, <1>2, AtHand DEF MsgsOK, TasksOK
<1> QED BY <1>1, <1>2, <1>3, Quiet DEF history

LEMMA TaskFailsInv ==
    ASSUME Inv, NEW t \in tasks, TaskFails(t), UNCHANGED versioned
    PROVE  Inv'
<1>1. /\ UNCHANGED <<versioned, md, data, cold, clock, log, bucket, stale, early, thrown>>
      /\ Fault /\ lost' \in BOOLEAN /\ tasks' = tasks \ {t}
  BY AtHand DEF TaskFails
<1>2. StateOK' /\ UsedOK' /\ LogSet' = LogSet
  BY <1>1, SameWorld, AtHand
<1>3. msgs' \subseteq msgs /\ msgs \ {t.msg} \subseteq msgs'
  BY DEF TaskFails
<1>4. held' # held =>
        /\ held' = held \cup {t.msg} /\ t.msg \in msgs'
        /\ t.kind # "scan" /\ t.msg.type \in Holdable
  BY AtHand, TaskKinds DEF TaskFails, Holdable
<1>5. MsgsOK' /\ TasksOK'
  BY <1>1, <1>2, <1>3, <1>4, TaskEnds, AtHand
<1> QED BY <1>1, <1>2, <1>3, <1>5, Quiet

(* An entry is published *)
LEMMA Published ==
    ASSUME Inv, UNCHANGED <<versioned, md, data, cold, clock, log, bucket, held, tasks, history>>,
           UNCHANGED used \/ Fault,
           NEW m \in AllMsgs, msgs' = msgs \cup {m},
           m.type \notin {"coldGC", "deleteData"}, Alive => MsgCurrent(m)
    PROVE  Inv'
<1>1. StateOK' /\ UsedOK' /\ LogSet' = LogSet /\ AllMsgs' = AllMsgs
  BY SameWorld, AtHand DEF history
<1>2. MsgsOK' /\ TasksOK'
  BY <1>1, EntriesChange, AtHand DEF MsgsOK
<1> QED BY <1>1, <1>2, Quiet DEF history, Alive

LEMMA ColdExpiresInv == Inv /\ ColdExpires /\ UNCHANGED versioned => Inv'
<1> SUFFICES ASSUME Inv, ColdExpires, UNCHANGED versioned PROVE Inv'
  OBVIOUS
<1> DEFINE m == [type |-> "gc", etag |-> md.etag]
<1>1. md \in Metas
  BY AtHand DEF ColdExpires
<1>2. m \in AllMsgs /\ m.type = "gc"
  BY <1>1 DEF AllMsgs, Expirations, Metas, Metadata
<1>3. msgs' = msgs \cup {m}
  BY DEF ColdExpires
<1>4. UNCHANGED <<versioned, md, data, cold, clock, log, bucket, held, tasks, history, used>>
  BY DEF ColdExpires
<1> HIDE DEF m
<1>5. MsgCurrent(m)
  BY <1>2 DEF MsgCurrent
<1> QED BY <1>2, <1>3, <1>4, <1>5, Published

LEMMA ApplyTransitionRuleInv == Inv /\ ApplyTransitionRule /\ UNCHANGED versioned => Inv'
<1> SUFFICES ASSUME Inv, ApplyTransitionRule, UNCHANGED versioned PROVE Inv'
  OBVIOUS
<1> DEFINE m == [type |-> "archive", etag |-> md.etag, at |-> md.at]
           u == Task("scan", "refresh", [type |-> "scan"], NoObject)
<1>1. /\ UNCHANGED <<versioned, md, data, cold, clock, log, bucket, held, history>>
      /\ md \in Metas /\ Use("scans") /\ "scans" \in Events
  BY AtHand DEF ApplyTransitionRule, Events
<1>2. UsedOK'
  BY <1>1, UsesCount, AtHand
<1>3. StateOK' /\ LogSet' = LogSet
  BY <1>1, SameState, AtHand DEF StateOK, history, bucket, LogSet
<1>4. CASE UNCHANGED <<msgs, tasks>>
  <2>1. MsgsOK' /\ TasksOK'
    BY <1>1, <1>3, <1>4, EntriesChange, AtHand, TypesGrow DEF MsgsOK
  <2> QED BY <1>1, <1>2, <1>3, <1>4, <2>1, Quiet DEF history
<1>5. CASE msgs' = msgs \cup {m} /\ tasks' = tasks \cup {u}
  <2>1. m \in AllMsgs /\ m.type = "archive" /\ MsgCurrent(m)
    BY <1>1 DEF AllMsgs, Archives, Metas, Metadata, MsgCurrent
  <2>2. u \in AllTasks /\ u.kind = "scan" /\ TaskCurrent(u)
    BY DEF AllTasks, Scans, Task, TaskCurrent
  <2>3. \A t \in tasks : t.kind # "scan"
    BY DEF ApplyTransitionRule
  <2> HIDE DEF m, u
  <2>4. MsgsOK' /\ TasksOK'
    BY <1>1, <1>3, <1>5, <2>1, <2>2, <2>3, TaskBegins, AtHand DEF MsgsOK
  <2> QED BY <1>1, <1>2, <1>3, <1>5, <2>1, <2>2, <2>4, Quiet DEF history
<1> QED BY <1>4, <1>5 DEF ApplyTransitionRule

LEMMA RefreshObjectMDInv ==
    ASSUME Inv, NEW t \in tasks, RefreshObjectMD(t), UNCHANGED versioned
    PROVE  Inv'
<1> DEFINE u == [t EXCEPT !.pc = "put", !.seen = md]
<1>1. UNCHANGED <<versioned, md, data, cold, clock, log, bucket, held, used, history, msgs>>
  BY DEF RefreshObjectMD
<1>2. StateOK' /\ UsedOK' /\ LogSet' = LogSet
  BY <1>1, SameWorld, AtHand DEF history
<1>3. CASE tasks' = tasks \ {t}
  <2>1. MsgsOK' /\ TasksOK'
    BY <1>1, <1>2, <1>3, TaskEnds, AtHand DEF MsgsOK
  <2> QED BY <1>1, <1>2, <1>3, <2>1, Quiet DEF history
<1>4. CASE md # NoObject /\ tasks' = (tasks \ {t}) \cup {u}
  <2>1. t \in Scans /\ t.kind = "scan"
    BY AtHand, TaskKinds DEF RefreshObjectMD
  <2>2. u \in Scans /\ u.kind = t.kind /\ u.msg = t.msg
    BY <1>4, <2>1, AtHand DEF Scans
  <2> HIDE DEF u
  <2>3. u \in AllTasks /\ TaskCurrent(u)
    BY <2>1, <2>2 DEF AllTasks, TaskCurrent
  <2>4. MsgsOK' /\ TasksOK'
    BY <1>1, <1>2, <1>4, <2>2, <2>3, TaskGoesOn, AtHand
  <2> QED BY <1>1, <1>2, <1>4, <2>1, <2>2, <2>3, <2>4, Quiet DEF history
<1> QED BY <1>3, <1>4 DEF RefreshObjectMD, Go

(* A task begins on an entry *)
LEMMA TaskOnEntry ==
    ASSUME Inv, UNCHANGED <<versioned, md, data, cold, clock, log, bucket, msgs, held, used, lost, thrown>>,
           stale' \in BOOLEAN, stale => stale',
           NEW u \in AllTasks, tasks' = tasks \cup {u}, u.msg \in msgs, Idle(u.msg),
           u.kind \notin {"scan", "archivedSource"}, u.kind = "gc" => u.pc = "put",
           Alive' => TaskCurrent(u)
    PROVE  Inv'
<1>1. StateOK' /\ UsedOK' /\ LogSet' = LogSet
  BY SameWorld, AtHand
<1>2. MsgsOK' /\ TasksOK'
  BY <1>1, TaskBegins, AtHand DEF MsgsOK
<1> QED BY <1>1, <1>2, Quiet

(* An entry is committed without a task, and nothing is sent *)
LEMMA EntryEnds ==
    ASSUME Inv, UNCHANGED <<versioned, md, data, cold, clock, log, bucket, stale, lost, thrown>>,
           NEW m \in msgs, NEW k, NEW pc, NEW seen, Idle(m),
           Done(Task(k, pc, m, seen), {})
    PROVE  Inv'
<1>1. UNCHANGED used \/ Fault
  BY DEF Done
<1>2. StateOK' /\ UsedOK' /\ LogSet' = LogSet
  BY <1>1, SameWorld, AtHand
<1>3. /\ MsgsOK' /\ TasksOK' /\ UNCHANGED <<tasks, held>>
      /\ msgs' = (msgs \ {m}) \cup {} \/ msgs' = msgs \cup {}
  BY <1>2, DoneWithoutTask, AtHand
<1> QED BY <1>2, <1>3, Quiet

(* A task ends, and nothing is sent *)
LEMMA TaskDone ==
    ASSUME Inv, UNCHANGED <<versioned, md, data, cold, clock, log, bucket, stale, lost, thrown>>,
           NEW t \in tasks, Done(t, {}) \/ (NotCommitted(t) /\ t.kind \in {"status", "archivedSource"})
    PROVE  Inv'
<1>1. UNCHANGED used \/ Fault
  BY DEF Done, NotCommitted
<1>2. StateOK' /\ UsedOK' /\ LogSet' = LogSet
  BY <1>1, SameWorld, AtHand
<1>3. tasks' = tasks \ {t} /\ msgs' \subseteq msgs /\ msgs \ {t.msg} \subseteq msgs'
  BY DEF Done, NotCommitted
<1>4. held' # held =>
        /\ held' = held \cup {t.msg} /\ t.msg \in msgs'
        /\ t.kind # "scan" /\ t.msg.type \in Holdable
  BY AtHand, TaskKinds DEF Done, NotCommitted, Holdable
<1>5. MsgsOK' /\ TasksOK'
  BY <1>2, <1>3, <1>4, TaskEnds, AtHand DEF MsgsOK
<1> QED BY <1>2, <1>3, <1>5, Quiet

-----------------------------------------------------------------------------
(* Entries whose processing begins *)

LEMMA ArchiveGetsMetadataInv ==
    ASSUME Inv, NEW m \in msgs, ArchiveGetsMetadata(m), UNCHANGED versioned
    PROVE  Inv'
<1> DEFINE u == Task("status", "put", m, md)
           c == [type |-> "coldGC", etag |-> m.etag, arch |-> m.arch]
<1>1. /\ UNCHANGED <<versioned, md, data, cold, clock, log, bucket, lost, thrown>>
      /\ Idle(m) /\ m.type = "status" /\ m \in Statuses
  BY AtHand, EntryTypes DEF ArchiveGetsMetadata
<1>2. CASE md = NoObject /\ Done(Task("status", "gc", m, NoObject), {c}) /\ UNCHANGED stale
  <2>1. UNCHANGED used \/ Fault
    BY <1>2 DEF Done
  <2>2. StateOK' /\ UsedOK'
    BY <1>1, <1>2, <2>1, SameWorld, AtHand
  <2>3. c \in AllMsgs
    BY <1>1 DEF AllMsgs, Collections, Statuses
  <2> HIDE DEF c
  <2>4. MsgsOK' /\ TasksOK'
    BY <1>1, <1>2, <2>2, <2>3, DoneWithoutTask, AtHand
  <2> QED BY <1>1, <1>2, <2>2, <2>4 DEF Inv, Shape, Alive
<1>3. CASE /\ md # NoObject /\ tasks' = tasks \cup {u}
           /\ stale' = (stale \/ md.at # m.at \/ md.done) /\ UNCHANGED <<msgs, held, used>>
  <2>1. md \in Metas
    BY <1>3, AtHand
  <2>2. u \in StatusTasks /\ u.kind = "status" /\ u.pc = "put" /\ u.msg = m /\ u.seen = md
    BY <1>1, <2>1 DEF StatusTasks, Task
  <2> HIDE DEF u
  <2>3. u \in AllTasks
    BY <2>2 DEF AllTasks
  <2>4. stale' \in BOOLEAN /\ (stale => stale')
    BY <1>3, AtHand
  <2>5. Alive' => TaskCurrent(u)
    BY <1>3, <2>2 DEF Alive, TaskCurrent
  <2> QED BY <1>1, <1>3, <2>2, <2>3, <2>4, <2>5, TaskOnEntry
<1> QED BY <1>2, <1>3 DEF ArchiveGetsMetadata

LEMMA ExpirationGetsMetadataInv ==
    ASSUME Inv, NEW m \in msgs, ExpirationGetsMetadata(m), UNCHANGED versioned
    PROVE  Inv'
<1> DEFINE u == Task("gc", "put", m, md)
<1>1. /\ UNCHANGED <<versioned, md, data, cold, clock, log, bucket, stale, lost>>
      /\ Idle(m) /\ m.type = "gc" /\ m \in Expirations
  BY AtHand, EntryTypes DEF ExpirationGetsMetadata
<1>2. CASE Done(u, {}) /\ UNCHANGED thrown
  BY <1>1, <1>2, EntryEnds
<1>3. CASE thrown' = TRUE /\ held' = held \cup {m} /\ UNCHANGED <<tasks, msgs, used>>
  <2>1. StateOK' /\ UsedOK' /\ LogSet' = LogSet /\ AllMsgs' = AllMsgs /\ AllTasks' = AllTasks
    BY <1>1, <1>3, SameWorld, AtHand
  <2>2. MsgsOK' /\ TasksOK'
    BY <1>1, <1>3, <2>1, AtHand DEF MsgsOK, TasksOK, Idle, Holdable
  <2> QED BY <1>1, <1>3, <2>1, <2>2, Quiet
<1>4. CASE /\ md # NoObject /\ md.arch # NoId /\ RestoreExpired(md)
           /\ tasks' = tasks \cup {u} /\ UNCHANGED <<msgs, held, used, thrown>>
  <2>1. md \in Metas
    BY <1>4, AtHand
  <2>2. u \in ExpirationTasks /\ u.kind = "gc" /\ u.pc = "put" /\ u.msg = m /\ u.seen = md
    BY <1>1, <2>1 DEF ExpirationTasks, Task
  <2> HIDE DEF u
  <2>3. u \in AllTasks
    BY <2>2 DEF AllTasks
  <2>4. TaskCurrent(u)
    BY <1>4, <2>2 DEF TaskCurrent
  <2> QED BY <1>1, <1>4, <2>2, <2>3, <2>4, TaskOnEntry, AtHand
<1> QED BY <1>2, <1>3, <1>4 DEF ExpirationGetsMetadata

LEMMA RequeueGetsMetadataInv ==
    ASSUME Inv, NEW m \in msgs, RequeueGetsMetadata(m), UNCHANGED versioned
    PROVE  Inv'
<1> DEFINE u == Task("requeue", "put", m, md)
<1>1. /\ UNCHANGED <<versioned, md, data, cold, clock, log, bucket, lost, thrown>>
      /\ Idle(m) /\ m.type \in {"requeueTransition", "requeueRestore"}
      /\ m \in Archives \cup Restores
  BY AtHand, EntryTypes DEF RequeueGetsMetadata
<1>2. CASE Done(u, {}) /\ UNCHANGED stale
  BY <1>1, <1>2, EntryEnds
<1>3. CASE /\ md # NoObject
           /\ IF m.type = "requeueTransition" THEN ResetApplies(m) ELSE RetriggerApplies
           /\ tasks' = tasks \cup {u} /\ stale' = (stale \/ OtherWrite(m))
           /\ UNCHANGED <<msgs, held, used>>
  <2>1. md \in Metas
    BY <1>3, AtHand
  <2>2. u \in RequeueTasks /\ u.kind = "requeue" /\ u.msg = m /\ u.seen = md
    BY <1>1, <2>1 DEF RequeueTasks, Task
  <2> HIDE DEF u
  <2>3. u \in AllTasks
    BY <2>2 DEF AllTasks
  <2>4. stale' \in BOOLEAN /\ (stale => stale')
    BY <1>3, AtHand
  <2>5. TaskCurrent(u)
    BY <1>3, <2>2 DEF TaskCurrent, RetriggerApplies
  <2> QED BY <1>1, <1>3, <2>2, <2>3, <2>4, <2>5, TaskOnEntry
<1> QED BY <1>2, <1>3 DEF RequeueGetsMetadata

(* An entry is about to have the data of an archived object deleted *)
LEMMA SourceGetsMetadataInv ==
    ASSUME Inv, NEW m \in msgs, SourceGetsMetadata(m), UNCHANGED versioned
    PROVE  Inv'
<1> DEFINE u == Task("archivedSource", "delete", m, md)
           v == Task("archivedSource", "get", m, md)
<1>1. /\ UNCHANGED <<versioned, md, data, cold, clock, log, bucket, lost, thrown, msgs, used>>
      /\ Idle(m) /\ m.type = "archivedSource" /\ m \in Statuses
  BY AtHand, EntryTypes DEF SourceGetsMetadata, NotCommitted
<1>2. CASE md = NoObject /\ NotCommitted(v) /\ UNCHANGED stale
  <2>1. StateOK' /\ UsedOK' /\ LogSet' = LogSet /\ AllMsgs' = AllMsgs /\ AllTasks' = AllTasks
    BY <1>1, <1>2, SameWorld, AtHand
  <2>2. v \notin tasks /\ v.msg = m
    BY <1>1, AtHand, NotATask DEF Idle, Task
  <2> HIDE DEF v
  <2>3. tasks' = tasks /\ held' = held \cup {m}
    BY <1>2, <2>2 DEF NotCommitted
  <2>4. MsgsOK' /\ TasksOK'
    BY <1>1, <2>1, <2>3, AtHand DEF MsgsOK, TasksOK, Idle, Holdable
  <2> QED BY <1>1, <1>2, <2>1, <2>3, <2>4, Quiet
<1>3. CASE /\ md # NoObject /\ tasks' = tasks \cup {u}
           /\ stale' = (stale \/ md.at # m.at \/ md.done) /\ UNCHANGED held
  <2>1. md \in Metas
    BY <1>3, AtHand
  <2>2. /\ u \in SourceTasks /\ u.kind = "archivedSource" /\ u.msg = m /\ u.seen = md
    BY <1>1, <2>1 DEF SourceTasks, Task
  <2> HIDE DEF u
  <2>3. u \in AllTasks
    BY <2>2 DEF AllTasks
  <2>4. stale' \in BOOLEAN /\ (stale => stale')
    BY <1>3, AtHand
  <2>5. StateOK' /\ UsedOK' /\ LogSet' = LogSet
    BY <1>1, <2>4, SameWorld, AtHand
  <2>6. MsgsOK' /\ TasksOK'
    BY <1>1, <1>3, <2>2, <2>3, <2>5, TaskBegins, AtHand DEF MsgsOK
  <2>7. ASSUME Alive'
        PROVE  /\ Alive /\ Archived /\ ~md.done /\ Dead' = Dead
               /\ \A t : t = u => TaskCurrent(t)'
    <3>1. Alive /\ md.at = m.at /\ ~md.done
      BY <1>1, <1>3, <2>7 DEF Alive
    <3>2. Archived
      BY <1>1, <3>1, AtHand DEF MsgCurrent
    <3>3. Dead' = Dead
      BY <1>1, <2>5 DEF Dead
    <3>4. \A t : t = u => TaskCurrent(t)'
      BY <2>2, <3>1 DEF TaskCurrent
    <3> QED BY <3>1, <3>2, <3>3, <3>4
  <2>8. Shape'
    BY <2>5, <2>6 DEF Shape
  <2> QED BY <1>1, <1>3, <2>4, <2>7, <2>8, SameMetadata
<1> QED BY <1>2, <1>3 DEF SourceGetsMetadata

-----------------------------------------------------------------------------
(* The last steps of tasks, and deletions *)

(* A task ends and publishes an entry, or fails to *)
LEMMA TaskSends ==
    ASSUME Inv, UNCHANGED <<versioned, md, data, cold, clock, log, bucket, held, stale, thrown>>,
           lost' \in BOOLEAN, UNCHANGED used \/ Fault,
           NEW t \in tasks, NEW m \in AllMsgs, tasks' = tasks \ {t},
           msgs' \subseteq msgs \cup {m}, msgs \ {t.msg} \subseteq msgs',
           m.type # "coldGC", m.type = "deleteData" => m.loc \in Doomed, Alive => MsgCurrent(m)
    PROVE  Inv'
<1>1. StateOK' /\ UsedOK' /\ LogSet' = LogSet
  BY SameWorld, AtHand
<1>2. MsgsOK' /\ TasksOK'
  BY <1>1, TaskEnds, AtHand DEF MsgsOK
<1>3. Dead' \subseteq Dead /\ Doomed' \subseteq Doomed
  BY <1>1 DEF Dead, Doomed
<1>4. Shape'
  BY <1>1, <1>2 DEF Shape
<1>5. Alive' => MsgCurrent(m)'
  BY <1>3 DEF Alive, MsgCurrent, Stored, Archived
<1> QED BY <1>3, <1>4, <1>5, SameMetadata

LEMMA GarbageCollectArchivedSourceInv ==
    ASSUME Inv, NEW t \in tasks, GarbageCollectArchivedSource(t), UNCHANGED versioned
    PROVE  Inv'
<1> DEFINE m == [t.msg EXCEPT !.type = "archivedSource"]
<1>1. t \in StatusTasks /\ t.msg \in Statuses /\ t.msg \in msgs /\ t.msg.type = "status"
      /\ t.kind = "status" /\ t.pc = "gc"
  BY AtHand, TaskKinds, EntryTypes DEF GarbageCollectArchivedSource
<1>2. m \in Statuses /\ m.type = "archivedSource" /\ m.at = t.msg.at /\ m.etag = t.msg.etag
  BY <1>1 DEF Statuses
<1>3. /\ UNCHANGED <<versioned, md, data, cold, clock, log, bucket, held, stale, thrown>>
      /\ tasks' = tasks \ {t} /\ lost' \in BOOLEAN /\ (UNCHANGED used \/ Fault)
      /\ msgs' \subseteq msgs \cup {m} /\ msgs \ {t.msg} \subseteq msgs'
  BY AtHand DEF GarbageCollectArchivedSource, Done
<1> HIDE DEF m
<1>4. Alive => MsgCurrent(m)
  BY <1>1, <1>2, AtHand DEF MsgCurrent, TaskCurrent
<1>5. m \in AllMsgs
  BY <1>2 DEF AllMsgs
<1> QED BY <1>2, <1>3, <1>4, <1>5, TaskSends

LEMMA GarbageCollectLocationInv ==
    ASSUME Inv, NEW t \in tasks, GarbageCollectLocation(t), UNCHANGED versioned
    PROVE  Inv'
<1> DEFINE m == [type |-> "deleteData", loc |-> t.seen.loc]
<1>1. t \in ExpirationTasks /\ t.kind = "gc" /\ t.pc = "gc"
  BY AtHand, TaskKinds DEF GarbageCollectLocation
<1>2. m \in Deletions /\ m.type = "deleteData" /\ m.loc = t.seen.loc
  BY <1>1, AtHand DEF ExpirationTasks, Deletions, Metas, Metadata
<1>3. /\ UNCHANGED <<versioned, md, data, cold, clock, log, bucket, held, stale, thrown>>
      /\ tasks' = tasks \ {t} /\ lost' \in BOOLEAN /\ (UNCHANGED used \/ Fault)
      /\ msgs' \subseteq msgs \cup {m} /\ msgs \ {t.msg} \subseteq msgs'
  BY AtHand DEF GarbageCollectLocation, Done
<1> HIDE DEF m
<1>4. MsgCurrent(m) /\ m.loc \in Doomed
  BY <1>1, <1>2 DEF MsgCurrent, Doomed
<1>5. m \in AllMsgs
  BY <1>2 DEF AllMsgs
<1> QED BY <1>2, <1>3, <1>4, <1>5, TaskSends

(* Data that was doomed is deleted *)
LEMMA DataGoes ==
    ASSUME Inv, NEW loc \in Doomed, data' = Without(loc),
           UNCHANGED <<versioned, md, cold, clock, log, bucket, stale, lost, thrown>>,
           UNCHANGED used \/ Fault
    PROVE  /\ StateOK' /\ UsedOK' /\ LogSet' = LogSet
           /\ \A d \in data : d.loc \notin Doomed => d \in data'
<1>1. Metas' = Metas /\ Logs' = Logs
  BY DEF Metas, Logs
<1>2. StateOK'
  BY <1>1, AtHand DEF StateOK, Without, bucket
<1>3. "faults" \in Events
  BY DEF Events
<1>4. UsedOK'
  BY <1>3, UsesCount, AtHand DEF Fault
<1> QED BY <1>2, <1>4 DEF LogSet, Without

LEMMA DeleteArchivedSourceDataInv ==
    ASSUME Inv, NEW t \in tasks, DeleteArchivedSourceData(t), UNCHANGED versioned
    PROVE  Inv'
<1> DEFINE u == [t EXCEPT !.pc = "put", !.seen = t.seen]
<1>1. t \in SourceTasks /\ t.kind = "archivedSource"
  BY AtHand, TaskKinds DEF DeleteArchivedSourceData
<1>2. u \in SourceTasks /\ u.kind = t.kind /\ u.msg = t.msg /\ u.seen = t.seen
  BY <1>1 DEF SourceTasks
<1>3. /\ UNCHANGED <<versioned, md, cold, clock, log, msgs, held, bucket, used, history>>
      /\ tasks' = (tasks \ {t}) \cup {u} /\ data' = Without(t.seen.loc)
  BY DEF DeleteArchivedSourceData, Go
<1>4. t.seen.loc \in Doomed
  BY <1>1 DEF Doomed
<1>5. /\ StateOK' /\ UsedOK' /\ LogSet' = LogSet
      /\ \A d \in data : d.loc \notin Doomed => d \in data'
  BY <1>3, <1>4, DataGoes DEF history
<1> HIDE DEF u
<1>6. u \in AllTasks
  BY <1>2 DEF AllTasks
<1>7. MsgsOK' /\ TasksOK'
  BY <1>2, <1>3, <1>5, <1>6, TaskGoesOn, AtHand
<1>8. Shape'
  BY <1>5, <1>7 DEF Shape
<1>9. Dead' \subseteq Dead /\ Doomed' \subseteq Doomed
  BY <1>1, <1>2, <1>3, <1>5 DEF Dead, Doomed
<1>10. Alive => \A v : v = u => TaskCurrent(v)'
  BY <1>1, <1>2, AtHand DEF TaskCurrent
<1> QED BY <1>3, <1>5, <1>8, <1>9, <1>10, SameMetadata DEF history, Alive

LEMMA ExecuteDeleteDataInv ==
    ASSUME Inv, NEW m \in msgs, ExecuteDeleteData(m), UNCHANGED versioned
    PROVE  Inv'
<1>1. /\ UNCHANGED <<versioned, md, cold, clock, log, bucket, history>>
      /\ m.type = "deleteData" /\ data' = Without(m.loc) /\ (UNCHANGED used \/ Fault)
  BY DEF ExecuteDeleteData, Done
<1>2. m.loc \in Doomed
  BY <1>1 DEF Doomed
<1>3. /\ StateOK' /\ UsedOK' /\ LogSet' = LogSet
      /\ \A d \in data : d.loc \notin Doomed => d \in data'
  BY <1>1, <1>2, DataGoes DEF history
<1>4. /\ MsgsOK' /\ TasksOK' /\ UNCHANGED <<tasks, held>>
      /\ msgs' = (msgs \ {m}) \cup {} \/ msgs' = msgs \cup {}
  <2>1. Done(Task("deleteData", "delete", m, NoObject), {}) /\ clock' = clock
    BY <1>1 DEF ExecuteDeleteData
  <2>2. {} \subseteq AllMsgs /\ Shape
    BY AtHand
  <2>3. PICK k : k = "deleteData"
    OBVIOUS
  <2>4. Done(Task(k, "delete", m, NoObject), {}) /\ k = "deleteData" /\ m.type = "deleteData"
    BY <1>1, <2>1, <2>3
  <2> QED BY <1>3, <2>1, <2>2, <2>4, DoneWithoutTask
<1>5. Shape'
  BY <1>3, <1>4 DEF Shape
<1>6. Dead' \subseteq Dead /\ Doomed' \subseteq Doomed
  BY <1>3, <1>4 DEF Dead, Doomed
<1> QED BY <1>1, <1>3, <1>4, <1>5, <1>6, SameMetadata DEF history

(* The archive is to be deleted, and is not the object's *)
LEMMA ColdDeletesInv ==
    ASSUME Inv, NEW m \in msgs, ColdDeletes(m), UNCHANGED versioned
    PROVE  Inv'
<1>1. /\ UNCHANGED <<versioned, md, data, clock, log, held, tasks, bucket, used, history>>
      /\ msgs' = msgs \ {m} /\ m.type \in {"coldGC", "adjust"}
      /\ cold' = IF m.type = "coldGC" THEN {c \in cold : c.id # m.arch} ELSE cold
  BY DEF ColdDeletes
<1>2. cold' \subseteq cold /\ \A c \in cold : c.id \notin Dead => c \in cold'
  BY <1>1 DEF Dead
<1>3. StateOK' /\ LogSet' = LogSet
  <2>1. Metas' = Metas /\ Logs' = Logs
    BY <1>1 DEF Metas, Logs
  <2> QED BY <1>1, <1>2, <2>1, AtHand DEF StateOK, history, bucket, LogSet
<1>4. UsedOK'
  BY <1>1, AtHand DEF UsedOK, Max
<1>5. m \notin held /\ \A t \in tasks : t.kind # "scan" => t.msg # m
  BY <1>1, AtHand, TaskKinds DEF MsgsOK, Holdable
<1>6. MsgsOK' /\ TasksOK'
  BY <1>1, <1>3, <1>5, EntriesChange, AtHand, TypesGrow DEF MsgsOK
<1>7. Shape'
  BY <1>3, <1>4, <1>6 DEF Shape
<1>8. Dead' \subseteq Dead /\ Doomed' \subseteq Doomed
  BY <1>1, <1>3 DEF Dead, Doomed
<1> QED BY <1>1, <1>2, <1>7, <1>8, SameMetadata DEF history

LEMMA UserSetsLifecycleInv == Inv /\ UserSetsLifecycle /\ UNCHANGED versioned => Inv'
<1> SUFFICES ASSUME Inv, UserSetsLifecycle, UNCHANGED versioned PROVE Inv'
  OBVIOUS
<1>1. /\ UNCHANGED <<versioned, md, data, cold, clock, msgs, held, tasks, zkNode, history>>
      /\ config' = ~config /\ Use("writes") /\ "writes" \in Events
      /\ log' = Append(log, [type |-> "bucket", config |-> ~config])
  BY DEF UserSetsLifecycle, Events
<1>2. (~config) \in BOOLEAN
  BY AtHand DEF StateOK
<1>3. log' \in Seq(Logs)
  BY <1>1, <1>2, BucketIsLogged, AtHand
<1>4. StateOK'
  BY <1>1, <1>2, <1>3, SameState, AtHand DEF StateOK, history
<1>5. UsedOK'
  BY <1>1, UsesCount, AtHand
<1>6. MsgsOK' /\ TasksOK'
  BY <1>1, <1>4, EntriesChange, AtHand, TypesGrow DEF MsgsOK
<1>7. clock = 0
  BY DEF UserSetsLifecycle
<1>8. \A e \in LogSet' : e.type = "delete" => e \in LogSet
  <2>1. log \in Seq(Logs) /\ Len(log) \in Nat /\ Len(log') = Len(log) + 1
    BY <1>1, AtHand DEF StateOK
  <2>2. \A i \in 1 .. Len(log') : i \in 1 .. Len(log) \/ i = Len(log) + 1
    BY <2>1
  <2>3. /\ \A i \in 1 .. Len(log) : log'[i] = log[i]
        /\ log'[Len(log) + 1].type = "bucket"
    BY <1>1, <2>1
  <2> QED BY <2>2, <2>3 DEF LogSet, Elems
<1> QED BY <1>1, <1>4, <1>5, <1>6, <1>8, Quiet DEF history

-----------------------------------------------------------------------------
(* The queue populator *)

(* What an entry of the log is turned into *)
Sent(e) ==
    CASE e.type = "put" -> HandleRestoreOp(e)
      [] e.type = "delete" -> HandleDeleteOp(e)
      [] OTHER -> {}

LEMMA SentTypes ==
    ASSUME StateOK, NEW e \in Logs
    PROVE  /\ Sent(e) \subseteq AllMsgs
           /\ \A m \in Sent(e) :
                /\ m.type \in {"restore", "adjust", "coldGC"}
                /\ m.type = "coldGC" => e.type = "delete" /\ m.arch = e.value.arch
<1>1. CASE e.type = "put"
  <2>1. e.value \in Metas
    BY <1>1 DEF Logs
  <2>2. RestoreRequest(e) \in Restores /\ RestoreRequest(e).type = "restore"
    BY <2>1 DEF RestoreRequest, Restores, Metas, Metadata, StateOK
  <2>3. /\ [type |-> "adjust", arch |-> e.value.arch] \in Adjusts
        /\ [type |-> "adjust", arch |-> e.value.arch].type = "adjust"
    BY <2>1 DEF Adjusts, Metas, Metadata, StateOK
  <2>4. \A m \in Sent(e) :
          m = RestoreRequest(e) \/ m = [type |-> "adjust", arch |-> e.value.arch]
    BY <1>1 DEF Sent, HandleRestoreOp
  <2> QED BY <2>2, <2>3, <2>4 DEF AllMsgs
<1>2. CASE e.type = "delete"
  <2>1. e.value \in Metas /\ e.value.arch # NoId
    BY <1>2 DEF Logs
  <2> DEFINE c == [type |-> "coldGC", etag |-> e.value.etag, arch |-> e.value.arch]
  <2>2. c \in Collections /\ c.type = "coldGC" /\ c.arch = e.value.arch
    BY <2>1 DEF Collections, Metas, Metadata, StateOK, NoId
  <2>3. \A m \in Sent(e) : m = c
    BY <1>2 DEF Sent, HandleDeleteOp
  <2> HIDE DEF c
  <2> QED BY <1>2, <2>2, <2>3 DEF AllMsgs
<1>3. CASE e.type \notin {"put", "delete"}
  BY <1>3 DEF Sent
<1> QED BY <1>1, <1>2, <1>3

LEMMA FilterSteps ==
    ASSUME Filter
    PROVE  /\ UNCHANGED <<md, data, cold, clock, held, tasks, config, stale, early, thrown>>
           /\ log # << >> /\ log' = Tail(log)
           /\ \/ /\ msgs' = msgs \cup Sent(Head(log))
                 /\ zkNode' = zkNode \/ (Head(log).type = "bucket" /\ zkNode' = Head(log).config)
                 /\ UNCHANGED <<used, lost>>
              \/ Fault /\ lost' = TRUE /\ UNCHANGED <<msgs, zkNode>>
BY DEF Filter, Sent, UpdateZkBucketNode

LEMMA FilterInv == Inv /\ Filter /\ UNCHANGED versioned => Inv'
<1> SUFFICES ASSUME Inv, Filter, UNCHANGED versioned PROVE Inv'
  OBVIOUS
<1>1. PICK e : e = Head(log)
  OBVIOUS
<1>2. /\ log' \in Seq(Logs) /\ e \in Logs /\ e \in LogSet /\ LogSet' \subseteq LogSet
  BY <1>1, FilterSteps, EntryIsRead, AtHand
<1>3. /\ Sent(e) \subseteq AllMsgs
      /\ \A m \in Sent(e) :
           /\ m.type \in {"restore", "adjust", "coldGC"}
           /\ m.type = "coldGC" => e.type = "delete" /\ m.arch = e.value.arch
  BY <1>2, SentTypes, AtHand
<1>4. /\ UNCHANGED <<versioned, md, data, cold, clock, held, tasks, config, stale, thrown>>
      /\ UNCHANGED used \/ Fault
      /\ msgs \subseteq msgs' /\ msgs' \subseteq msgs \cup Sent(e)
      /\ lost' \in BOOLEAN
  BY <1>1, FilterSteps, AtHand
<1>5. zkNode' \in BOOLEAN
  <2>1. e.type = "bucket" => e.config \in BOOLEAN
    BY <1>2 DEF Logs
  <2> QED BY <1>1, <2>1, FilterSteps, AtHand DEF StateOK
<1>6. StateOK'
  BY <1>2, <1>4, <1>5, SameState, AtHand DEF StateOK
<1>7. UsedOK'
  <2>1. "faults" \in Events
    BY DEF Events
  <2> QED BY <1>4, <2>1, UsesCount, AtHand DEF Fault
<1>8. MsgsOK' /\ TasksOK'
  BY <1>3, <1>4, <1>6, EntriesChange, AtHand, TypesGrow DEF MsgsOK
<1>9. Dead' \subseteq Dead
  BY <1>2, <1>3, <1>4 DEF Dead
<1>10. Doomed' \subseteq Doomed
  BY <1>3, <1>4 DEF Doomed
<1>11. \A m \in Sent(e) : MsgCurrent(m)'
  BY <1>3 DEF MsgCurrent
<1>12. Shape'
  BY <1>6, <1>7, <1>8 DEF Shape
<1> QED BY <1>4, <1>9, <1>10, <1>11, <1>12, SameMetadata

-----------------------------------------------------------------------------
(* The cold backend *)

(* Identifiers to come are not those of anything to be deleted *)
LEMMA NewIsKept ==
    ASSUME Inv
    PROVE  clock \in Nat /\ clock + 1 \notin Dead /\ clock + 1 \notin Doomed
<1>1. clock \in Nat
  BY AtHand
<1>2. \A m \in msgs : m.type = "coldGC" => m.arch \in 1 .. clock
  BY AtHand, EntryTypes DEF Collections
<1>3. \A m \in msgs : m.type = "deleteData" => m.loc \in 0 .. clock
  BY AtHand, EntryTypes DEF Deletions
<1>4. \A e \in LogSet : e.type = "delete" => e.value.arch <= clock /\ e.value.arch \in Nat
  <2>1. \A e \in LogSet : e \in Logs
    BY AtHand DEF LogSet, Elems, StateOK
  <2> QED BY <2>1 DEF Logs, Metas, Metadata
<1>5. \A t \in tasks : t.kind \in {"archivedSource", "gc"} => t.seen.loc <= clock /\ t.seen.loc \in Nat
  <2> SUFFICES ASSUME NEW t \in tasks, t.kind \in {"archivedSource", "gc"}
               PROVE  t.seen \in Metas
    BY DEF Metas, Metadata
  <2>1. t \in SourceTasks \cup ExpirationTasks
    BY AtHand, TaskKinds
  <2> QED BY <2>1 DEF SourceTasks, ExpirationTasks
<1>6. \A a \in Dead : a <= clock
  BY <1>1, <1>2, <1>4 DEF Dead
<1>7. \A a \in Doomed : a <= clock
  BY <1>1, <1>3, <1>5 DEF Doomed
<1>8. ~(clock + 1 <= clock)
  BY <1>1
<1> QED BY <1>1, <1>6, <1>7, <1>8

(* An entry the cold backend reads is in no task *)
LEMMA ColdEntry ==
    ASSUME Inv, NEW m \in msgs, m.type \in {"archive", "restore"}
    PROVE  m \notin held /\ \A t \in tasks : t.kind # "scan" => t.msg # m
BY AtHand, TaskKinds DEF MsgsOK, Holdable

(* The cold backend answers: another entry takes the place of the one it read *)
LEMMA Answered ==
    ASSUME Inv, UNCHANGED <<versioned, md, data, cold, clock, log, held, tasks, bucket, used, history>>,
           NEW m \in msgs, m.type \in {"archive", "restore"},
           NEW sent, sent \subseteq AllMsgs, msgs' = (msgs \ {m}) \cup sent,
           \A x \in sent : x.type \notin {"coldGC", "deleteData"} /\ (Alive => MsgCurrent(x))
    PROVE  Inv'
<1>1. StateOK' /\ UsedOK' /\ LogSet' = LogSet /\ AllMsgs' = AllMsgs
  BY SameWorld, AtHand DEF history
<1>2. MsgsOK' /\ TasksOK'
  BY <1>1, ColdEntry, EntriesChange, AtHand DEF MsgsOK
<1> QED BY <1>1, <1>2, Quiet DEF history, Alive

LEMMA ColdArchivesInv ==
    ASSUME Inv, NEW m \in msgs, ColdArchives(m), UNCHANGED versioned
    PROVE  Inv'
<1> DEFINE r == [type |-> "requeueTransition", etag |-> m.etag, at |-> m.at]
           s == [type |-> "status", etag |-> m.etag, arch |-> clock + 1, at |-> m.at]
           c == [id |-> clock + 1, etag |-> m.etag]
<1>1. /\ UNCHANGED <<versioned, md, data, log, held, tasks, bucket, used, history>>
      /\ m.type = "archive" /\ m \in Archives
  BY AtHand, EntryTypes DEF ColdArchives
<1>2. CASE msgs' = (msgs \ {m}) \cup {r} /\ UNCHANGED <<cold, clock>>
  <2>1. r \in AllMsgs /\ r.type = "requeueTransition" /\ r.etag = m.etag /\ r.at = m.at
    BY <1>1 DEF AllMsgs, Archives
  <2> HIDE DEF r
  <2>2. Alive => MsgCurrent(r)
    BY <1>1, <2>1, AtHand DEF MsgCurrent
  <2> QED BY <1>1, <1>2, <2>1, <2>2, Answered
<1>3. CASE /\ clock' = clock + 1 /\ cold' = cold \cup {c}
           /\ msgs' = (msgs \ {m}) \cup {s}
  <2>0. clock \in Nat /\ clock' \in Nat /\ clock <= clock'
    BY <1>3, AtHand
  <2>1. /\ Metas \subseteq Metas' /\ AllMsgs \subseteq AllMsgs' /\ Logs \subseteq Logs'
    BY <2>0, TypesGrow
  <2>2. s \in Statuses' /\ s.type = "status" /\ s.etag = m.etag /\ s.arch = clock + 1 /\ s.at = m.at
    BY <1>1, <1>3, <2>0 DEF Statuses, Archives
  <2>3. c.id = clock + 1 /\ c.etag = m.etag /\ m.etag \in Contents
    BY <1>1 DEF Archives
  <2>4. cold' \subseteq [id : 1 .. clock', etag : Contents] /\ data' \subseteq [loc : 1 .. clock', etag : Contents]
    BY <1>1, <1>3, <2>0, <2>3, AtHand DEF StateOK
  <2> HIDE DEF s, c
  <2>5. StateOK' /\ LogSet' = LogSet
    <3>1. log' \in Seq(Logs')
      BY <1>1, <2>1, AtHand DEF StateOK
    <3> QED BY <1>1, <2>0, <2>1, <2>4, <3>1, AtHand DEF StateOK, history, bucket, LogSet
  <2>6. UsedOK'
    BY <1>1, AtHand DEF UsedOK, Max
  <2>7. MsgsOK' /\ TasksOK'
    <3>1. msgs' \subseteq AllMsgs'
      BY <1>3, <2>1, <2>2, AtHand DEF AllMsgs, MsgsOK
    <3> QED BY <1>1, <1>3, <2>0, <2>5, <3>1, ColdEntry, EntriesChange, AtHand
  <2>8. Shape'
    BY <2>5, <2>6, <2>7 DEF Shape
  <2>9. Dead' \subseteq Dead /\ Doomed' \subseteq Doomed
    BY <1>1, <1>3, <2>2, <2>5 DEF Dead, Doomed
  <2>10. Alive => \A x : x = s => MsgCurrent(x)'
    BY <1>1, <1>3, <2>2, <2>3, <2>9, NewIsKept, AtHand DEF MsgCurrent, Stored
  <2> QED BY <1>1, <1>3, <2>8, <2>9, <2>10, SameMetadata DEF history, Alive
<1> QED BY <1>2, <1>3 DEF ColdArchives

LEMMA ColdRestoresInv ==
    ASSUME Inv, NEW m \in msgs, ColdRestores(m), UNCHANGED versioned
    PROVE  Inv'
<1> DEFINE r == [type |-> "requeueRestore", etag |-> m.etag, arch |-> m.arch]
<1>1. /\ UNCHANGED <<versioned, cold, log, held, tasks, bucket, used, history>>
      /\ m.type = "restore" /\ m \in Restores
  BY AtHand, EntryTypes DEF ColdRestores
<1>2. CASE msgs' = msgs \ {m} /\ UNCHANGED <<md, data, clock>>
  <2>1. PICK sent : sent = {}
    OBVIOUS
  <2>2. /\ msgs' = (msgs \ {m}) \cup sent /\ sent \subseteq AllMsgs
        /\ \A x \in sent : x.type \notin {"coldGC", "deleteData"} /\ (Alive => MsgCurrent(x))
    BY <1>2, <2>1
  <2> QED BY <1>1, <1>2, <2>2, Answered
<1>3. CASE msgs' = (msgs \ {m}) \cup {r} /\ UNCHANGED <<md, data, clock>>
  <2>1. r \in AllMsgs /\ r.type = "requeueRestore"
    BY <1>1 DEF AllMsgs, Restores
  <2> HIDE DEF r
  <2>2. MsgCurrent(r)
    BY <2>1 DEF MsgCurrent
  <2> QED BY <1>1, <1>3, <2>1, <2>2, Answered
<1>4. ASSUME NEW s \in Stores, md # NoObject, md.arch = m.arch, \E c \in cold : c.id = m.arch,
             clock' = clock + 1, data' = data \cup {[loc |-> clock + 1, etag |-> m.etag]},
             md' = [md EXCEPT !.loc = clock + 1, !.done = TRUE, !.past = FALSE, !.store = s],
             msgs' = msgs \ {m}
      PROVE  Inv'
  <2>0. clock \in Nat /\ clock' \in Nat /\ clock <= clock' /\ md \in Metas
    BY <1>4, AtHand
  <2>1. /\ Metas \subseteq Metas' /\ AllMsgs \subseteq AllMsgs' /\ Logs \subseteq Logs'
    BY <2>0, TypesGrow
  <2>2. /\ md' \in Metas' /\ md'.loc = clock + 1 /\ md'.done = TRUE /\ md'.past = FALSE
        /\ md'.at = md.at /\ md'.etag = md.etag /\ md'.arch = md.arch /\ md'.req = md.req
    <3>1. md \in Metadata /\ md.at <= clock /\ md.arch <= clock
      BY <2>0 DEF Metas
    <3>2. /\ md' \in Metadata /\ md'.loc = clock + 1 /\ md'.done = TRUE /\ md'.past = FALSE
          /\ md'.at = md.at /\ md'.etag = md.etag /\ md'.arch = md.arch /\ md'.req = md.req
      BY <1>4, <2>0, <3>1 DEF Metadata
    <3>3. md'.at <= clock' /\ md'.loc <= clock' /\ md'.arch <= clock'
      <4>1. md.at \in Nat /\ md.arch \in Nat
        BY <3>1 DEF Metadata
      <4> QED BY <1>4, <2>0, <3>1, <3>2, <4>1
    <3> QED BY <3>2, <3>3 DEF Metas
  <2>3. \E d \in data' : d.loc = md'.loc
    BY <1>4, <2>2
  <2>4. data' \subseteq [loc : 1 .. clock', etag : Contents] /\ cold' \subseteq [id : 1 .. clock', etag : Contents]
    BY <1>1, <1>4, <2>0, AtHand DEF StateOK, Restores
  <2>5. StateOK' /\ LogSet' = LogSet
    <3>1. log' \in Seq(Logs')
      BY <1>1, <2>1, AtHand DEF StateOK
    <3> QED BY <1>1, <2>0, <2>2, <2>4, <3>1, AtHand DEF StateOK, history, bucket, LogSet
  <2>6. UsedOK'
    BY <1>1, AtHand DEF UsedOK, Max
  <2>7. MsgsOK' /\ TasksOK'
    <3>1. msgs' \subseteq AllMsgs'
      BY <1>4, <2>1, AtHand DEF MsgsOK
    <3> QED BY <1>1, <1>4, <2>0, <2>5, <3>1, ColdEntry, EntriesChange, AtHand
  <2>8. Shape'
    BY <2>5, <2>6, <2>7 DEF Shape
  <2>9. Dead' \subseteq Dead /\ Doomed' \subseteq Doomed
    BY <1>1, <1>4, <2>5 DEF Dead, Doomed
  <2>10. ASSUME Alive'
         PROVE  Alive /\ Archived /\ Archived' /\ ObjectData'
    <3>1. Alive
      BY <1>1, <1>4, <2>10 DEF Alive, history
    <3>2. Archived /\ Archived'
      BY <1>4, <2>2, AtHand DEF Archived, StateOK, NoId
    <3>3. Stored(md.arch, md.etag) /\ md.arch \notin Dead
      BY <3>1, <3>2, AtHand DEF ObjectData
    <3>4. md'.loc \notin Doomed'
      BY <2>2, <2>9, NewIsKept
    <3>5. Stored(md.arch, md.etag)' /\ md'.arch \notin Dead'
      BY <1>1, <2>2, <2>9, <3>3 DEF Stored
    <3> QED BY <2>2, <2>3, <3>1, <3>2, <3>4, <3>5 DEF ObjectData
  <2> QED BY <1>1, <1>4, <2>2, <2>8, <2>9, <2>10, SameWrite
<1> QED BY <1>2, <1>3, <1>4 DEF ColdRestores

-----------------------------------------------------------------------------
(* Users *)

LEMMA UserUses ==
    ASSUME Inv, Use("writes") \/ Use("restores")
    PROVE  UsedOK'
<1>1. "writes" \in Events /\ "restores" \in Events
  BY DEF Events
<1> QED BY <1>1, UsesCount, AtHand

(* The archive of an object that goes is in the log *)
LEMMA ArchiveIsLeft ==
    ASSUME Inv, md # NoObject, LeaveArchive, UNCHANGED clock
    PROVE  log' \in Seq(Logs)
<1>1. md \in Metas
  BY AtHand
<1>2. CASE md.arch # NoId
  BY <1>1, <1>2, DeleteIsLogged, AtHand DEF LeaveArchive
<1>3. CASE md.arch = NoId
  BY <1>3, AtHand DEF LeaveArchive, StateOK
<1> QED BY <1>2, <1>3

LEMMA UserDeleteInv == Inv /\ UserDelete /\ UNCHANGED versioned => Inv'
<1> SUFFICES ASSUME Inv, UserDelete, UNCHANGED versioned PROVE Inv'
  OBVIOUS
<1>1. /\ UNCHANGED <<versioned, cold, clock, msgs, held, tasks, bucket, stale, lost, thrown>>
      /\ md # NoObject /\ Use("writes") /\ md' = NoObject /\ data' = Without(md.loc)
      /\ LeaveArchive
  BY DEF UserDelete
<1>2. log' \in Seq(Logs)
  BY <1>1, ArchiveIsLeft
<1>3. StateOK'
  <2>1. Metas' = Metas /\ Logs' = Logs
    BY <1>1 DEF Metas, Logs
  <2> QED BY <1>1, <1>2, <2>1, AtHand DEF StateOK, Without, bucket
<1>4. UsedOK'
  BY <1>1, UserUses
<1>5. MsgsOK' /\ TasksOK'
  BY <1>1, <1>3, EntriesChange, AtHand, TypesGrow DEF MsgsOK
<1> QED BY <1>1, <1>3, <1>4, <1>5 DEF Inv, Shape, Alive

(* Another write: nothing is about it yet *)
LEMMA UserPutInv ==
    ASSUME Inv, NEW c \in Contents, UserPut(c), UNCHANGED versioned
    PROVE  Inv'
<1>1. /\ UNCHANGED <<versioned, cold, msgs, held, tasks, bucket, stale, lost, thrown>>
      /\ md # NoObject /\ Use("writes") /\ clock' = clock + 1
      /\ data' = Without(md.loc) \cup {[loc |-> clock + 1, etag |-> c]}
      /\ md' = [md EXCEPT !.etag = c, !.at = clock + 1, !.loc = clock + 1, !.arch = NoId,
                          !.req = FALSE, !.done = FALSE, !.past = FALSE, !.store = "warm",
                          !.class = "warm", !.tip = FALSE]
      /\ LeaveArchive
  BY DEF UserPut
<1>2. clock \in Nat /\ clock' \in Nat /\ clock <= clock' /\ md \in Metas
  BY <1>1, AtHand
<1>3. /\ Metas \subseteq Metas' /\ AllMsgs \subseteq AllMsgs' /\ Logs \subseteq Logs'
  BY <1>2, TypesGrow
<1>4. /\ md' \in Metas' /\ md'.at = clock + 1 /\ md'.loc = clock + 1 /\ md'.arch = NoId
      /\ md'.req = FALSE /\ md'.done = FALSE /\ md'.past = FALSE /\ md'.etag = c
  <2>1. md \in Metadata
    BY <1>2 DEF Metas
  <2>2. /\ md' \in Metadata /\ md'.at = clock + 1 /\ md'.loc = clock + 1 /\ md'.arch = NoId
        /\ md'.req = FALSE /\ md'.done = FALSE /\ md'.past = FALSE /\ md'.etag = c
    BY <1>1, <1>2, <2>1 DEF Metadata, NoId, Stores
  <2>3. md'.at <= clock' /\ md'.loc <= clock' /\ md'.arch <= clock'
    BY <1>1, <1>2, <2>2 DEF NoId
  <2> QED BY <2>2, <2>3 DEF Metas
<1>5. data' \subseteq [loc : 1 .. clock', etag : Contents] /\ cold' \subseteq [id : 1 .. clock', etag : Contents]
  BY <1>1, <1>2, AtHand DEF StateOK, Without
<1>6. log' \in Seq(Logs')
  <2>1. log' \in Seq(Logs)
    <3>1. CASE md.arch # NoId
      BY <1>1, <1>2, <3>1, DeleteIsLogged, AtHand DEF LeaveArchive
    <3>2. CASE md.arch = NoId
      BY <1>1, <3>2, AtHand DEF LeaveArchive, StateOK
    <3> QED BY <3>1, <3>2
  <2> QED BY <1>3, <2>1
<1>7. StateOK'
  BY <1>1, <1>2, <1>4, <1>5, <1>6, AtHand DEF StateOK, bucket
<1>8. UsedOK'
  BY <1>1, UserUses
<1>9. MsgsOK' /\ TasksOK'
  <2>1. msgs' \subseteq AllMsgs'
    BY <1>1, <1>3, AtHand DEF MsgsOK
  <2> QED BY <1>1, <1>2, <1>7, <2>1, EntriesChange, AtHand
<1>10. Shape'
  BY <1>7, <1>8, <1>9 DEF Shape
<1>11. ASSUME Alive' PROVE Current'
  <2>1. Alive
    BY <1>1, <1>11 DEF Alive
  <2>2. \A m \in msgs : m.type \in {"archive", "requeueTransition", "status", "archivedSource"} =>
          m.at # md'.at
    <3>1. \A m \in msgs : m.type \in {"archive", "requeueTransition", "status", "archivedSource"} =>
            m.at \in 0 .. clock
      BY AtHand, EntryTypes DEF Archives, Statuses
    <3> QED BY <1>2, <1>4, <3>1
  <2>3. \A m \in msgs' : MsgCurrent(m)'
    BY <1>1, <2>2 DEF MsgCurrent
  <2>4. ASSUME NEW t \in tasks PROVE TaskCurrent(t)'
    <3>1. TaskCurrent(t)
      BY <2>1, AtHand
    <3>2. t.kind = "status" => t.msg \in msgs /\ t.msg.type = "status"
      BY AtHand, TaskKinds
    <3> QED BY <2>2, <3>1, <3>2 DEF TaskCurrent, RestoreExpired
  <2>5. clock + 1 \notin Doomed'
    BY <1>1, NewIsKept DEF Doomed
  <2>6. ObjectData'
    BY <1>1, <1>4, <2>5 DEF ObjectData, Archived, NoId
  <2> QED BY <1>1, <2>3, <2>4, <2>6 DEF Current
<1> QED BY <1>10, <1>11 DEF Inv

-----------------------------------------------------------------------------
(* Puts of metadata *)

(* The object keeps its archive and its data, or is archived and not restored *)
LEMMA MetadataPut ==
    ASSUME Inv, UNCHANGED <<versioned, data, cold, clock>>, StateOK', UsedOK', MsgsOK', TasksOK',
           msgs' \subseteq msgs, Dead' \subseteq Dead,
           Alive' => /\ Alive /\ md'.at = md.at /\ md'.etag = md.etag
                     /\ \/ /\ md'.loc = md.loc /\ md'.arch = md.arch /\ (md'.done => md.done)
                           /\ Doomed' \subseteq Doomed
                        \/ /\ md'.arch # NoId /\ ~md'.done
                           /\ \E c \in cold : c.id = md'.arch /\ c.etag = md.etag
                           /\ md'.arch \notin Dead
                     /\ md'.past => md'.done
                     /\ md'.req => md'.arch # NoId
                     /\ \A t \in tasks' : t \notin tasks => TaskCurrent(t)'
    PROVE  Inv'
<1>1. Shape'
  BY DEF Shape
<1>2. ASSUME Alive'
      PROVE  ObjectData' /\ (Archived => Archived')
  <2>1. ObjectData
    BY <1>2, AtHand
  <2>2. CASE /\ md'.loc = md.loc /\ md'.arch = md.arch /\ (md'.done => md.done)
             /\ Doomed' \subseteq Doomed
    BY <1>2, <2>1, <2>2 DEF ObjectData, Archived, Stored
  <2>3. CASE /\ md'.arch # NoId /\ ~md'.done
             /\ \E c \in cold : c.id = md'.arch /\ c.etag = md.etag
             /\ md'.arch \notin Dead
    BY <1>2, <2>3 DEF ObjectData, Archived, Stored
  <2> QED BY <1>2, <2>2, <2>3
<1> QED BY <1>1, <1>2, SameWrite

(* Metadata with some fields changed *)
LEMMA SameButTip ==
    ASSUME NEW o \in Metas, NEW b \in BOOLEAN
    PROVE  LET n == [o EXCEPT !.tip = b] IN
           /\ n \in Metas /\ n.at = o.at /\ n.etag = o.etag /\ n.loc = o.loc /\ n.arch = o.arch
           /\ n.done = o.done /\ n.past = o.past /\ n.req = o.req /\ n.store = o.store
BY DEF Metas, Metadata

(* What was read is the object, when the put is not stale *)
LEMMA PutIsCurrent ==
    ASSUME Inv, NEW seen, NEW new, PutMetadata(seen, new), md # NoObject
    PROVE  md' = new /\ stale' \in BOOLEAN /\ (stale => stale') /\ (Alive' => Alive /\ md = seen)
BY AtHand DEF PutMetadata, Alive

LEMMA SetTransitionInProgressInv ==
    ASSUME Inv, NEW t \in tasks, SetTransitionInProgress(t), UNCHANGED versioned
    PROVE  Inv'
<1> DEFINE n == [t.seen EXCEPT !.tip = TRUE]
<1>1. /\ UNCHANGED <<versioned, data, cold, clock, log, msgs, held, bucket, used, lost, thrown>>
      /\ tasks' = tasks \ {t}
  BY DEF SetTransitionInProgress
<1>2. CASE UNCHANGED <<md, stale>>
  <2>1. StateOK' /\ UsedOK' /\ LogSet' = LogSet
    BY <1>1, <1>2, SameWorld, AtHand
  <2>2. MsgsOK' /\ TasksOK'
    BY <1>1, <2>1, TaskEnds, AtHand DEF MsgsOK
  <2> QED BY <1>1, <1>2, <2>1, <2>2, Quiet
<1>3. CASE md # NoObject /\ PutMetadata(t.seen, n)
  <2>1. t.seen \in Metas
    <3>1. t \in Scans /\ t.pc = "put"
      BY AtHand, TaskKinds DEF SetTransitionInProgress
    <3> QED BY <3>1 DEF Scans
  <2>2. /\ n \in Metas /\ n.at = t.seen.at /\ n.etag = t.seen.etag /\ n.loc = t.seen.loc
        /\ n.arch = t.seen.arch /\ n.done = t.seen.done /\ n.past = t.seen.past /\ n.req = t.seen.req
    BY <2>1, SameButTip
  <2> HIDE DEF n
  <2>3. md' = n /\ stale' \in BOOLEAN /\ (Alive' => Alive /\ md = t.seen)
    BY <1>3, PutIsCurrent
  <2>4. StateOK'
    BY <1>1, <2>2, <2>3, SameState, AtHand DEF StateOK, bucket
  <2>5. UsedOK'
    BY <1>1, AtHand DEF UsedOK, Max
  <2>6. MsgsOK' /\ TasksOK'
    BY <1>1, <2>4, TaskEnds, AtHand DEF MsgsOK
  <2>7. Dead' \subseteq Dead /\ Doomed' \subseteq Doomed
    BY <1>1 DEF Dead, Doomed, LogSet
  <2>8. Alive' => /\ Alive /\ md'.at = md.at /\ md'.etag = md.etag
                  /\ md'.loc = md.loc /\ md'.arch = md.arch /\ (md'.done => md.done)
                  /\ md'.past => md'.done
                  /\ md'.req => md'.arch # NoId
    BY <2>2, <2>3, AtHand DEF ObjectData, Archived
  <2> QED BY <1>1, <2>4, <2>5, <2>6, <2>7, <2>8, MetadataPut
<1> QED BY <1>2, <1>3 DEF SetTransitionInProgress

LEMMA RestoreExpiresInv == Inv /\ RestoreExpires /\ UNCHANGED versioned => Inv'
<1> SUFFICES ASSUME Inv, RestoreExpires, UNCHANGED versioned PROVE Inv'
  OBVIOUS
<1>1. /\ UNCHANGED <<versioned, data, cold, clock, log, msgs, held, tasks, bucket, used, history>>
      /\ md # NoObject /\ md.done /\ md' = [md EXCEPT !.past = TRUE] /\ md \in Metas
  BY AtHand DEF RestoreExpires
<1>2. /\ md' \in Metas /\ md'.at = md.at /\ md'.etag = md.etag /\ md'.loc = md.loc
      /\ md'.arch = md.arch /\ md'.done = md.done /\ md'.req = md.req
  BY <1>1 DEF Metas, Metadata
<1>3. StateOK'
  BY <1>1, <1>2, SameState, AtHand DEF StateOK, bucket, history
<1>4. UsedOK'
  BY <1>1, AtHand DEF UsedOK, Max
<1>5. MsgsOK' /\ TasksOK'
  BY <1>1, <1>3, EntriesChange, AtHand, TypesGrow DEF MsgsOK
<1>6. Dead' \subseteq Dead /\ Doomed' \subseteq Doomed
  BY <1>1 DEF Dead, Doomed, LogSet
<1>7. Alive' => /\ Alive /\ md'.at = md.at /\ md'.etag = md.etag
                /\ md'.loc = md.loc /\ md'.arch = md.arch /\ (md'.done => md.done)
                /\ md'.past => md'.done
                /\ md'.req => md'.arch # NoId
  BY <1>1, <1>2, AtHand DEF ObjectData, Archived, Alive, history
<1> QED BY <1>1, <1>3, <1>4, <1>5, <1>6, <1>7, MetadataPut

(* The log of a put holds no deletion *)
LEMMA PutDeletesNothing ==
    ASSUME Inv, NEW op \in {"restore", "retry"}, NEW value \in Metas, log' = LoggedPut(op, value)
    PROVE  \A e \in LogSet' : e.type = "delete" => e \in LogSet
BY PutIsLogged, AtHand

LEMMA UserRestoreInv == Inv /\ UserRestore /\ UNCHANGED versioned => Inv'
<1> SUFFICES ASSUME Inv, UserRestore, UNCHANGED versioned PROVE Inv'
  OBVIOUS
<1>1. /\ UNCHANGED <<versioned, data, cold, clock, msgs, held, tasks, bucket, history>>
      /\ md # NoObject /\ Use("restores") /\ md \in Metas /\ log' = LoggedPut("restore", md')
  BY AtHand DEF UserRestore
<1>2. /\ md' \in Metas /\ md'.at = md.at /\ md'.etag = md.etag /\ md'.loc = md.loc
      /\ md'.arch = md.arch /\ md'.done = md.done
      /\ md'.past => md.past
      /\ md'.req => md.req \/ md.arch # NoId
  <2>1. CASE md.arch # NoId /\ md' = [md EXCEPT !.req = TRUE]
    BY <1>1, <2>1 DEF Metas, Metadata
  <2>2. CASE md' = [md EXCEPT !.past = FALSE]
    BY <1>1, <2>2 DEF Metas, Metadata
  <2> QED BY <2>1, <2>2 DEF UserRestore
<1>3. PICK o : o = md'
  OBVIOUS
<1>4. log' \in Seq(Logs) /\ \A e \in LogSet' : e.type = "delete" => e \in LogSet
  BY <1>1, <1>2, <1>3, PutIsLogged, PutDeletesNothing, AtHand
<1>5. StateOK'
  BY <1>1, <1>2, <1>4, SameState, AtHand DEF StateOK, bucket, history
<1>6. UsedOK'
  BY <1>1, UserUses
<1>7. MsgsOK' /\ TasksOK'
  BY <1>1, <1>5, EntriesChange, AtHand, TypesGrow DEF MsgsOK
<1>8. Dead' \subseteq Dead /\ Doomed' \subseteq Doomed
  BY <1>1, <1>4 DEF Dead, Doomed
<1>9. Alive' => /\ Alive /\ md'.at = md.at /\ md'.etag = md.etag
                /\ md'.loc = md.loc /\ md'.arch = md.arch /\ (md'.done => md.done)
                /\ md'.past => md'.done
                /\ md'.req => md'.arch # NoId
  BY <1>1, <1>2, AtHand DEF ObjectData, Archived, Alive, history
<1> QED BY <1>1, <1>5, <1>6, <1>7, <1>8, <1>9, MetadataPut

(* The archive becomes the object's *)
LEMMA SetArchiveType ==
    ASSUME NEW t \in StatusTasks, t.seen \in Metas, clock \in Nat
    PROVE  /\ SetArchive(t) \in Metas /\ SetArchive(t).at = t.seen.at
           /\ SetArchive(t).etag = t.seen.etag /\ SetArchive(t).loc = t.seen.loc
           /\ SetArchive(t).arch = t.msg.arch /\ t.msg.arch # NoId
           /\ ~SetArchive(t).req /\ ~SetArchive(t).done /\ ~SetArchive(t).past
           /\ SetArchive(t).loc = NoId => SetArchive(t).store = "cold"
<1> DEFINE o == [t.seen EXCEPT !.arch = t.msg.arch, !.req = FALSE, !.done = FALSE, !.past = FALSE]
           n == [o EXCEPT !.store = "cold", !.class = "cold", !.tip = FALSE]
<1>1. t.msg \in Statuses /\ t.msg.arch \in 1 .. clock
  BY DEF StatusTasks, Statuses
<1>2. /\ o \in Metas /\ o.at = t.seen.at /\ o.etag = t.seen.etag /\ o.loc = t.seen.loc
      /\ o.arch = t.msg.arch /\ ~o.req /\ ~o.done /\ ~o.past
  <2>1. /\ t.seen \in Metadata /\ t.seen.at <= clock /\ t.seen.loc <= clock
        /\ t.msg.arch \in Nat /\ t.msg.arch <= clock
    BY <1>1 DEF Metas
  <2>2. PICK a \in Nat : a = t.msg.arch
    BY <2>1
  <2>3. o = [t.seen EXCEPT !.arch = a, !.req = FALSE, !.done = FALSE, !.past = FALSE]
    BY <2>2
  <2> HIDE DEF o
  <2>4. /\ o \in Metadata /\ o.at = t.seen.at /\ o.etag = t.seen.etag /\ o.loc = t.seen.loc
        /\ o.arch = a /\ ~o.req /\ ~o.done /\ ~o.past
    BY <2>1, <2>3 DEF Metadata
  <2> QED BY <2>1, <2>2, <2>4 DEF Metas
<1>3. SetArchive(t) = IF o.loc = NoId THEN n ELSE o
  BY DEF SetArchive
<1> HIDE DEF o
<1>4. /\ n \in Metas /\ n.at = o.at /\ n.etag = o.etag /\ n.loc = o.loc /\ n.arch = o.arch
      /\ n.req = o.req /\ n.done = o.done /\ n.past = o.past /\ n.store = "cold"
  BY <1>2 DEF Metas, Metadata, Stores
<1> HIDE DEF n
<1> QED BY <1>1, <1>2, <1>3, <1>4 DEF NoId

LEMMA ArchivePutsMetadataInv ==
    ASSUME Inv, NEW t \in tasks, ArchivePutsMetadata(t), UNCHANGED versioned
    PROVE  Inv'
<1> DEFINE u == [t EXCEPT !.pc = "gc", !.seen = NoObject]
           n == SetArchive(t)
<1>1. /\ UNCHANGED <<versioned, data, cold, clock, log, bucket, lost, thrown>>
      /\ t.kind = "status" /\ t.pc = "put"
  BY DEF ArchivePutsMetadata
<1>2. t \in StatusTasks /\ t.msg \in msgs /\ t.msg.type = "status"
  BY <1>1, AtHand, TaskKinds
<1>3. CASE NotCommitted(t) /\ UNCHANGED <<md, stale>>
  BY <1>1, <1>3, TaskDone
<1>4. CASE /\ md # NoObject /\ PutMetadata(t.seen, n)
           /\ \/ Done(t, {})
              \/ tasks' = (tasks \ {t}) \cup {u} /\ UNCHANGED <<msgs, held, used>>
  <2>1. t.seen \in Metas
    BY <1>1, <1>2 DEF StatusTasks
  <2>2. /\ n \in Metas /\ n.at = t.seen.at /\ n.etag = t.seen.etag /\ n.arch = t.msg.arch
        /\ n.arch # NoId /\ ~n.req /\ ~n.done /\ ~n.past
    BY <1>2, <2>1, SetArchiveType, AtHand
  <2> HIDE DEF n
  <2>3. md' = n /\ stale' \in BOOLEAN /\ (Alive' => Alive /\ md = t.seen)
    BY <1>4, PutIsCurrent
  <2>4. StateOK'
    BY <1>1, <2>2, <2>3, SameState, AtHand DEF StateOK, bucket
  <2>5. UsedOK'
    <3>1. "faults" \in Events /\ (UNCHANGED used \/ Fault)
      BY <1>4 DEF Events, Done
    <3> QED BY <3>1, UsesCount, AtHand DEF Fault
  <2>6. u \in AllTasks /\ u.kind = t.kind /\ u.msg = t.msg /\ u.pc = "gc"
    BY <1>2 DEF AllTasks, StatusTasks
  <2> HIDE DEF u
  <2>7. MsgsOK' /\ TasksOK' /\ msgs' \subseteq msgs
    <3>1. CASE Done(t, {})
      <4>1. tasks' = tasks \ {t} /\ held' = held /\ msgs \ {t.msg} \subseteq msgs' /\ msgs' \subseteq msgs
        BY <3>1 DEF Done
      <4> QED BY <1>1, <2>4, <4>1, TaskEnds, AtHand DEF MsgsOK
    <3>2. CASE tasks' = (tasks \ {t}) \cup {u} /\ UNCHANGED <<msgs, held, used>>
      BY <1>1, <2>4, <2>6, <3>2, TaskGoesOn, AtHand
    <3> QED BY <1>4, <3>1, <3>2
  <2>8. Dead' \subseteq Dead
    BY <1>1, <2>7 DEF Dead, LogSet
  <2>9. ASSUME Alive'
        PROVE  /\ Alive /\ md'.at = md.at /\ md'.etag = md.etag
               /\ md'.arch # NoId /\ ~md'.done
               /\ \E c \in cold : c.id = md'.arch /\ c.etag = md.etag
               /\ md'.arch \notin Dead
               /\ \A v \in tasks' : v \notin tasks => TaskCurrent(v)'
    <3>1. Alive /\ md = t.seen
      BY <2>3, <2>9
    <3>2. t.msg.at = md.at
      BY <1>1, <3>1, AtHand DEF TaskCurrent
    <3>3. Stored(t.msg.arch, t.msg.etag) /\ t.msg.arch \notin Dead /\ t.msg.etag = md.etag
      BY <1>2, <3>1, <3>2, AtHand DEF MsgCurrent
    <3>4. \A v : v = u => TaskCurrent(v)'
      BY <1>1, <2>2, <2>3, <2>6 DEF TaskCurrent, Archived
    <3>5. \A v \in tasks' : v \notin tasks => v = u
      BY <1>4 DEF Done
    <3> QED BY <2>2, <2>3, <3>1, <3>3, <3>4, <3>5 DEF Stored
  <2>10. md'.past = FALSE /\ md'.req = FALSE
    BY <2>2, <2>3 DEF Metas, Metadata
  <2> QED BY <1>1, <2>4, <2>5, <2>7, <2>8, <2>9, <2>10, MetadataPut
<1> QED BY <1>3, <1>4 DEF ArchivePutsMetadata, Go

LEMMA ClearArchivedSourceInv ==
    ASSUME Inv, NEW t \in tasks, ClearArchivedSource(t), UNCHANGED versioned
    PROVE  Inv'
<1> DEFINE n == [t.seen EXCEPT !.loc = NoId, !.store = "cold", !.class = "cold", !.tip = FALSE]
<1>1. /\ UNCHANGED <<versioned, data, cold, clock, log, bucket, lost, thrown>>
      /\ t.kind = "archivedSource"
  BY DEF ClearArchivedSource
<1>2. t \in SourceTasks /\ t.msg \in msgs /\ t.msg.type = "archivedSource"
  BY <1>1, AtHand, TaskKinds
<1>3. CASE NotCommitted(t) /\ UNCHANGED <<md, stale>>
  BY <1>1, <1>3, TaskDone
<1>4. CASE md # NoObject /\ PutMetadata(t.seen, n) /\ Done(t, {})
  <2>1. t.seen \in Metas
    BY <1>2 DEF SourceTasks
  <2>2. /\ n \in Metas /\ n.at = t.seen.at /\ n.etag = t.seen.etag /\ n.arch = t.seen.arch
        /\ n.req = t.seen.req /\ n.done = t.seen.done /\ n.past = t.seen.past
    <3>1. t.seen \in Metadata /\ t.seen.at <= clock /\ t.seen.arch <= clock /\ clock \in Nat
      BY <2>1, AtHand DEF Metas
    <3>2. /\ n \in Metadata /\ n.at = t.seen.at /\ n.etag = t.seen.etag /\ n.arch = t.seen.arch
          /\ n.req = t.seen.req /\ n.done = t.seen.done /\ n.past = t.seen.past /\ n.loc = 0
      BY <3>1 DEF Metadata, NoId, Stores
    <3> HIDE DEF n
    <3> QED BY <3>1, <3>2 DEF Metas
  <2> HIDE DEF n
  <2>3. md' = n /\ stale' \in BOOLEAN /\ (Alive' => Alive /\ md = t.seen)
    BY <1>4, PutIsCurrent
  <2>4. StateOK'
    BY <1>1, <2>2, <2>3, SameState, AtHand DEF StateOK, bucket
  <2>5. UsedOK'
    <3>1. "faults" \in Events /\ (UNCHANGED used \/ Fault)
      BY <1>4 DEF Events, Done
    <3> QED BY <3>1, UsesCount, AtHand DEF Fault
  <2>6. tasks' = tasks \ {t} /\ held' = held /\ msgs \ {t.msg} \subseteq msgs' /\ msgs' \subseteq msgs
    BY <1>4 DEF Done
  <2>7. MsgsOK' /\ TasksOK'
    BY <1>1, <2>4, <2>6, TaskEnds, AtHand DEF MsgsOK
  <2>8. Dead' \subseteq Dead
    BY <1>1, <2>6 DEF Dead, LogSet
  <2>9. ASSUME Alive'
        PROVE  /\ Alive /\ md'.at = md.at /\ md'.etag = md.etag
               /\ md'.arch # NoId /\ ~md'.done
               /\ \E c \in cold : c.id = md'.arch /\ c.etag = md.etag
               /\ md'.arch \notin Dead /\ (md'.past => md'.done)
    <3>1. Alive /\ md = t.seen
      BY <2>3, <2>9
    <3>2. t.msg.at = md.at /\ ~md.done
      BY <1>1, <3>1, AtHand DEF TaskCurrent
    <3>3. Archived
      BY <1>2, <3>1, <3>2, AtHand DEF MsgCurrent
    <3>4. Stored(md.arch, md.etag) /\ md.arch \notin Dead /\ (md.past => md.done)
      BY <3>1, <3>3, AtHand DEF ObjectData
    <3> QED BY <2>2, <2>3, <3>1, <3>2, <3>3, <3>4 DEF Stored, Archived
  <2> QED BY <1>1, <2>4, <2>5, <2>6, <2>7, <2>8, <2>9, MetadataPut
<1> QED BY <1>3, <1>4 DEF ClearArchivedSource

(* The restored copy is over, and its archive is still there *)
LEMMA ResetArchiveInv ==
    ASSUME Inv, NEW t \in tasks, ResetArchive(t), UNCHANGED versioned
    PROVE  Inv'
<1> DEFINE n == [t.seen EXCEPT !.req = FALSE, !.done = FALSE, !.past = FALSE, !.store = "cold",
                               !.class = "cold", !.tip = FALSE]
           u == [t EXCEPT !.pc = "gc", !.seen = t.seen]
<1>1. /\ UNCHANGED <<versioned, data, cold, clock, log, bucket, lost, thrown>>
      /\ t.kind = "gc"
  BY DEF ResetArchive
<1>2. t \in ExpirationTasks
  BY <1>1, AtHand, TaskKinds
<1>3. CASE Done(t, {}) /\ UNCHANGED <<md, stale>>
  BY <1>1, <1>3, TaskDone
<1>4. CASE /\ md # NoObject /\ PutMetadata(t.seen, n)
           /\ tasks' = (tasks \ {t}) \cup {u} /\ UNCHANGED <<msgs, held, used>>
  <2>1. t.seen \in Metas
    BY <1>2 DEF ExpirationTasks
  <2>2. /\ n \in Metas /\ n.at = t.seen.at /\ n.etag = t.seen.etag /\ n.arch = t.seen.arch
        /\ n.req = FALSE /\ n.done = FALSE /\ n.past = FALSE
    BY <2>1 DEF Metas, Metadata, Stores
  <2>3. u \in ExpirationTasks /\ u.kind = t.kind /\ u.msg = t.msg /\ u.seen = t.seen
    BY <1>2 DEF ExpirationTasks
  <2> HIDE DEF n, u
  <2>4. md' = n /\ stale' \in BOOLEAN /\ (Alive' => Alive /\ md = t.seen)
    BY <1>4, PutIsCurrent
  <2>5. StateOK'
    BY <1>1, <2>2, <2>4, SameState, AtHand DEF StateOK, bucket
  <2>6. UsedOK'
    BY <1>4, AtHand DEF UsedOK, Max
  <2>7. u \in AllTasks
    BY <2>3 DEF AllTasks
  <2>8. MsgsOK' /\ TasksOK'
    BY <1>1, <1>4, <2>3, <2>5, <2>7, TaskGoesOn, AtHand
  <2>9. Dead' \subseteq Dead
    BY <1>1, <1>4 DEF Dead, LogSet
  <2>10. ASSUME Alive'
         PROVE  /\ Alive /\ md'.at = md.at /\ md'.etag = md.etag
                /\ md'.arch # NoId /\ ~md'.done
                /\ \E c \in cold : c.id = md'.arch /\ c.etag = md.etag
                /\ md'.arch \notin Dead
                /\ \A v \in tasks' : v \notin tasks => TaskCurrent(v)'
    <3>1. Alive /\ md = t.seen
      BY <2>4, <2>10
    <3>2. TaskCurrent(t)
      BY <3>1, AtHand
    <3>3. md.arch # NoId
      BY <1>1, <3>1, <3>2 DEF TaskCurrent
    <3>4. Stored(md.arch, md.etag) /\ md.arch \notin Dead
      BY <3>1, <3>3, AtHand DEF ObjectData, Archived
    <3>5. \A v : v = u => TaskCurrent(v)'
      BY <1>1, <2>3, <3>2 DEF TaskCurrent, RestoreExpired
    <3> QED BY <1>4, <2>2, <2>4, <3>1, <3>3, <3>4, <3>5 DEF Stored
  <2>11. md'.past = FALSE /\ md'.req = FALSE
    BY <2>2, <2>4
  <2> QED BY <1>1, <1>4, <2>5, <2>6, <2>8, <2>9, <2>10, <2>11, MetadataPut
<1> QED BY <1>3, <1>4 DEF ResetArchive, Go

LEMMA RequeuePutsMetadataInv ==
    ASSUME Inv, NEW t \in tasks, RequeuePutsMetadata(t), UNCHANGED versioned
    PROVE  Inv'
<1>1. /\ UNCHANGED <<versioned, data, cold, clock, bucket, lost, thrown>>
      /\ t.kind = "requeue" /\ Done(t, {})
  BY DEF RequeuePutsMetadata
<1>2. t \in RequeueTasks /\ t.seen \in Metas
  <2>1. t \in RequeueTasks
    BY <1>1, AtHand, TaskKinds
  <2> QED BY <2>1 DEF RequeueTasks
<1>3. CASE UNCHANGED <<md, stale, log>>
  BY <1>1, <1>3, TaskDone
<1>4. ASSUME NEW n \in Metas, md # NoObject, PutMetadata(t.seen, n),
             n.at = t.seen.at, n.etag = t.seen.etag, n.loc = t.seen.loc, n.arch = t.seen.arch,
             n.done = t.seen.done, n.past = t.seen.past, n.req = t.seen.req,
             log' = log \/ log' = LoggedPut("retry", t.seen)
      PROVE  Inv'
  <2>1. md' = n /\ stale' \in BOOLEAN /\ (Alive' => Alive /\ md = t.seen)
    BY <1>4, PutIsCurrent
  <2>2. log' \in Seq(Logs) /\ \A e \in LogSet' : e.type = "delete" => e \in LogSet
    <3>1. CASE log' = log
      BY <3>1, AtHand DEF LogSet, StateOK
    <3>2. CASE log' = LoggedPut("retry", t.seen)
      BY <1>2, <3>2, PutIsLogged, PutDeletesNothing, AtHand
    <3> QED BY <1>4, <3>1, <3>2
  <2>3. StateOK'
    BY <1>1, <1>4, <2>1, <2>2, SameState, AtHand DEF StateOK, bucket
  <2>4. UsedOK'
    <3>1. "faults" \in Events /\ (UNCHANGED used \/ Fault)
      BY <1>1 DEF Events, Done
    <3> QED BY <3>1, UsesCount, AtHand DEF Fault
  <2>5. tasks' = tasks \ {t} /\ held' = held /\ msgs \ {t.msg} \subseteq msgs' /\ msgs' \subseteq msgs
    BY <1>1 DEF Done
  <2>6. MsgsOK' /\ TasksOK'
    BY <1>1, <2>3, <2>5, TaskEnds, AtHand DEF MsgsOK
  <2>7. Dead' \subseteq Dead /\ Doomed' \subseteq Doomed
    BY <2>2, <2>5 DEF Dead, Doomed
  <2>8. Alive' => /\ Alive /\ md'.at = md.at /\ md'.etag = md.etag
                  /\ md'.loc = md.loc /\ md'.arch = md.arch /\ (md'.done => md.done)
                  /\ md'.past => md'.done
                  /\ md'.req => md'.arch # NoId
    BY <1>4, <2>1, AtHand DEF ObjectData, Archived
  <2> QED BY <1>1, <2>3, <2>4, <2>5, <2>6, <2>7, <2>8, MetadataPut
<1>5. CASE md # NoObject /\ t.msg.type = "requeueTransition"
  <2>1. PutMetadata(t.seen, [t.seen EXCEPT !.tip = FALSE]) /\ log' = log
    BY <1>5 DEF RequeuePutsMetadata
  <2> QED BY <1>2, <1>4, <1>5, <2>1, SameButTip
<1>6. CASE md # NoObject /\ t.msg.type # "requeueTransition"
  BY <1>2, <1>4, <1>6 DEF RequeuePutsMetadata
<1> QED BY <1>3, <1>5, <1>6 DEF RequeuePutsMetadata

-----------------------------------------------------------------------------
(* The invariant *)

LEMMA InitInv == Init => Inv
<1> SUFFICES ASSUME Init PROVE Inv
  OBVIOUS
<1> DEFINE o == [etag |-> InitialContents, at |-> 1, loc |-> 1, arch |-> NoId,
                 req |-> FALSE, done |-> FALSE, past |-> FALSE, store |-> "warm",
                 class |-> "warm", tip |-> FALSE]
<1>1. cold = {} /\ log = << >> /\ msgs = {} /\ held = {} /\ tasks = {} /\ clock \in {0, 1}
  BY DEF Init
<1>2. o \in Metadata /\ o.at = 1 /\ o.loc = 1 /\ o.arch = 0 /\ o.etag = InitialContents
      /\ ~o.req /\ ~o.done /\ ~o.past /\ InitialContents \in Contents
  BY ArchiveAssumption DEF Metadata, NoId, Stores, ArchiveAssumption
<1>3. \/ md = NoObject /\ data = {} /\ clock = 0
      \/ md = o /\ data = {[loc |-> 1, etag |-> InitialContents]} /\ clock = 1
  BY DEF Init
<1> HIDE DEF o
<1>4. StateOK
  <2>1. clock = 1 => o \in Metas
    BY <1>2 DEF Metas
  <2>2. data \subseteq [loc : 1 .. clock, etag : Contents]
    BY <1>2, <1>3
  <2>3. /\ versioned \in BOOLEAN /\ config \in BOOLEAN /\ zkNode \in BOOLEAN
        /\ stale \in BOOLEAN /\ lost \in BOOLEAN /\ thrown \in BOOLEAN
    BY DEF Init
  <2>4. log \in Seq(Logs) /\ clock \in Nat /\ cold \subseteq [id : 1 .. clock, etag : Contents]
    BY <1>1
  <2>5. md \in Metas \cup {NoObject}
    BY <1>3, <2>1
  <2> QED BY <2>2, <2>3, <2>4, <2>5 DEF StateOK
<1>5. UsedOK
  <2>1. used \in [Events -> Nat] /\ \A e \in Events : used[e] = 0
    BY DEF Init, Events
  <2>2. \A e \in Events : Max[e] \in Nat
    BY ArchiveAssumption DEF Max, Events, ArchiveAssumption
  <2> QED BY <2>1, <2>2 DEF UsedOK
<1>6. MsgsOK /\ TasksOK
  BY <1>1 DEF MsgsOK, TasksOK
<1>7. Dead = {} /\ Doomed = {}
  BY <1>1 DEF Dead, Doomed, LogSet, Elems
<1>8. Alive => ObjectData
  <2>1. CASE md = o /\ data = {[loc |-> 1, etag |-> InitialContents]}
    <3>1. ~Archived /\ ~md.done /\ ~md.past /\ ~md.req
      BY <1>2, <2>1 DEF Archived, NoId
    <3>2. \E d \in data : d.loc = md.loc /\ d.etag = md.etag
      BY <1>2, <2>1
    <3> QED BY <1>7, <3>1, <3>2 DEF ObjectData
  <2> QED BY <1>3, <2>1 DEF Alive
<1> QED BY <1>1, <1>4, <1>5, <1>6, <1>8 DEF Inv, Shape, Current

LEMMA NextInv == Inv /\ Next => Inv'
<1> SUFFICES ASSUME Inv, Next PROVE Inv'
  OBVIOUS
<1>0. UNCHANGED versioned /\ Step
  BY DEF Next
<1>1. ASSUME NEW c \in Contents, UserPut(c) PROVE Inv'
  BY <1>0, <1>1, UserPutInv
<1>2. CASE UserDelete
  BY <1>0, <1>2, UserDeleteInv
<1>3. CASE UserRestore
  BY <1>0, <1>3, UserRestoreInv
<1>4. CASE UserSetsLifecycle
  BY <1>0, <1>4, UserSetsLifecycleInv
<1>5. CASE RestoreExpires
  BY <1>0, <1>5, RestoreExpiresInv
<1>6. CASE ColdExpires
  BY <1>0, <1>6, ColdExpiresInv
<1>7. CASE Filter
  BY <1>0, <1>7, FilterInv
<1>8. CASE Restart
  BY <1>0, <1>8, RestartInv
<1>9. CASE ApplyTransitionRule
  BY <1>0, <1>9, ApplyTransitionRuleInv
<1>10. ASSUME NEW m \in msgs,
              \/ ColdArchives(m) \/ ColdRestores(m) \/ ColdDeletes(m)
              \/ ArchiveGetsMetadata(m) \/ SourceGetsMetadata(m) \/ ExecuteDeleteData(m)
              \/ ExpirationGetsMetadata(m) \/ RequeueGetsMetadata(m)
       PROVE  Inv'
  BY <1>0, <1>10, ColdArchivesInv, ColdRestoresInv, ColdDeletesInv, ArchiveGetsMetadataInv,
     SourceGetsMetadataInv, ExecuteDeleteDataInv, ExpirationGetsMetadataInv,
     RequeueGetsMetadataInv
<1>11. ASSUME NEW t \in tasks,
              \/ RefreshObjectMD(t) \/ SetTransitionInProgress(t)
              \/ ArchivePutsMetadata(t) \/ GarbageCollectArchivedSource(t)
              \/ DeleteArchivedSourceData(t) \/ ClearArchivedSource(t)
              \/ ResetArchive(t) \/ GarbageCollectLocation(t)
              \/ RequeuePutsMetadata(t) \/ TaskFails(t)
       PROVE  Inv'
  BY <1>0, <1>11, RefreshObjectMDInv, SetTransitionInProgressInv, ArchivePutsMetadataInv,
     GarbageCollectArchivedSourceInv, DeleteArchivedSourceDataInv, ClearArchivedSourceInv,
     ResetArchiveInv, GarbageCollectLocationInv, RequeuePutsMetadataInv, TaskFailsInv
<1> QED BY <1>0, <1>1, <1>2, <1>3, <1>4, <1>5, <1>6, <1>7, <1>8, <1>9, <1>10, <1>11 DEF Step

LEMMA StutterInv == Inv /\ UNCHANGED vars => Inv'
<1> SUFFICES ASSUME Inv, UNCHANGED vars PROVE Inv'
  OBVIOUS
<1>1. UNCHANGED <<versioned, md, data, cold, clock, log, msgs, held, tasks, config, zkNode, used,
                  stale, lost, early, thrown>>
  BY DEF vars
<1>2. StateOK' /\ UsedOK' /\ LogSet' = LogSet
  BY <1>1, SameWorld, AtHand DEF bucket
<1>3. MsgsOK' /\ TasksOK'
  BY <1>1, <1>2, EntriesChange, AtHand, TypesGrow DEF MsgsOK
<1> QED BY <1>1, <1>2, <1>3, Quiet

(* Every behaviour keeps the invariant: at any number of writes, restores,    *)
(* scans, crashes and repeated entries                                        *)
THEOREM Invariance == Spec => []Inv
<1>1. Inv /\ [Next]_vars => Inv'
  BY NextInv, StutterInv
<1> QED BY InitInv, <1>1, PTL DEF Spec

(* The state of the archived object is well formed: an entry is in the hands  *)
(* of one task, and no task works on an entry that was set aside              *)
THEOREM TypeCorrect == Spec => []TypeOK
<1>1. Inv => TypeOK
  <2> SUFFICES ASSUME Inv PROVE TypeOK
    OBVIOUS
  <2>1. md \in Metadata \union {NoObject}
    BY AtHand DEF Metas
  <2>2. /\ data \subseteq [loc : 1 .. clock, etag : Contents]
        /\ cold \subseteq [id : 1 .. clock, etag : Contents]
        /\ {config, zkNode, stale, lost, thrown} \subseteq BOOLEAN
    BY AtHand DEF StateOK
  <2>3. AllMsgs \subseteq Messages
    <3>1. clock \in Nat
      BY AtHand
    <3>2. Archives \subseteq Messages /\ Statuses \subseteq Messages
      BY <3>1 DEF Archives, Statuses, Messages
    <3>3. Collections \subseteq Messages /\ Restores \subseteq Messages
      BY <3>1 DEF Collections, Restores, Messages
    <3>4. Expirations \subseteq Messages /\ Deletions \subseteq Messages /\ Adjusts \subseteq Messages
      BY <3>1 DEF Expirations, Deletions, Adjusts, Messages
    <3> QED BY <3>2, <3>3, <3>4 DEF AllMsgs
  <2>4. msgs \subseteq Messages /\ held \subseteq msgs
    BY <2>3, AtHand DEF MsgsOK
  <2>5. \A i \in DOMAIN log : log[i] \in LogEntries
    <3>1. \A i \in DOMAIN log : log[i] \in Logs
      BY AtHand DEF StateOK
    <3>2. Logs \subseteq LogEntries
      BY DEF Logs, LogEntries, Metas
    <3> QED BY <3>1, <3>2
  <2>6. ASSUME NEW t \in tasks
        PROVE  /\ t.kind \in {"scan", "status", "archivedSource", "gc", "requeue"}
               /\ t.kind # "scan" => t.msg \in msgs \ held
               /\ t.seen \in Metadata \union {NoObject}
    <3>1. t \in AllTasks
      BY AtHand
    <3>2. t.seen \in Metas \cup {NoObject}
      BY <3>1 DEF AllTasks, Scans, StatusTasks, SourceTasks, ExpirationTasks, RequeueTasks
    <3>3. t.kind \in {"scan", "status", "archivedSource", "gc", "requeue"}
      BY <3>1, TaskKinds
    <3> QED BY <3>2, <3>3, AtHand DEF Metas
  <2>7. /\ used.writes <= MaxWrites /\ used.restores <= MaxRestores
        /\ used.scans <= MaxScans /\ used.faults <= MaxFaults
    <3>1. \A e \in Events : used[e] <= Max[e]
      BY AtHand DEF UsedOK
    <3> QED BY <3>1 DEF Events, Max
  <2> QED BY <2>1, <2>2, <2>4, <2>5, <2>6, <2>7 DEF TypeOK
<1> QED BY <1>1, Invariance, PTL

(* The contents of the object can be had, from its location or from its       *)
(* archive, whatever fails, until a task writes back metadata that has        *)
(* changed or applies an entry to an object written again or restored since   *)
THEOREM ContentsRecoverable == Spec => []Recoverable
<1>1. Inv => Recoverable
  BY AtHand DEF Recoverable, Alive, ObjectData, Stored, Archived
<1> QED BY <1>1, Invariance, PTL

-----------------------------------------------------------------------------
(* The restored copy *)

(* The steps that change the metadata *)
LEMMA OtherSteps ==
    ASSUME Inv, Step, md' # md
    PROVE  \/ \E c \in Contents : UserPut(c)
           \/ UserDelete \/ UserRestore \/ RestoreExpires
           \/ \E m \in msgs : ColdRestores(m)
           \/ \E t \in tasks : \/ SetTransitionInProgress(t) \/ ArchivePutsMetadata(t)
                               \/ ClearArchivedSource(t) \/ ResetArchive(t)
                               \/ RequeuePutsMetadata(t)
<1>1. ~UserSetsLifecycle /\ ~ColdExpires /\ ~Filter /\ ~Restart /\ ~ApplyTransitionRule
  BY DEF UserSetsLifecycle, ColdExpires, Filter, Restart, ApplyTransitionRule
<1>2. \A m \in msgs : /\ ~ColdArchives(m) /\ ~ColdDeletes(m) /\ ~ArchiveGetsMetadata(m)
                      /\ ~SourceGetsMetadata(m) /\ ~ExecuteDeleteData(m)
                      /\ ~ExpirationGetsMetadata(m) /\ ~RequeueGetsMetadata(m)
  BY DEF ColdArchives, ColdDeletes, ArchiveGetsMetadata, SourceGetsMetadata, ExecuteDeleteData,
         ExpirationGetsMetadata, RequeueGetsMetadata
<1>3. \A t \in tasks : /\ ~RefreshObjectMD(t) /\ ~GarbageCollectArchivedSource(t)
                       /\ ~DeleteArchivedSourceData(t) /\ ~GarbageCollectLocation(t)
                       /\ ~TaskFails(t)
  BY DEF RefreshObjectMD, GarbageCollectArchivedSource, DeleteArchivedSourceData,
         GarbageCollectLocation, TaskFails
<1> QED BY <1>1, <1>2, <1>3 DEF Step

(* A put that is not stale is of the metadata that was read *)
LEMMA ReadIsCurrent ==
    ASSUME Inv, ~stale, ~stale', NEW t \in tasks,
           \/ SetTransitionInProgress(t) \/ ArchivePutsMetadata(t) \/ ClearArchivedSource(t)
           \/ ResetArchive(t) \/ RequeuePutsMetadata(t),
           md # NoObject
    PROVE  md = t.seen
<1>1. \E new : PutMetadata(t.seen, new)
  BY DEF SetTransitionInProgress, ArchivePutsMetadata, ClearArchivedSource, ResetArchive,
         RequeuePutsMetadata
<1> QED BY <1>1 DEF PutMetadata

(* A restored copy is there until its date: an entry that ends it early is    *)
(* ignored, however often it comes.  Not covered (stale): a status or an      *)
(* archivedSource entry delivered again after the restore, which wipes the    *)
(* copy, and metadata written back that has changed since it was read         *)
THEOREM RestoredCopyStays == Spec => RestoredUntilExpired
<1> DEFINE A == md # NoObject /\ md' # NoObject /\ md.at = md'.at /\ md.done /\ ~md.past /\ ~stale' =>
                    md'.done /\ md'.loc = md.loc /\ \E d \in data' : d.loc = md'.loc
<1>1. Inv /\ Inv' /\ Next => A
  <2> SUFFICES ASSUME Inv, Inv', Next, md # NoObject, md' # NoObject, md.at = md'.at, md.done,
                      ~md.past, ~stale'
               PROVE  md'.done /\ md'.loc = md.loc /\ \E d \in data' : d.loc = md'.loc
    OBVIOUS
  <2>1. Alive /\ md \in Metas /\ Alive'
    BY AtHand DEF Alive, Next
  <2>2. md'.done => \E d \in data' : d.loc = md'.loc
    BY <2>1 DEF Inv, Current, ObjectData
  <2>3. SUFFICES ASSUME md' # md PROVE md'.done /\ md'.loc = md.loc
    BY <2>2
  <2>4. ASSUME NEW c \in Contents, UserPut(c) PROVE FALSE
    <3>1. md'.at = clock + 1
      <4>1. md \in Metadata
        BY <2>1 DEF Metas
      <4> QED BY <2>4, <4>1 DEF UserPut, Metadata
    <3>2. md.at <= clock /\ clock \in Nat /\ md.at \in Nat
      BY <2>1, AtHand DEF Metas, Metadata
    <3> QED BY <3>1, <3>2
  <2>5. CASE UserDelete
    BY <2>5 DEF UserDelete
  <2>6. CASE UserRestore
    BY <2>1, <2>6 DEF UserRestore, Metas, Metadata
  <2>7. CASE RestoreExpires
    BY <2>1, <2>7 DEF RestoreExpires, Metas, Metadata
  <2>8. ASSUME NEW m \in msgs, ColdRestores(m) PROVE FALSE
    BY <2>3, <2>8 DEF ColdRestores
  <2>9. ASSUME NEW t \in tasks, SetTransitionInProgress(t) PROVE md'.done /\ md'.loc = md.loc
    <3>1. md = t.seen
      BY <2>1, <2>9, ReadIsCurrent DEF Alive
    <3>2. md' = [md EXCEPT !.tip = TRUE]
      BY <2>9, <3>1 DEF SetTransitionInProgress, PutMetadata
    <3> QED BY <2>1, <3>2 DEF Metas, Metadata
  <2>10. ASSUME NEW t \in tasks, ArchivePutsMetadata(t) \/ ClearArchivedSource(t) \/ ResetArchive(t)
         PROVE  FALSE
    <3>1. md = t.seen /\ TaskCurrent(t)
      BY <2>1, <2>10, ReadIsCurrent, AtHand DEF Alive
    <3> QED BY <2>10, <3>1
            DEF ArchivePutsMetadata, ClearArchivedSource, ResetArchive, TaskCurrent, RestoreExpired
  <2>11. ASSUME NEW t \in tasks, RequeuePutsMetadata(t) PROVE md'.done /\ md'.loc = md.loc
    <3>1. md = t.seen
      BY <2>1, <2>11, ReadIsCurrent DEF Alive
    <3>2. md' = [md EXCEPT !.tip = FALSE] \/ md' = md
      BY <2>11, <3>1 DEF RequeuePutsMetadata, PutMetadata
    <3> QED BY <2>1, <2>3, <3>2 DEF Metas, Metadata
  <2>12. Step
    BY DEF Next
  <2> QED BY <2>3, <2>4, <2>5, <2>6, <2>7, <2>8, <2>9, <2>10, <2>11, <2>12, OtherSteps
<1>2. Inv /\ Inv' /\ [Next]_vars => [A]_vars
  BY <1>1
<1> QED BY <1>2, Invariance, PTL DEF Spec, RestoredUntilExpired

-----------------------------------------------------------------------------
(* What was begun *)

Sources == {"status", "archivedSource"}
Requests == {"restore", "requeueRestore"}

(* The steps after which an entry of these is no more in its topic *)
LEMMA Removed ==
    ASSUME Inv, Step, NEW m \in msgs, m \notin msgs', m.type \in Sources \cup Requests
    PROVE  \/ m.type = "restore" /\ ColdRestores(m)
           \/ m.type = "status" /\ ArchiveGetsMetadata(m)
           \/ m.type = "requeueRestore" /\ RequeueGetsMetadata(m)
           \/ \E t \in tasks : /\ t.msg = m /\ t.kind # "scan"
                               /\ \/ ArchivePutsMetadata(t) \/ GarbageCollectArchivedSource(t)
                                  \/ ClearArchivedSource(t) \/ RequeuePutsMetadata(t)
                                  \/ TaskFails(t)
<1>1. /\ \A c \in Contents : ~UserPut(c)
      /\ ~UserDelete /\ ~UserRestore /\ ~UserSetsLifecycle /\ ~RestoreExpires
      /\ ~ColdExpires /\ ~Restart /\ ~ApplyTransitionRule /\ ~Filter
  BY DEF UserPut, UserDelete, UserRestore, UserSetsLifecycle, RestoreExpires, ColdExpires,
         Restart, ApplyTransitionRule, Filter
<1>2. ASSUME NEW x \in msgs,
             \/ ColdArchives(x) \/ ColdRestores(x) \/ ColdDeletes(x)
             \/ ArchiveGetsMetadata(x) \/ SourceGetsMetadata(x) \/ ExecuteDeleteData(x)
             \/ ExpirationGetsMetadata(x) \/ RequeueGetsMetadata(x)
      PROVE  \/ m.type = "restore" /\ ColdRestores(m)
             \/ m.type = "status" /\ ArchiveGetsMetadata(m)
             \/ m.type = "requeueRestore" /\ RequeueGetsMetadata(m)
  <2>1. m = x
    BY <1>2 DEF ColdArchives, ColdRestores, ColdDeletes, ArchiveGetsMetadata, SourceGetsMetadata,
                ExecuteDeleteData, ExpirationGetsMetadata, RequeueGetsMetadata, Done, Task,
                NotCommitted
  <2>2. ~SourceGetsMetadata(x)
    BY <2>1 DEF SourceGetsMetadata, NotCommitted
  <2> QED BY <1>2, <2>1, <2>2
          DEF ColdArchives, ColdRestores, ColdDeletes, ArchiveGetsMetadata, ExecuteDeleteData,
              ExpirationGetsMetadata, RequeueGetsMetadata, Sources, Requests
<1>3. ASSUME NEW t \in tasks,
             \/ RefreshObjectMD(t) \/ SetTransitionInProgress(t)
             \/ ArchivePutsMetadata(t) \/ GarbageCollectArchivedSource(t)
             \/ DeleteArchivedSourceData(t) \/ ClearArchivedSource(t)
             \/ ResetArchive(t) \/ GarbageCollectLocation(t)
             \/ RequeuePutsMetadata(t) \/ TaskFails(t)
      PROVE  /\ t.msg = m /\ t.kind # "scan"
             /\ \/ ArchivePutsMetadata(t) \/ GarbageCollectArchivedSource(t)
                \/ ClearArchivedSource(t) \/ RequeuePutsMetadata(t)
                \/ TaskFails(t)
  <2>1. ~RefreshObjectMD(t) /\ ~SetTransitionInProgress(t) /\ ~DeleteArchivedSourceData(t)
    BY DEF RefreshObjectMD, SetTransitionInProgress, DeleteArchivedSourceData
  <2>2. t.msg = m
    BY <1>3, <2>1 DEF ArchivePutsMetadata, GarbageCollectArchivedSource, ClearArchivedSource,
                      ResetArchive, GarbageCollectLocation, RequeuePutsMetadata, TaskFails, Done,
                      NotCommitted
  <2>3. t.kind # "gc"
    BY <2>2, AtHand, TaskKinds DEF Sources, Requests
  <2>4. t.kind # "scan"
    BY <2>2, AtHand, TaskKinds, EntryTypes
  <2> QED BY <1>3, <2>1, <2>2, <2>3, <2>4 DEF ResetArchive, GarbageCollectLocation
<1> QED BY <1>1, <1>2, <1>3 DEF Step

(* Archived source data waits for its collection *)
SourceRemembered ==
    Alive /\ ~lost /\ Archived /\ md.store = "warm" /\ ~md.done =>
        \E m \in msgs : m.type \in Sources

(* An entry is followed by another, unless the source data is out of the way *)
LEMMA SourceEntriesStay ==
    ASSUME Inv, Next, Alive, Alive', ~lost', NEW m \in msgs, m.type \in Sources
    PROVE  (\E n \in msgs' : n.type \in Sources) \/ md'.store = "cold"
<1> SUFFICES ASSUME m \notin msgs' PROVE (\E n \in msgs' : n.type \in Sources) \/ md'.store = "cold"
  OBVIOUS
<1>0. Step /\ md # NoObject /\ ~stale /\ ~stale'
  BY DEF Next, Alive
<1>1. CASE m.type = "status" /\ ArchiveGetsMetadata(m)
  BY <1>0, <1>1 DEF ArchiveGetsMetadata
<1>2. ASSUME NEW t \in tasks, t.msg = m, ArchivePutsMetadata(t)
      PROVE  md'.store = "cold"
  <2>1. md' = SetArchive(t) /\ SetArchive(t).loc = NoId /\ t.kind = "status"
    BY <1>0, <1>2 DEF ArchivePutsMetadata, PutMetadata
  <2>2. t \in StatusTasks /\ t.seen \in Metas
    <3>1. t \in StatusTasks /\ t.pc = "put"
      BY <1>2, AtHand, TaskKinds DEF ArchivePutsMetadata
    <3> QED BY <3>1 DEF StatusTasks
  <2> QED BY <2>1, <2>2, SetArchiveType, AtHand
<1>3. ASSUME NEW t \in tasks, t.msg = m, GarbageCollectArchivedSource(t)
      PROVE  \E n \in msgs' : n.type \in Sources
  <2>1. [t.msg EXCEPT !.type = "archivedSource"] \in msgs'
    BY <1>3 DEF GarbageCollectArchivedSource, Done
  <2>2. m \in Statuses
    BY AtHand, EntryTypes DEF Sources
  <2>3. [t.msg EXCEPT !.type = "archivedSource"].type = "archivedSource"
    BY <1>3, <2>2 DEF Statuses
  <2> QED BY <2>1, <2>3 DEF Sources
<1>4. ASSUME NEW t \in tasks, t.msg = m, ClearArchivedSource(t)
      PROVE  md'.store = "cold"
  <2>1. t.seen \in Metadata
    <3>1. t \in SourceTasks
      BY <1>4, AtHand, TaskKinds DEF ClearArchivedSource
    <3> QED BY <3>1 DEF SourceTasks, Metas
  <2>2. md' = [t.seen EXCEPT !.loc = NoId, !.store = "cold", !.class = "cold", !.tip = FALSE]
    BY <1>0, <1>4 DEF ClearArchivedSource, PutMetadata
  <2> QED BY <2>1, <2>2 DEF Metadata
<1>5. ASSUME NEW t \in tasks, t.msg = m, t.kind # "scan", RequeuePutsMetadata(t) \/ TaskFails(t)
      PROVE  FALSE
  <2>1. t.kind = "requeue" => t.msg.type \notin Sources
    BY AtHand, TaskKinds DEF Sources
  <2> QED BY <1>5, <2>1 DEF RequeuePutsMetadata, TaskFails
<1> QED BY <1>0, <1>1, <1>2, <1>3, <1>4, <1>5, Removed DEF Sources, Requests

LEMMA SourceNext ==
    ASSUME Inv, Next, SourceRemembered, ~lost' => ~lost
    PROVE  SourceRemembered'
<1> SUFFICES ASSUME Alive', ~lost', Archived', md'.store = "warm", ~md'.done
             PROVE  \E m \in msgs' : m.type \in Sources
  BY DEF SourceRemembered
<1>0. Step /\ ~stale /\ ~stale' /\ md' # NoObject
  BY DEF Next, Alive
<1>1. CASE Alive /\ Archived /\ md.store = "warm" /\ ~md.done
  BY <1>1, SourceEntriesStay DEF SourceRemembered
<1>2. SUFFICES ASSUME md' # md,
                      ~(md # NoObject /\ Archived /\ md.store = "warm" /\ ~md.done)
               PROVE  \E m \in msgs' : m.type \in Sources
  BY <1>0, <1>1 DEF Archived, Alive
<1>3. md # NoObject => md \in Metadata
  BY AtHand DEF Metas
<1>4. ASSUME NEW c \in Contents, UserPut(c) PROVE FALSE
  BY <1>3, <1>4 DEF UserPut, Metadata, Archived, NoId
<1>5. CASE UserDelete
  BY <1>0, <1>5 DEF UserDelete
<1>6. CASE UserRestore
  BY <1>2, <1>3, <1>6 DEF UserRestore, Metadata, Archived
<1>7. CASE RestoreExpires
  BY <1>2, <1>3, <1>7 DEF RestoreExpires, Metadata, Archived
<1>8. ASSUME NEW m \in msgs, ColdRestores(m) PROVE FALSE
  BY <1>2, <1>3, <1>8 DEF ColdRestores, Metadata
<1>9. ASSUME NEW t \in tasks, SetTransitionInProgress(t) PROVE FALSE
  <2>1. md # NoObject
    BY <1>2, <1>9 DEF SetTransitionInProgress
  <2>2. md = t.seen
    BY <1>0, <1>9, <2>1, ReadIsCurrent
  <2>3. md' = [md EXCEPT !.tip = TRUE]
    BY <1>9, <2>1, <2>2 DEF SetTransitionInProgress, PutMetadata
  <2> QED BY <1>2, <1>3, <2>1, <2>3 DEF Metadata, Archived
<1>10. ASSUME NEW t \in tasks, ArchivePutsMetadata(t)
       PROVE  \E m \in msgs' : m.type \in Sources
  <2>1. t.msg \in msgs /\ t.msg.type = "status" /\ md # NoObject
    BY <1>2, <1>10, AtHand, TaskKinds DEF ArchivePutsMetadata
  <2>2. Alive
    BY <1>0, <2>1 DEF Alive
  <2> QED BY <2>1, <2>2, SourceEntriesStay DEF Sources
<1>11. ASSUME NEW t \in tasks, ClearArchivedSource(t) PROVE FALSE
  <2>1. t.seen \in Metadata
    <3>1. t \in SourceTasks
      BY <1>11, AtHand, TaskKinds DEF ClearArchivedSource
    <3> QED BY <3>1 DEF SourceTasks, Metas
  <2> QED BY <1>2, <1>11, <2>1 DEF ClearArchivedSource, PutMetadata, Metadata
<1>12. ASSUME NEW t \in tasks, ResetArchive(t) PROVE FALSE
  <2>1. t.seen \in Metadata
    <3>1. t \in ExpirationTasks
      BY <1>12, AtHand, TaskKinds DEF ResetArchive
    <3> QED BY <3>1 DEF ExpirationTasks, Metas
  <2> QED BY <1>2, <1>12, <2>1 DEF ResetArchive, PutMetadata, Metadata
<1>13. ASSUME NEW t \in tasks, RequeuePutsMetadata(t) PROVE FALSE
  <2>1. md # NoObject
    BY <1>2, <1>13 DEF RequeuePutsMetadata
  <2>2. md = t.seen
    BY <1>0, <1>13, <2>1, ReadIsCurrent
  <2>3. md' = [md EXCEPT !.tip = FALSE] \/ md' = md
    BY <1>13, <2>1, <2>2 DEF RequeuePutsMetadata, PutMetadata
  <2> QED BY <1>2, <1>3, <2>1, <2>3 DEF Metadata, Archived
<1> QED BY <1>0, <1>2, <1>4, <1>5, <1>6, <1>7, <1>8, <1>9, <1>10, <1>11, <1>12, <1>13, OtherSteps

(* A restore that was asked for is in the log or in a topic *)
Wanted(arch) ==
    \/ \E e \in LogSet : Asks(e) /\ e.value.arch = arch
    \/ \E m \in msgs : m.type \in Requests /\ m.arch = arch

RestoreRemembered ==
    Alive /\ ~lost /\ md.req /\ ~md.done => Wanted(md.arch)

(* A put that is logged asks for the restore *)
LEMMA PutAsks ==
    ASSUME StateOK, UNCHANGED versioned, NEW op \in {"restore", "retry"}, NEW o \in Metas,
           o.req, ~o.done, log' = LoggedPut(op, o)
    PROVE  /\ LogSet \subseteq LogSet'
           /\ \E e \in LogSet' : Asks(e)' /\ e.value.arch = o.arch
<1>1. PICK i \in Keys : versioned => i # 1
  BY PutIsLogged
<1> DEFINE e == [type |-> "put", op |-> op, master |-> i = 1, value |-> o]
<1>2. LogSet \subseteq LogSet' /\ e \in LogSet'
  BY <1>1, PutIsLogged
<1>3. PICK f : f = e
  OBVIOUS
<1>4. Asks(f)' /\ f.value.arch = o.arch
  BY <1>1, <1>3 DEF Asks
<1> QED BY <1>2, <1>3, <1>4

(* The steps that change the log *)
LEMMA LogSteps ==
    ASSUME Step, log' # log
    PROVE  \/ LeaveArchive /\ md # NoObject
           \/ Filter \/ UserSetsLifecycle \/ UserRestore
           \/ \E t \in tasks : RequeuePutsMetadata(t)
<1>1. ~RestoreExpires /\ ~ColdExpires /\ ~Restart /\ ~ApplyTransitionRule
  BY DEF RestoreExpires, ColdExpires, Restart, ApplyTransitionRule
<1>2. \A m \in msgs :
        /\ ~ColdArchives(m) /\ ~ColdRestores(m) /\ ~ColdDeletes(m) /\ ~ArchiveGetsMetadata(m)
        /\ ~SourceGetsMetadata(m) /\ ~ExecuteDeleteData(m)
        /\ ~ExpirationGetsMetadata(m) /\ ~RequeueGetsMetadata(m)
  BY DEF ColdArchives, ColdRestores, ColdDeletes, ArchiveGetsMetadata, SourceGetsMetadata,
         ExecuteDeleteData, ExpirationGetsMetadata, RequeueGetsMetadata
<1>3. \A t \in tasks :
        /\ ~RefreshObjectMD(t) /\ ~SetTransitionInProgress(t) /\ ~ArchivePutsMetadata(t)
        /\ ~GarbageCollectArchivedSource(t) /\ ~DeleteArchivedSourceData(t)
        /\ ~ClearArchivedSource(t) /\ ~ResetArchive(t) /\ ~GarbageCollectLocation(t)
        /\ ~TaskFails(t)
  BY DEF RefreshObjectMD, SetTransitionInProgress, ArchivePutsMetadata,
         GarbageCollectArchivedSource, DeleteArchivedSourceData, ClearArchivedSource,
         ResetArchive, GarbageCollectLocation, TaskFails
<1>4. (UserDelete \/ \E c \in Contents : UserPut(c)) => LeaveArchive /\ md # NoObject
  BY DEF UserDelete, UserPut
<1> QED BY <1>1, <1>2, <1>3, <1>4 DEF Step

(* Only the populator takes entries off the log *)
LEMMA LogGrows ==
    ASSUME Inv, Next, ~Filter, md # NoObject
    PROVE  LogSet \subseteq LogSet'
<1>0. StateOK /\ md \in Metas /\ Step
  BY AtHand DEF Next
<1>1. ASSUME LeaveArchive PROVE LogSet \subseteq LogSet'
  <2>1. CASE md.arch # NoId
    BY <1>0, <1>1, <2>1, DeleteIsLogged DEF LeaveArchive
  <2>2. CASE md.arch = NoId
    BY <1>1, <2>2 DEF LeaveArchive, LogSet
  <2> QED BY <2>1, <2>2
<1>2. CASE log' = log
  BY <1>2 DEF LogSet
<1>3. CASE UserSetsLifecycle
  <2>1. log \in Seq(Logs) /\ Len(log) \in Nat /\ Len(log') = Len(log) + 1
    BY <1>0, <1>3 DEF StateOK, UserSetsLifecycle
  <2>2. \A i \in 1 .. Len(log) : log'[i] = log[i] /\ i \in 1 .. Len(log')
    BY <1>3, <2>1 DEF UserSetsLifecycle
  <2> QED BY <2>2 DEF LogSet, Elems
<1>4. CASE UserRestore
  <2>1. PICK o : o = md'
    OBVIOUS
  <2>2. log' = LoggedPut("restore", o)
    BY <1>4, <2>1 DEF UserRestore
  <2>3. md' = [md EXCEPT !.req = TRUE] \/ md' = [md EXCEPT !.past = FALSE]
    BY <1>4 DEF UserRestore
  <2>4. o \in Metas
    BY <1>0, <2>1, <2>3 DEF Metas, Metadata
  <2> QED BY <1>0, <2>2, <2>4, PutIsLogged
<1>5. ASSUME NEW t \in tasks, RequeuePutsMetadata(t) PROVE LogSet \subseteq LogSet'
  <2>1. t.seen \in Metas
    <3>1. t \in RequeueTasks
      BY <1>5, AtHand, TaskKinds DEF RequeuePutsMetadata
    <3> QED BY <3>1 DEF RequeueTasks
  <2>2. CASE log' = LoggedPut("retry", t.seen)
    BY <1>0, <2>1, <2>2, PutIsLogged
  <2> QED BY <1>2, <1>5, <2>2 DEF RequeuePutsMetadata
<1> QED BY <1>0, <1>1, <1>2, <1>3, <1>4, <1>5, LogSteps

(* A request that is wanted stays, as long as the object waits for it *)
LEMMA WantedStays ==
    ASSUME Inv, Next, Alive, Alive', ~lost', md.req, ~md.done, ~md'.done, Wanted(md.arch)
    PROVE  \E a : a = md.arch /\ Wanted(a)'
<1>0. /\ Step /\ md # NoObject /\ ~stale /\ ~stale' /\ versioned' = versioned /\ md \in Metas
      /\ ObjectData /\ StateOK
  BY AtHand DEF Next, Alive
<1>1. PICK a : a = md.arch
  OBVIOUS
<1>2. SUFFICES Wanted(a)'
  BY <1>1
<1>3. ASSUME NEW e \in LogSet, Asks(e), e.value.arch = a
      PROVE  Wanted(a)'
  <2>1. Asks(e)'
    BY <1>0, <1>3 DEF Asks
  <2>2. CASE e \in LogSet'
    BY <1>3, <2>1, <2>2 DEF Wanted
  <2>3. CASE Filter /\ e = Head(log)
    <3>1. Sent(e) = {RestoreRequest(e)}
      BY <1>3 DEF Sent, Asks, HandleRestoreOp
    <3>2. RestoreRequest(e) \in msgs'
      BY <2>3, <3>1, FilterSteps DEF Alive
    <3>3. RestoreRequest(e).type = "restore" /\ RestoreRequest(e).arch = a
      BY <1>3 DEF RestoreRequest
    <3> QED BY <3>2, <3>3 DEF Wanted, Requests
  <2>4. CASE Filter
    BY <1>0, <2>2, <2>3, <2>4, FilterSteps, EntryIsRead
  <2>5. CASE ~Filter
    BY <1>0, <2>2, <2>5, LogGrows
  <2> QED BY <2>4, <2>5
<1>4. ASSUME NEW m \in msgs, m.type \in Requests, m.arch = a
      PROVE  Wanted(a)'
  <2>1. CASE m \in msgs'
    BY <1>4, <2>1 DEF Wanted
  <2>2. CASE m.type = "restore" /\ ColdRestores(m)
    <3>1. \E c \in cold : c.id = m.arch
      BY <1>0, <1>1, <1>4 DEF ObjectData, Stored
    <3>2. ~md'.done => [type |-> "requeueRestore", etag |-> m.etag, arch |-> m.arch] \in msgs'
      <4>1. ASSUME NEW s \in Stores, NEW l,
                   md' = [md EXCEPT !.loc = l, !.done = TRUE, !.past = FALSE, !.store = s]
            PROVE  md'.done
        BY <1>0, <4>1 DEF Metas, Metadata
      <4> QED BY <1>0, <1>1, <1>4, <2>2, <3>1, <4>1 DEF ColdRestores
    <3> QED BY <1>4, <3>2 DEF Wanted, Requests
  <2>3. CASE m.type = "requeueRestore" /\ RequeueGetsMetadata(m) /\ m \notin msgs'
    <3>1. ~RetriggerApplies
      BY <1>0, <2>3 DEF RequeueGetsMetadata
    <3> QED BY <1>0, <3>1 DEF RetriggerApplies, ObjectData, Archived
  <2>4. ASSUME NEW t \in tasks, t.msg = m, RequeuePutsMetadata(t)
        PROVE  Wanted(a)'
    <3>1. md = t.seen
      BY <1>0, <2>4, ReadIsCurrent
    <3>2. log' = LoggedPut("retry", md)
      BY <1>0, <1>4, <2>4, <3>1 DEF RequeuePutsMetadata, Requests
    <3>3. PICK o : o = md
      OBVIOUS
    <3>4. \E e \in LogSet' : Asks(e)' /\ e.value.arch = o.arch
      BY <1>0, <3>2, <3>3, PutAsks
    <3> QED BY <1>1, <3>3, <3>4 DEF Wanted
  <2>5. ASSUME NEW t \in tasks, t.msg = m, t.kind # "scan",
               \/ ArchivePutsMetadata(t) \/ GarbageCollectArchivedSource(t)
               \/ ClearArchivedSource(t) \/ TaskFails(t)
        PROVE  m \in msgs'
    <3>1. t.kind = "requeue"
      BY <1>4, <2>5, AtHand, TaskKinds DEF Requests
    <3> QED BY <2>5, <3>1 DEF ArchivePutsMetadata, GarbageCollectArchivedSource,
                              ClearArchivedSource, TaskFails
  <2> QED BY <1>0, <1>4, <2>1, <2>2, <2>3, <2>4, <2>5, Removed DEF Requests
<1> QED BY <1>1, <1>3, <1>4 DEF Wanted

LEMMA RestoreNext ==
    ASSUME Inv, Next, RestoreRemembered, ~lost' => ~lost
    PROVE  RestoreRemembered'
<1> SUFFICES ASSUME Alive', ~lost', md'.req, ~md'.done
             PROVE  Wanted(md.arch)'
  BY DEF RestoreRemembered
<1>0. Step /\ ~stale /\ ~stale' /\ md' # NoObject /\ versioned' = versioned /\ StateOK
  BY AtHand DEF Next, Alive
<1>1. CASE md # NoObject /\ md.req /\ ~md.done /\ md'.arch = md.arch
  <2>1. Alive /\ Wanted(md.arch)
    BY <1>0, <1>1 DEF Alive, RestoreRemembered
  <2>2. PICK a : a = md.arch /\ Wanted(a)'
    BY <1>1, <2>1, WantedStays
  <2>3. a = md'.arch
    BY <1>1, <2>2
  <2> QED BY <2>2, <2>3 DEF Wanted
<1>2. SUFFICES ASSUME md' # md, ~(md # NoObject /\ md.req /\ ~md.done /\ md'.arch = md.arch)
               PROVE  Wanted(md.arch)'
  BY <1>0, <1>1
<1>3. md # NoObject => md \in Metadata
  BY AtHand DEF Metas
<1>4. ASSUME NEW c \in Contents, UserPut(c) PROVE FALSE
  BY <1>3, <1>4 DEF UserPut, Metadata
<1>5. CASE UserDelete
  BY <1>0, <1>5 DEF UserDelete
<1>6. CASE UserRestore
  <2>1. /\ md \in Metas
        /\ \/ md' = [md EXCEPT !.req = TRUE] /\ ~md.done
           \/ md' = [md EXCEPT !.past = FALSE] /\ md.done
    BY <1>6, AtHand DEF UserRestore
  <2>2. PICK o : o = md'
    OBVIOUS
  <2>3. o \in Metas /\ o.req /\ ~o.done /\ log' = LoggedPut("restore", o)
    BY <1>6, <2>1, <2>2 DEF UserRestore, Metas, Metadata
  <2>4. \E e \in LogSet' : Asks(e)' /\ e.value.arch = o.arch
    BY <1>0, <2>3, PutAsks
  <2> QED BY <2>2, <2>4 DEF Wanted
<1>7. CASE RestoreExpires
  BY <1>3, <1>7 DEF RestoreExpires, Metadata
<1>8. ASSUME NEW m \in msgs, ColdRestores(m) PROVE FALSE
  BY <1>2, <1>3, <1>8 DEF ColdRestores, Metadata
<1>9. ASSUME NEW t \in tasks, SetTransitionInProgress(t) PROVE FALSE
  <2>1. md # NoObject
    BY <1>2, <1>9 DEF SetTransitionInProgress
  <2>2. md = t.seen
    BY <1>0, <1>9, <2>1, ReadIsCurrent
  <2>3. md' = [md EXCEPT !.tip = TRUE]
    BY <1>9, <2>1, <2>2 DEF SetTransitionInProgress, PutMetadata
  <2> QED BY <1>2, <1>3, <2>1, <2>3 DEF Metadata
<1>10. ASSUME NEW t \in tasks, ArchivePutsMetadata(t) PROVE FALSE
  <2>1. t \in StatusTasks /\ t.seen \in Metas
    <3>1. t \in StatusTasks /\ t.pc = "put"
      BY <1>10, AtHand, TaskKinds DEF ArchivePutsMetadata
    <3> QED BY <3>1 DEF StatusTasks
  <2>2. ~SetArchive(t).req
    BY <2>1, SetArchiveType, AtHand
  <2> QED BY <1>2, <1>10, <2>2 DEF ArchivePutsMetadata, PutMetadata
<1>11. ASSUME NEW t \in tasks, ClearArchivedSource(t) PROVE FALSE
  <2>1. md # NoObject
    BY <1>2, <1>11 DEF ClearArchivedSource
  <2>2. md = t.seen
    BY <1>0, <1>11, <2>1, ReadIsCurrent
  <2>3. md' = [md EXCEPT !.loc = NoId, !.store = "cold", !.class = "cold", !.tip = FALSE]
    BY <1>11, <2>1, <2>2 DEF ClearArchivedSource, PutMetadata
  <2> QED BY <1>2, <1>3, <2>1, <2>3 DEF Metadata
<1>12. ASSUME NEW t \in tasks, ResetArchive(t) PROVE FALSE
  <2>1. t.seen \in Metadata
    <3>1. t \in ExpirationTasks
      BY <1>12, AtHand, TaskKinds DEF ResetArchive
    <3> QED BY <3>1 DEF ExpirationTasks, Metas
  <2> QED BY <1>2, <1>12, <2>1 DEF ResetArchive, PutMetadata, Metadata
<1>13. ASSUME NEW t \in tasks, RequeuePutsMetadata(t) PROVE FALSE
  <2>1. md # NoObject
    BY <1>2, <1>13 DEF RequeuePutsMetadata
  <2>2. md = t.seen
    BY <1>0, <1>13, <2>1, ReadIsCurrent
  <2>3. md' = [md EXCEPT !.tip = FALSE] \/ md' = md
    BY <1>13, <2>1, <2>2 DEF RequeuePutsMetadata, PutMetadata
  <2> QED BY <1>2, <1>3, <2>1, <2>3 DEF Metadata
<1> QED BY <1>0, <1>2, <1>4, <1>5, <1>6, <1>7, <1>8, <1>9, <1>10, <1>11, <1>12, <1>13, OtherSteps

(* An entry once dropped stays dropped *)
LEMMA LostStays == Inv /\ Next => (lost => lost')
<1> SUFFICES ASSUME Inv, Step PROVE lost => lost'
  BY DEF Next
<1>1. (\E c \in Contents : UserPut(c)) \/ UserDelete \/ UserRestore \/ UserSetsLifecycle
      \/ RestoreExpires \/ ColdExpires \/ Filter \/ Restart \/ ApplyTransitionRule
      => (lost => lost')
  BY DEF UserPut, UserDelete, UserRestore, UserSetsLifecycle, RestoreExpires, ColdExpires, Filter,
         Restart, ApplyTransitionRule, history
<1>2. \A m \in msgs :
        \/ ColdArchives(m) \/ ColdRestores(m) \/ ColdDeletes(m)
        \/ ArchiveGetsMetadata(m) \/ SourceGetsMetadata(m) \/ ExecuteDeleteData(m)
        \/ ExpirationGetsMetadata(m) \/ RequeueGetsMetadata(m)
        => (lost => lost')
  BY DEF ColdArchives, ColdRestores, ColdDeletes, ArchiveGetsMetadata, SourceGetsMetadata,
         ExecuteDeleteData, ExpirationGetsMetadata, RequeueGetsMetadata, history
<1>3. \A t \in tasks :
        \/ RefreshObjectMD(t) \/ SetTransitionInProgress(t)
        \/ ArchivePutsMetadata(t) \/ GarbageCollectArchivedSource(t)
        \/ DeleteArchivedSourceData(t) \/ ClearArchivedSource(t)
        \/ ResetArchive(t) \/ GarbageCollectLocation(t)
        \/ RequeuePutsMetadata(t) \/ TaskFails(t)
        => (lost => lost')
  BY DEF RefreshObjectMD, SetTransitionInProgress, ArchivePutsMetadata,
         GarbageCollectArchivedSource, DeleteArchivedSourceData, ClearArchivedSource,
         ResetArchive, GarbageCollectLocation, RequeuePutsMetadata, TaskFails, history
<1> QED BY <1>1, <1>2, <1>3 DEF Step

(* A collection of source data that is owed has its entry, and a restore that *)
(* was asked for has one in the log or in a topic, unless an error dropped it *)
(* (lost), or a task wrote back changed metadata or applied an entry to an    *)
(* object written again or restored since (stale)                             *)
THEOREM BegunIsRemembered == Spec => []NothingForgotten
<1> DEFINE J == SourceRemembered /\ RestoreRemembered
<1>1. Init => J
  BY DEF Init, SourceRemembered, RestoreRemembered, Alive, Archived
<1>2. Inv /\ J /\ [Next]_vars => J'
  <2>1. Inv /\ J /\ Next => J'
    BY SourceNext, RestoreNext, LostStays
  <2>2. J /\ UNCHANGED vars => J'
    BY DEF vars, SourceRemembered, RestoreRemembered, Alive, Archived, Wanted, LogSet, Asks
  <2> QED BY <2>1, <2>2
<1>3. Inv /\ J => NothingForgotten
  <2> SUFFICES ASSUME Inv, J, md # NoObject, ~stale, ~lost
               PROVE  /\ md.arch # NoId /\ md.store = "warm" /\ ~md.done =>
                           \E m \in msgs : m.type \in {"status", "archivedSource"}
                      /\ md.req /\ ~md.done =>
                           \/ \E i \in DOMAIN log : log[i].type = "put" /\ ~log[i].value.done
                           \/ \E m \in msgs : m.type \in {"restore", "requeueRestore"}
    BY DEF NothingForgotten
  <2>1. Alive
    BY DEF Alive
  <2>2. md.arch # NoId /\ md.store = "warm" /\ ~md.done =>
          \E m \in msgs : m.type \in {"status", "archivedSource"}
    BY <2>1 DEF SourceRemembered, Archived, Sources
  <2>3. ASSUME md.req, ~md.done
        PROVE  \/ \E i \in DOMAIN log : log[i].type = "put" /\ ~log[i].value.done
               \/ \E m \in msgs : m.type \in {"restore", "requeueRestore"}
    <3>1. Wanted(md.arch)
      BY <2>1, <2>3 DEF RestoreRemembered
    <3>2. DOMAIN log = 1 .. Len(log)
      BY AtHand DEF StateOK
    <3>3. \A e \in LogSet : \E i \in DOMAIN log : e = log[i]
      BY <3>2 DEF LogSet, Elems
    <3> QED BY <3>1, <3>3 DEF Wanted, Asks, Requests
  <2> QED BY <2>2, <2>3
<1> QED BY <1>1, <1>2, <1>3, Invariance, PTL DEF Spec

-----------------------------------------------------------------------------
(* Nothing is left over *)

(* No fault so far, and no put that overwrote a change *)
Clean == used.faults = 0 /\ ~stale

(* A location that is being, or will be, deleted *)
Takes(t) == t.kind = "archivedSource" \/ (t.kind = "gc" /\ t.pc = "gc")
Goes(loc) ==
    \/ \E m \in msgs : m.type = "deleteData" /\ m.loc = loc
    \/ \E t \in tasks : Takes(t) /\ t.seen.loc = loc

(* An archive that the cold backend is, or will be, told to delete *)
Deletes(e) == e.type = "delete" /\ e.value.class # "warm" /\ ~(versioned /\ e.master)
Condemned(id) ==
    \/ \E m \in msgs : m.type = "coldGC" /\ m.arch = id
    \/ \E e \in LogSet : Deletes(e) /\ e.value.arch = id

(* An archive whose restore is, or will be, asked of the cold backend *)
Asked(id) ==
    \/ \E m \in msgs : m.type = "restore" /\ m.arch = id
    \/ \E e \in LogSet : Asks(e) /\ e.value.arch = id

(* The archive of this status entry is in the metadata *)
Recorded(m) == \E t \in tasks : t.kind = "status" /\ t.pc = "gc" /\ t.msg = m

DataOwned ==
    /\ \A d \in data : (md # NoObject /\ d.loc = md.loc) \/ Goes(d.loc)
    /\ \A t \in tasks : t.kind = "archivedSource" /\ t.pc = "put" =>
         \A d \in data : d.loc # t.seen.loc

ColdOwned ==
    \A c \in cold :
        \/ c.id \in early \/ (md # NoObject /\ c.id = md.arch) \/ Condemned(c.id)
        \/ \E m \in msgs : m.type = "status" /\ ~Recorded(m) /\ m.arch = c.id

(* A transition of the object as it is now *)
Transition(m) ==
    m.type \in {"archive", "requeueTransition", "status"} /\ m.at = md.at /\ ~Recorded(m)
Transitioning == md.tip \/ \E t \in tasks : t.kind = "scan"
InCold == md.store = "cold" \/ md.done
ReadInTime(t) == t.kind = "requeue" /\ t.msg.type = "requeueTransition" => t.seen.at = t.msg.at

(* The object is in one transition at most, and then not archived before *)
OneTransition ==
    /\ \A m \in msgs : Transition(m) =>
         ~Archived /\ Transitioning /\ (m.type = "status" => ~Asked(m.arch))
    /\ \A m, n \in msgs : Transition(m) /\ Transition(n) => m = n
    /\ Archived => Transitioning \/ InCold
    /\ \A t \in tasks : ReadInTime(t)

(* What a restore replaces has been collected *)
RestoresFromCold ==
    /\ Archived /\ Asked(md.arch) => InCold
    /\ md.req => InCold
    /\ md.store = "cold" /\ ~md.done => \A d \in data : d.loc = md.loc => Goes(d.loc)

Owned == DataOwned /\ ColdOwned /\ (md # NoObject => OneTransition /\ RestoresFromCold)

-----------------------------------------------------------------------------
(* What steps that are not about these parts leave as it is *)

LEMMA GoingStays ==
    ASSUME \A m \in msgs : m.type = "deleteData" /\ m \notin msgs' =>
               \A d \in data' : d.loc # m.loc,
           \A t \in tasks : Takes(t) /\ t \notin tasks' =>
               \A d \in data' : d.loc # t.seen.loc \/ Goes(d.loc)'
    PROVE  \A d \in data' : Goes(d.loc) => Goes(d.loc)'
<1> SUFFICES ASSUME NEW d \in data', Goes(d.loc) PROVE Goes(d.loc)'
  OBVIOUS
<1>1. CASE \E m \in msgs : m.type = "deleteData" /\ m.loc = d.loc
  BY <1>1 DEF Goes
<1>2. ASSUME NEW t \in tasks, Takes(t), t.seen.loc = d.loc PROVE Goes(d.loc)'
  <2>1. CASE t \in tasks'
    <3>1. Takes(t)'
      BY <1>2 DEF Takes
    <3> QED BY <1>2, <2>1, <3>1 DEF Goes
  <2> QED BY <1>2, <2>1
<1> QED BY <1>1, <1>2 DEF Goes

LEMMA DataStaysOwned ==
    ASSUME DataOwned,
           \A d \in data' :
               \/ d \in data
               \/ /\ md' # NoObject /\ d.loc = md'.loc
                  /\ \A t \in tasks : t.kind = "archivedSource" => t.seen.loc # d.loc,
           \A d \in data' : md # NoObject /\ d.loc = md.loc =>
               (md' # NoObject /\ d.loc = md'.loc) \/ Goes(d.loc)',
           \A d \in data' : Goes(d.loc) => Goes(d.loc)',
           \A t \in tasks' : t \notin tasks /\ t.kind = "archivedSource" /\ t.pc = "put" =>
               \A d \in data' : d.loc # t.seen.loc
    PROVE  DataOwned'
<1>1. ASSUME NEW d \in data' PROVE (md' # NoObject /\ d.loc = md'.loc) \/ Goes(d.loc)'
  <2>1. CASE d \in data
    BY <2>1 DEF DataOwned
  <2> QED BY <2>1
<1>2. ASSUME NEW t \in tasks', t.kind = "archivedSource", t.pc = "put", NEW d \in data'
      PROVE  d.loc # t.seen.loc
  BY <1>2 DEF DataOwned
<1> QED BY <1>1, <1>2 DEF DataOwned

LEMMA ColdStaysOwned ==
    ASSUME ColdOwned, UNCHANGED versioned, early \subseteq early',
           \A c \in cold' :
               \/ c \in cold
               \/ \E m \in msgs' : m.type = "status" /\ ~Recorded(m)' /\ m.arch = c.id,
           \A c \in cold' : md # NoObject /\ c.id = md.arch =>
               c.id \in early' \/ (md' # NoObject /\ c.id = md'.arch) \/ Condemned(c.id)',
           \A m \in msgs : m.type = "coldGC" /\ m \notin msgs' => \A c \in cold' : c.id # m.arch,
           \A e \in LogSet : Deletes(e) /\ e \notin LogSet' => Condemned(e.value.arch)',
           \A m \in msgs : m.type = "status" /\ ~Recorded(m) =>
               \/ m \in msgs' /\ ~Recorded(m)'
               \/ Condemned(m.arch)' \/ (md' # NoObject /\ m.arch = md'.arch)
    PROVE  ColdOwned'
<1> SUFFICES ASSUME NEW c \in cold', c \in cold
             PROVE  \/ c.id \in early' \/ (md' # NoObject /\ c.id = md'.arch) \/ Condemned(c.id)'
                    \/ \E m \in msgs' : m.type = "status" /\ ~Recorded(m)' /\ m.arch = c.id
  BY DEF ColdOwned
<1>1. ASSUME NEW m \in msgs, m.type = "coldGC", m.arch = c.id PROVE Condemned(c.id)'
  BY <1>1 DEF Condemned
<1>2. ASSUME NEW e \in LogSet, Deletes(e), e.value.arch = c.id PROVE Condemned(c.id)'
  <2>1. CASE e \in LogSet'
    <3>1. Deletes(e)'
      BY <1>2 DEF Deletes
    <3> QED BY <1>2, <2>1, <3>1 DEF Condemned
  <2> QED BY <1>2, <2>1
<1>3. Condemned(c.id) => Condemned(c.id)'
  BY <1>1, <1>2 DEF Condemned
<1>4. \/ c.id \in early \/ (md # NoObject /\ c.id = md.arch) \/ Condemned(c.id)
      \/ \E m \in msgs : m.type = "status" /\ ~Recorded(m) /\ m.arch = c.id
  BY DEF ColdOwned
<1> QED BY <1>3, <1>4

(* No restore is asked for anew *)
LEMMA AskedBefore ==
    ASSUME UNCHANGED versioned,
           \A m \in msgs' : m.type = "restore" => m \in msgs \/ Asked(m.arch),
           \A e \in LogSet' : e \in LogSet \/ ~Asks(e)
    PROVE  \A id : Asked(id)' => Asked(id)
<1> SUFFICES ASSUME NEW id, Asked(id)' PROVE Asked(id)
  OBVIOUS
<1>1. ASSUME NEW m \in msgs', m.type = "restore", m.arch = id PROVE Asked(id)
  BY <1>1 DEF Asked
<1>2. ASSUME NEW e \in LogSet', Asks(e)', e.value.arch = id PROVE Asked(id)
  <2>1. Asks(e)
    BY <1>2 DEF Asks
  <2> QED BY <1>2, <2>1 DEF Asked
<1> QED BY <1>1, <1>2 DEF Asked

LEMMA TransitionStays ==
    ASSUME OneTransition, md'.at = md.at, Archived' => Archived,
           Transitioning => Transitioning', InCold => InCold',
           \A m \in msgs' : m.type \in {"archive", "requeueTransition", "status"} =>
               m \in msgs /\ (Recorded(m) => Recorded(m)'),
           \A id : Asked(id)' => Asked(id) \/ Archived,
           \A t \in tasks' : t \in tasks \/ ReadInTime(t)
    PROVE  OneTransition'
<1>1. ASSUME NEW m \in msgs', Transition(m)' PROVE m \in msgs /\ Transition(m)
  BY <1>1 DEF Transition
<1>2. \A m \in msgs' : Transition(m)' =>
        ~Archived' /\ Transitioning' /\ (m.type = "status" => ~Asked(m.arch)')
  BY <1>1 DEF OneTransition
<1>3. \A m, n \in msgs' : Transition(m)' /\ Transition(n)' => m = n
  BY <1>1 DEF OneTransition
<1>4. \A t \in tasks' : ReadInTime(t)'
  BY DEF OneTransition, ReadInTime
<1>5. Archived' => Transitioning' \/ InCold'
  BY DEF OneTransition
<1> QED BY <1>2, <1>3, <1>4, <1>5 DEF OneTransition

LEMMA RestoresStay ==
    ASSUME RestoresFromCold, md'.arch = md.arch, md'.loc = md.loc,
           InCold => InCold', md'.req => md.req \/ InCold',
           md'.store = "cold" /\ ~md'.done => md.store = "cold" /\ ~md.done,
           \A id : Asked(id)' => Asked(id) \/ InCold',
           \A d \in data' : d \in data /\ (Goes(d.loc) => Goes(d.loc)')
    PROVE  RestoresFromCold'
<1>1. Archived' /\ Asked(md.arch)' => InCold'
  <2>1. Asked(md.arch)' => Asked(md.arch) \/ InCold'
    <3>1. PICK a : a = md.arch
      OBVIOUS
    <3>2. Asked(md.arch)' <=> Asked(a)'
      BY <3>1 DEF Asked
    <3> QED BY <3>1, <3>2
  <2> QED BY <2>1 DEF RestoresFromCold, Archived
<1>2. md'.req => InCold'
  BY DEF RestoresFromCold
<1>3. md'.store = "cold" /\ ~md'.done => \A d \in data' : d.loc = md'.loc => Goes(d.loc)'
  BY DEF RestoresFromCold
<1> QED BY <1>1, <1>2, <1>3 DEF RestoresFromCold

(* The object stays as it is *)
LEMMA StaysOwned ==
    ASSUME Owned, UNCHANGED <<versioned, md, early>>, data' \subseteq data, cold' \subseteq cold,
           \A e \in LogSet' : e \in LogSet \/ ~Asks(e),
           \A e \in LogSet : Deletes(e) /\ e \notin LogSet' => Condemned(e.value.arch)',
           \A m \in msgs' :
               /\ m.type \in {"archive", "requeueTransition", "status"} =>
                    m \in msgs /\ (Recorded(m) => Recorded(m)')
               /\ m.type = "restore" => m \in msgs \/ Asked(m.arch),
           \A m \in msgs :
               /\ m.type = "deleteData" /\ m \notin msgs' => \A d \in data' : d.loc # m.loc
               /\ m.type = "coldGC" /\ m \notin msgs' => \A c \in cold' : c.id # m.arch
               /\ m.type = "status" /\ ~Recorded(m) =>
                    (m \in msgs' /\ ~Recorded(m)') \/ Condemned(m.arch)',
           \A t \in tasks : t \notin tasks' =>
               /\ Takes(t) => \A d \in data' : d.loc # t.seen.loc \/ Goes(d.loc)'
               /\ t.kind = "scan" => md = NoObject \/ \E u \in tasks' : u.kind = "scan",
           \A t \in tasks' : t \notin tasks =>
               /\ t.kind = "archivedSource" /\ t.pc = "put" => \A d \in data' : d.loc # t.seen.loc
               /\ ReadInTime(t)
    PROVE  Owned'
<1>1. \A d \in data' : Goes(d.loc) => Goes(d.loc)'
  BY GoingStays
<1>2. \A id : Asked(id)' => Asked(id)
  BY AskedBefore
<1>3. DataOwned'
  BY <1>1, DataStaysOwned DEF Owned
<1>4. ColdOwned'
  BY ColdStaysOwned DEF Owned
<1>5. ASSUME md # NoObject PROVE OneTransition' /\ RestoresFromCold'
  <2>1. OneTransition /\ RestoresFromCold
    BY <1>5 DEF Owned
  <2>2. Transitioning => Transitioning'
    BY <1>5 DEF Transitioning
  <2>3. /\ InCold' <=> InCold
        /\ Archived' <=> Archived
    BY DEF InCold, Archived
  <2>4. OneTransition'
    BY <1>2, <2>1, <2>2, <2>3, TransitionStays
  <2>5. RestoresFromCold'
    BY <1>1, <1>2, <2>1, <2>3, RestoresStay
  <2> QED BY <2>4, <2>5
<1> QED BY <1>3, <1>4, <1>5 DEF Owned

-----------------------------------------------------------------------------
(* A behaviour without a fault *)

LEMMA StepsUse == Step => UNCHANGED used \/ \E e \in Events : Use(e)
<1> SUFFICES ASSUME Step PROVE UNCHANGED used \/ \E e \in Events : Use(e)
  OBVIOUS
<1>0. Events = {"writes", "restores", "scans", "faults"}
  BY DEF Events
<1>1. (\E c \in Contents : UserPut(c)) \/ UserDelete \/ UserRestore \/ UserSetsLifecycle
      \/ RestoreExpires \/ ColdExpires \/ Filter \/ Restart \/ ApplyTransitionRule
      => UNCHANGED used \/ \E e \in Events : Use(e)
  BY <1>0 DEF UserPut, UserDelete, UserRestore, UserSetsLifecycle, RestoreExpires, ColdExpires,
              Filter, Fault, Restart, ApplyTransitionRule
<1>2. \A m \in msgs :
        \/ ColdArchives(m) \/ ColdRestores(m) \/ ColdDeletes(m)
        \/ ArchiveGetsMetadata(m) \/ SourceGetsMetadata(m) \/ ExecuteDeleteData(m)
        \/ ExpirationGetsMetadata(m) \/ RequeueGetsMetadata(m)
        => UNCHANGED used \/ \E e \in Events : Use(e)
  BY <1>0 DEF ColdArchives, ColdRestores, ColdDeletes, ArchiveGetsMetadata, SourceGetsMetadata,
              ExecuteDeleteData, ExpirationGetsMetadata, RequeueGetsMetadata, Done, Fault,
              NotCommitted
<1>3. \A t \in tasks :
        \/ RefreshObjectMD(t) \/ SetTransitionInProgress(t)
        \/ ArchivePutsMetadata(t) \/ GarbageCollectArchivedSource(t)
        \/ DeleteArchivedSourceData(t) \/ ClearArchivedSource(t)
        \/ ResetArchive(t) \/ GarbageCollectLocation(t)
        \/ RequeuePutsMetadata(t) \/ TaskFails(t)
        => UNCHANGED used \/ \E e \in Events : Use(e)
  BY <1>0 DEF RefreshObjectMD, SetTransitionInProgress, ArchivePutsMetadata,
              GarbageCollectArchivedSource, DeleteArchivedSourceData, ClearArchivedSource,
              ResetArchive, GarbageCollectLocation, RequeuePutsMetadata, TaskFails, Done, Fault,
              NotCommitted
<1> QED BY <1>1, <1>2, <1>3 DEF Step

(* A step of such a behaviour *)
Faultless == Inv /\ Inv' /\ Step /\ ~stale /\ UNCHANGED versioned /\ Clean'

LEMMA FaultlessStep ==
    ASSUME Faultless
    PROVE  ~Fault /\ Clean /\ ~stale'
<1>1. used \in [Events -> Nat] /\ "faults" \in Events
  BY AtHand DEF Faultless, UsedOK, Events
<1>2. ~Fault
  BY <1>1 DEF Fault, Use, Faultless, Clean
<1>3. ASSUME NEW e \in Events, Use(e) PROVE used.faults = 0
  <2>1. e # "faults"
    BY <1>2, <1>3 DEF Fault
  <2> QED BY <1>1, <1>3, <2>1 DEF Use, Faultless, Clean
<1> QED BY <1>2, <1>3, StepsUse DEF Faultless, Clean

(* What the steps on an entry, and those of a task, find *)
LEMMA InHand ==
    ASSUME Faultless
    PROVE  /\ ~Fault /\ Inv /\ ~stale /\ ~stale' /\ UNCHANGED versioned /\ Clean
           /\ \A t \in tasks : t \in AllTasks /\ (t.kind # "scan" => t.msg \in msgs)
           /\ \A t, u \in tasks : t.kind # "scan" /\ t.msg = u.msg => t = u
           /\ msgs \subseteq AllMsgs
BY FaultlessStep, AtHand DEF Faultless, TasksOK

-----------------------------------------------------------------------------
(* The steps of the cold backend and of the populator *)

LEMMA ColdExpiresOwned == ASSUME Faultless, Owned, ColdExpires PROVE Owned'
<1>1. UNCHANGED <<md, data, cold, clock, log, held, tasks, bucket, used, history>>
  BY DEF ColdExpires
<1>2. \A m \in msgs' : m \in msgs \/ m.type = "gc"
  BY DEF ColdExpires
<1>3. msgs \subseteq msgs'
  BY DEF ColdExpires
<1>4. \A m : Recorded(m)' <=> Recorded(m)
  BY <1>1 DEF Recorded
<1>5. LogSet' = LogSet
  BY <1>1 DEF LogSet
<1> QED BY <1>1, <1>2, <1>3, <1>4, <1>5, InHand, StaysOwned DEF history

LEMMA RestartOwned == ASSUME Faultless, Owned, Restart PROVE Owned'
<1>1. UNCHANGED <<md, data, cold, clock, log, msgs, tasks, bucket, used, history>>
  BY DEF Restart
<1>2. \A m : Recorded(m)' <=> Recorded(m)
  BY <1>1 DEF Recorded
<1>3. LogSet' = LogSet
  BY <1>1 DEF LogSet
<1> QED BY <1>1, <1>2, <1>3, InHand, StaysOwned DEF history

LEMMA ColdDeletesOwned == ASSUME Faultless, Owned, NEW m \in msgs, ColdDeletes(m) PROVE Owned'
<1>1. UNCHANGED <<md, data, clock, log, held, tasks, bucket, used, history>>
  BY DEF ColdDeletes
<1>2. m.type \in {"coldGC", "adjust"} /\ msgs' = msgs \ {m}
  BY DEF ColdDeletes
<1>3. cold' \subseteq cold /\ (m.type = "coldGC" => \A c \in cold' : c.id # m.arch)
  BY DEF ColdDeletes
<1>4. \A x : Recorded(x)' <=> Recorded(x)
  BY <1>1 DEF Recorded
<1>5. LogSet' = LogSet
  BY <1>1 DEF LogSet
<1> QED BY <1>1, <1>2, <1>3, <1>4, <1>5, InHand, StaysOwned DEF history

LEMMA FilterOwned == ASSUME Faultless, Owned, Filter PROVE Owned'
<1>0. ~Fault /\ log # << >> /\ log' = Tail(log) /\ StateOK /\ versioned' = versioned
  BY InHand, AtHand DEF Filter
<1>1. UNCHANGED <<md, data, cold, clock, held, tasks, config, stale, early, thrown>>
  BY DEF Filter
<1>2. PICK e : e = Head(log)
  OBVIOUS
<1>3. /\ e \in LogSet /\ LogSet' \subseteq LogSet
      /\ LogSet \subseteq LogSet' \cup {e}
  BY <1>0, <1>2, EntryIsRead
<1>4. PICK sent : /\ msgs' = msgs \cup sent
                  /\ sent = CASE e.type = "put" -> HandleRestoreOp(e)
                              [] e.type = "delete" -> HandleDeleteOp(e)
                              [] OTHER -> {}
  BY <1>0, <1>2 DEF Filter
<1>5. \A m : Recorded(m)' <=> Recorded(m)
  BY <1>1 DEF Recorded
<1>6. ASSUME NEW m \in sent
      PROVE  /\ m.type \notin {"archive", "requeueTransition", "status"}
             /\ m.type = "restore" => Asked(m.arch)
  <2>1. CASE m.type = "adjust"
    BY <2>1
  <2>2. CASE m = RestoreRequest(e) /\ Asks(e)
    BY <1>3, <2>2 DEF RestoreRequest, Asked
  <2>3. CASE m.type = "coldGC"
    BY <2>3
  <2> QED BY <1>4, <1>6, <2>1, <2>2, <2>3 DEF HandleRestoreOp, HandleDeleteOp, Asks
<1>7. ASSUME NEW x \in LogSet, Deletes(x), x \notin LogSet' PROVE Condemned(x.value.arch)'
  <2>1. x = e /\ e \in Logs
    BY <1>0, <1>2, <1>3, <1>7, EntryIsRead
  <2>2. e.type = "delete" /\ e.value.arch # NoId
    BY <1>7, <2>1 DEF Deletes, Logs
  <2>3. sent = {[type |-> "coldGC", etag |-> e.value.etag, arch |-> e.value.arch]}
    BY <1>4, <1>7, <2>1, <2>2 DEF HandleDeleteOp, Deletes
  <2>4. [type |-> "coldGC", etag |-> e.value.etag, arch |-> e.value.arch] \in msgs'
    BY <1>4, <2>3
  <2> QED BY <2>1, <2>4 DEF Condemned
<1> QED BY <1>0, <1>1, <1>3, <1>4, <1>5, <1>6, <1>7, StaysOwned

LEMMA UserSetsLifecycleOwned == ASSUME Faultless, Owned, UserSetsLifecycle PROVE Owned'
<1>1. /\ UNCHANGED <<md, data, cold, clock, msgs, held, tasks, zkNode, history>>
      /\ log' = Append(log, [type |-> "bucket", config |-> ~config])
  BY DEF UserSetsLifecycle
<1>2. log \in Seq(Logs) /\ Len(log) \in Nat /\ Len(log') = Len(log) + 1
  BY <1>1, AtHand DEF StateOK, Faultless
<1>3. \A i \in 1 .. Len(log) : log'[i] = log[i] /\ i \in 1 .. Len(log')
  BY <1>1, <1>2
<1>4. \A i \in 1 .. Len(log') : i \in 1 .. Len(log) \/ log'[i] = [type |-> "bucket", config |-> ~config]
  BY <1>1, <1>2
<1>5. LogSet \subseteq LogSet' /\ \A e \in LogSet' : e \in LogSet \/ e.type = "bucket"
  BY <1>3, <1>4 DEF LogSet, Elems
<1>6. \A m : Recorded(m)' <=> Recorded(m)
  BY <1>1 DEF Recorded
<1> QED BY <1>1, <1>5, <1>6, InHand, StaysOwned DEF history, Asks

-----------------------------------------------------------------------------
(* The steps of tasks that leave the object alone *)

(* A task that begins, goes on or ends, and what it sends *)
LEMMA TaskStepOwned ==
    ASSUME Faultless, Owned, UNCHANGED <<md, log, early>>, data' \subseteq data, cold' = cold,
           \A m \in msgs' : m \notin msgs =>
               m.type \notin {"archive", "requeueTransition", "status", "restore"},
           \A m \in msgs : m \notin msgs' =>
               /\ m.type # "coldGC"
               /\ m.type = "deleteData" => \A d \in data' : d.loc # m.loc
               /\ m.type = "status" => Recorded(m) \/ Condemned(m.arch)',
           \A t \in tasks : t \notin tasks' =>
               /\ Takes(t) => \A d \in data' : d.loc # t.seen.loc \/ Goes(d.loc)'
               /\ t.kind = "scan" => md = NoObject \/ \E u \in tasks' : u.kind = "scan"
               /\ t.kind = "status" /\ t.pc = "gc" => t.msg \notin msgs',
           \A t \in tasks' : t \notin tasks =>
               /\ t.kind = "archivedSource" /\ t.pc = "put" => \A d \in data' : d.loc # t.seen.loc
               /\ t.kind = "status" => t.pc = "put"
               /\ ReadInTime(t)
    PROVE  Owned'
<1>1. versioned' = versioned /\ LogSet' = LogSet
  BY InHand DEF LogSet
<1>2. ASSUME NEW m \in msgs', Recorded(m) PROVE Recorded(m)'
  BY <1>2 DEF Recorded
<1>3. ASSUME NEW m, Recorded(m)' PROVE Recorded(m)
  BY <1>3 DEF Recorded
<1>5. \A m \in msgs : m.type = "status" /\ ~Recorded(m) =>
        (m \in msgs' /\ ~Recorded(m)') \/ Condemned(m.arch)'
  BY <1>3
<1>6. \A m \in msgs' : m.type \in {"archive", "requeueTransition", "status"} =>
        m \in msgs /\ (Recorded(m) => Recorded(m)')
  BY <1>2
<1> QED BY <1>1, <1>5, <1>6, StaysOwned

LEMMA RefreshObjectMDOwned ==
    ASSUME Faultless, Owned, NEW t \in tasks, RefreshObjectMD(t)
    PROVE  Owned'
<1>1. UNCHANGED <<md, data, cold, clock, log, msgs, held, bucket, used, history>> /\ t.kind = "scan"
  BY DEF RefreshObjectMD
<1>2. CASE md = NoObject
  <2>1. tasks' = tasks \ {t}
    BY <1>2 DEF RefreshObjectMD
  <2> QED BY <1>1, <1>2, <2>1, TaskStepOwned DEF Takes, history
<1>3. CASE md # NoObject
  <2>1. PICK u : u = [t EXCEPT !.pc = "put", !.seen = md]
    OBVIOUS
  <2>2. tasks' = (tasks \ {t}) \cup {u}
    BY <1>3, <2>1 DEF RefreshObjectMD, Go
  <2>3. u.kind = "scan"
    BY <1>1, <2>1, InHand, TaskKinds DEF Scans
  <2> QED BY <1>1, <2>2, <2>3, TaskStepOwned DEF Takes, ReadInTime, history
<1> QED BY <1>2, <1>3

(* A task without an object that is not committed *)
LEMMA NotCommittedOwned ==
    ASSUME Faultless, Owned, UNCHANGED <<md, log, early, data, cold>>, NEW t, NotCommitted(t),
           t \in tasks => /\ t.kind # "scan" /\ (t.kind = "status" => t.pc = "put")
                          /\ Takes(t) => \A d \in data : d.loc # t.seen.loc
    PROVE  Owned'
<1>1. tasks' = tasks \ {t} /\ msgs' = msgs
  BY DEF NotCommitted
<1> QED BY <1>1, TaskStepOwned

LEMMA ArchiveGetsMetadataOwned ==
    ASSUME Faultless, Owned, NEW m \in msgs, ArchiveGetsMetadata(m)
    PROVE  Owned'
<1>1. UNCHANGED <<md, data, cold, clock, log, bucket, lost, early, thrown>>
      /\ m.type = "status" /\ Idle(m)
  BY DEF ArchiveGetsMetadata
<1>2. CASE md = NoObject
  <2>1. PICK n : n = [type |-> "coldGC", etag |-> m.etag, arch |-> m.arch]
    OBVIOUS
  <2>2. m \in Statuses
    BY <1>1, InHand, EntryTypes
  <2>3. n \in AllMsgs /\ n.type = "coldGC" /\ n.arch = m.arch
    BY <2>1, <2>2 DEF AllMsgs, Collections, Statuses
  <2>4. Done(Task("status", "gc", m, NoObject), {n})
    BY <1>2, <2>1 DEF ArchiveGetsMetadata
  <2>5. /\ UNCHANGED tasks
        /\ msgs' = (msgs \ {m}) \cup {n} \/ msgs' = msgs \cup {n}
    <3>1. Shape /\ StateOK'
      BY DEF Faultless, Inv, Shape
    <3>2. {n} \subseteq AllMsgs /\ UNCHANGED clock
      BY <1>1, <2>3
    <3> QED BY <1>1, <2>4, <3>1, <3>2, DoneWithoutTask
  <2>6. Condemned(m.arch)'
    BY <2>3, <2>5 DEF Condemned
  <2> QED BY <1>1, <2>3, <2>5, <2>6, TaskStepOwned
<1>3. CASE md # NoObject
  <2>1. PICK u : u = Task("status", "put", m, md)
    OBVIOUS
  <2>2. tasks' = tasks \cup {u} /\ msgs' = msgs
    BY <1>3, <2>1 DEF ArchiveGetsMetadata
  <2>3. u.kind = "status" /\ u.pc = "put"
    BY <2>1 DEF Task
  <2> QED BY <1>1, <2>2, <2>3, TaskStepOwned DEF ReadInTime
<1> QED BY <1>2, <1>3

LEMMA GarbageCollectArchivedSourceOwned ==
    ASSUME Faultless, Owned, NEW t \in tasks, GarbageCollectArchivedSource(t)
    PROVE  Owned'
<1>1. UNCHANGED <<md, data, cold, clock, log, bucket, stale, early, thrown>>
      /\ t.kind = "status" /\ t.pc = "gc"
  BY DEF GarbageCollectArchivedSource
<1>2. PICK n : n = [t.msg EXCEPT !.type = "archivedSource"]
  OBVIOUS
<1>3. tasks' = tasks \ {t} /\ msgs' = (msgs \ {t.msg}) \cup {n}
  BY <1>2, InHand DEF GarbageCollectArchivedSource, Done
<1>4. t.msg \in Statuses /\ t.msg.type = "status"
  BY <1>1, InHand, TaskKinds, EntryTypes
<1>5. n.type = "archivedSource" /\ n # t.msg
  BY <1>2, <1>4 DEF Statuses
<1>6. Recorded(t.msg)
  BY <1>1 DEF Recorded
<1> QED BY <1>1, <1>3, <1>4, <1>5, <1>6, TaskStepOwned DEF Takes

LEMMA SourceGetsMetadataOwned ==
    ASSUME Faultless, Owned, NEW m \in msgs, SourceGetsMetadata(m)
    PROVE  Owned'
<1>1. UNCHANGED <<md, data, cold, clock, log, bucket, lost, early, thrown>>
      /\ m.type = "archivedSource" /\ Idle(m)
  BY DEF SourceGetsMetadata
<1>2. CASE md = NoObject
  <2>1. PICK t : t = Task("archivedSource", "get", m, md)
    OBVIOUS
  <2>2. NotCommitted(t)
    BY <1>2, <2>1 DEF SourceGetsMetadata
  <2>3. t \notin tasks
    BY <1>1, <2>1 DEF Idle, Task
  <2> QED BY <1>1, <2>2, <2>3, NotCommittedOwned
<1>3. CASE md # NoObject
  <2>1. PICK u : u = Task("archivedSource", "delete", m, md)
    OBVIOUS
  <2>2. tasks' = tasks \cup {u} /\ msgs' = msgs
    BY <1>3, <2>1 DEF SourceGetsMetadata
  <2>3. u.kind = "archivedSource" /\ u.pc = "delete"
    BY <2>1 DEF Task
  <2> QED BY <1>1, <2>2, <2>3, TaskStepOwned DEF ReadInTime
<1> QED BY <1>2, <1>3

LEMMA DeleteArchivedSourceDataOwned ==
    ASSUME Faultless, Owned, NEW t \in tasks, DeleteArchivedSourceData(t)
    PROVE  Owned'
<1>1. UNCHANGED <<md, cold, clock, log, msgs, held, bucket, used, history>>
      /\ t.kind = "archivedSource" /\ data' = Without(t.seen.loc)
  BY DEF DeleteArchivedSourceData
<1>2. PICK u : u = [t EXCEPT !.pc = "put", !.seen = t.seen]
  OBVIOUS
<1>3. tasks' = (tasks \ {t}) \cup {u}
  BY <1>2 DEF DeleteArchivedSourceData, Go
<1>4. t \in SourceTasks
  BY <1>1, InHand, TaskKinds
<1>5. u.kind = "archivedSource" /\ u.seen = t.seen
  BY <1>2, <1>4 DEF SourceTasks
<1>6. data' \subseteq data /\ \A d \in data' : d.loc # t.seen.loc
  BY <1>1 DEF Without
<1> QED BY <1>1, <1>3, <1>5, <1>6, TaskStepOwned DEF ReadInTime, history

LEMMA ExecuteDeleteDataOwned ==
    ASSUME Faultless, Owned, NEW m \in msgs, ExecuteDeleteData(m)
    PROVE  Owned'
<1>1. /\ UNCHANGED <<md, cold, clock, log, bucket, history>>
      /\ m.type = "deleteData" /\ data' = Without(m.loc)
      /\ Done(Task("deleteData", "delete", m, NoObject), {})
  BY DEF ExecuteDeleteData
<1>2. /\ UNCHANGED tasks
      /\ msgs' = (msgs \ {m}) \cup {} \/ msgs' = msgs \cup {}
  <2>1. Shape /\ StateOK'
    BY DEF Faultless, Inv, Shape
  <2>2. {} \subseteq AllMsgs /\ UNCHANGED clock
    BY <1>1
  <2> QED BY <1>1, <2>1, <2>2, DoneWithoutTask
<1>3. data' \subseteq data /\ \A d \in data' : d.loc # m.loc
  BY <1>1 DEF Without
<1> QED BY <1>1, <1>2, <1>3, TaskStepOwned DEF history

LEMMA ExpirationGetsMetadataOwned ==
    ASSUME Faultless, Owned, NEW m \in msgs, ExpirationGetsMetadata(m)
    PROVE  Owned'
<1>1. UNCHANGED <<md, data, cold, clock, log, bucket, stale, lost, early>>
      /\ m.type = "gc" /\ Idle(m)
  BY DEF ExpirationGetsMetadata
<1>2. PICK t : t = Task("gc", "put", m, md)
  OBVIOUS
<1>3. t.kind = "gc" /\ t.pc = "put"
  BY <1>2 DEF Task
<1>4. CASE Done(t, {})
  <2>1. Shape /\ StateOK'
    BY DEF Faultless, Inv, Shape
  <2>2. {} \subseteq AllMsgs /\ UNCHANGED clock
    BY <1>1
  <2>3. Done(Task("gc", "put", m, md), {})
    BY <1>2, <1>4
  <2>4. /\ UNCHANGED tasks
        /\ msgs' = (msgs \ {m}) \cup {} \/ msgs' = msgs \cup {}
    BY <1>1, <2>1, <2>2, <2>3, DoneWithoutTask
  <2> QED BY <1>1, <2>4, TaskStepOwned
<1>5. CASE UNCHANGED <<tasks, msgs>>
  BY <1>1, <1>5, TaskStepOwned
<1>6. CASE tasks' = tasks \cup {t} /\ UNCHANGED msgs
  BY <1>1, <1>3, <1>6, TaskStepOwned DEF ReadInTime
<1> QED BY <1>2, <1>4, <1>5, <1>6 DEF ExpirationGetsMetadata

LEMMA GarbageCollectLocationOwned ==
    ASSUME Faultless, Owned, NEW t \in tasks, GarbageCollectLocation(t)
    PROVE  Owned'
<1>1. UNCHANGED <<md, data, cold, clock, log, bucket, stale, early, thrown>>
      /\ t.kind = "gc" /\ t.pc = "gc"
  BY DEF GarbageCollectLocation
<1>2. PICK n : n = [type |-> "deleteData", loc |-> t.seen.loc]
  OBVIOUS
<1>3. tasks' = tasks \ {t} /\ msgs' = (msgs \ {t.msg}) \cup {n}
  BY <1>2, InHand DEF GarbageCollectLocation, Done
<1>4. t.msg.type = "gc"
  BY <1>1, InHand, TaskKinds
<1>5. n.type = "deleteData" /\ Goes(t.seen.loc)'
  BY <1>2, <1>3 DEF Goes
<1>6. \A d \in data' : d.loc # t.seen.loc \/ Goes(d.loc)'
  BY <1>5
<1> QED BY <1>1, <1>3, <1>4, <1>5, <1>6, TaskStepOwned

LEMMA RequeueGetsMetadataOwned ==
    ASSUME Faultless, Owned, NEW m \in msgs, RequeueGetsMetadata(m)
    PROVE  Owned'
<1>1. UNCHANGED <<md, data, cold, clock, log, bucket, lost, early, thrown>>
      /\ m.type \in {"requeueTransition", "requeueRestore"} /\ Idle(m)
  BY DEF RequeueGetsMetadata
<1>2. PICK t : t = Task("requeue", "put", m, md)
  OBVIOUS
<1>3. CASE Done(t, {})
  <2>1. Shape /\ StateOK'
    BY DEF Faultless, Inv, Shape
  <2>2. {} \subseteq AllMsgs /\ UNCHANGED clock
    BY <1>1
  <2>3. Done(Task("requeue", "put", m, md), {})
    BY <1>2, <1>3
  <2>4. /\ UNCHANGED tasks
        /\ msgs' = (msgs \ {m}) \cup {} \/ msgs' = msgs \cup {}
    BY <1>1, <2>1, <2>2, <2>3, DoneWithoutTask
  <2> QED BY <1>1, <2>4, TaskStepOwned
<1>4. CASE /\ m.type = "requeueTransition" => ResetApplies(m)
           /\ tasks' = tasks \cup {t} /\ UNCHANGED msgs /\ stale' = (stale \/ OtherWrite(m))
  <2>1. t.kind = "requeue" /\ t.msg = m /\ t.seen = md
    BY <1>2 DEF Task
  <2>2. ~OtherWrite(m)
    BY <1>4, InHand
  <2>3. ReadInTime(t)
    BY <1>4, <2>1, <2>2 DEF ReadInTime, OtherWrite, ResetApplies
  <2> QED BY <1>1, <1>4, <2>1, <2>3, TaskStepOwned
<1> QED BY <1>2, <1>3, <1>4 DEF RequeueGetsMetadata

-----------------------------------------------------------------------------
(* The transition begins, and the cold backend answers *)

LEMMA ApplyTransitionRuleOwned ==
    ASSUME Faultless, Owned, ApplyTransitionRule
    PROVE  Owned'
<1>1. UNCHANGED <<md, data, cold, clock, log, held, bucket, history>>
      /\ md # NoObject /\ md.store = "warm" /\ \A t \in tasks : t.kind # "scan"
  BY DEF ApplyTransitionRule
<1>2. CASE UNCHANGED <<msgs, tasks>>
  BY <1>1, <1>2, TaskStepOwned DEF history
<1>3. CASE TransitionAllowed(md)
  <2>1. PICK n : n = [type |-> "archive", etag |-> md.etag, at |-> md.at]
    OBVIOUS
  <2>2. PICK u : u = Task("scan", "refresh", [type |-> "scan"], NoObject)
    OBVIOUS
  <2>3. msgs' = msgs \cup {n} /\ tasks' = tasks \cup {u}
    BY <1>3, <2>1, <2>2 DEF ApplyTransitionRule
  <2>4. n.type = "archive" /\ u.kind = "scan"
    BY <2>1, <2>2 DEF Task
  <2>5. OneTransition /\ RestoresFromCold /\ DataOwned /\ ColdOwned
    BY <1>1 DEF Owned
  <2>6. ~Transitioning /\ ~InCold /\ ~Archived
    BY <1>1, <1>3, <2>5 DEF OneTransition, Transitioning, InCold, TransitionAllowed
  <2>7. \A m : Recorded(m)' <=> Recorded(m)
    BY <2>3, <2>4 DEF Recorded
  <2>8. LogSet' = LogSet /\ versioned' = versioned /\ (Archived' <=> Archived) /\ (InCold' <=> InCold)
    BY <1>1, InHand DEF LogSet, Archived, InCold
  <2>9. \A d \in data' : Goes(d.loc) => Goes(d.loc)'
    BY <1>1, <2>3, GoingStays
  <2>10. DataOwned'
    BY <1>1, <2>3, <2>4, <2>5, <2>9, DataStaysOwned
  <2>11. ColdOwned'
    BY <1>1, <2>3, <2>5, <2>7, <2>8, ColdStaysOwned DEF history
  <2>12. \A id : Asked(id)' => Asked(id)
    BY <2>3, <2>4, <2>8, AskedBefore
  <2>13. RestoresFromCold'
    BY <1>1, <2>5, <2>8, <2>9, <2>12, RestoresStay
  <2>14. OneTransition'
    <3>1. Transitioning'
      BY <2>3, <2>4 DEF Transitioning
    <3>2. \A m \in msgs' : Transition(m)' => m = n
      <4>1. \A m \in msgs : ~Transition(m)
        BY <2>5, <2>6 DEF OneTransition
      <4> QED BY <1>1, <2>3, <2>7, <4>1 DEF Transition
    <3>3. \A t \in tasks' : ReadInTime(t)'
      BY <2>3, <2>4, <2>5 DEF OneTransition, ReadInTime
    <3> QED BY <2>4, <2>6, <2>8, <3>1, <3>2, <3>3 DEF OneTransition
  <2> QED BY <2>10, <2>11, <2>13, <2>14 DEF Owned
<1> QED BY <1>2, <1>3 DEF ApplyTransitionRule

(* Identifiers in use are not new *)
LEMMA IdsInUse ==
    ASSUME Inv
    PROVE  /\ \A m \in msgs : m.type \in {"restore", "status"} => m.arch <= clock
           /\ \A e \in LogSet : e.type \in {"put", "delete"} => e.value.arch <= clock
           /\ \A t \in tasks : t.kind = "archivedSource" => t.seen.loc <= clock
           /\ \A d \in data : d.loc <= clock
           /\ md # NoObject => md.at <= clock
           /\ \A m \in msgs : m.type \in {"archive", "requeueTransition", "status"} => m.at <= clock
           /\ clock \in Nat
<1>1. \A m \in msgs : m \in AllMsgs
  BY AtHand
<1>2. \A m \in msgs :
        /\ m.type \in {"restore"} => m \in Restores
        /\ m.type = "status" => m \in Statuses
        /\ m.type \in {"archive", "requeueTransition"} => m \in Archives
  BY <1>1, EntryTypes
<1>3. \A e \in LogSet : e \in Logs
  BY AtHand DEF StateOK, LogSet, Elems
<1>4. \A e \in LogSet : e.type \in {"put", "delete"} => e.value \in Metas
  BY <1>3 DEF Logs
<1>5. \A t \in tasks : t.kind = "archivedSource" => t \in SourceTasks
  BY AtHand, TaskKinds
<1>6. \A t \in tasks : t.kind = "archivedSource" => t.seen \in Metas
  BY <1>5 DEF SourceTasks
<1>7. clock \in Nat /\ data \subseteq [loc : 1 .. clock, etag : Contents]
  BY AtHand DEF StateOK
<1> QED BY <1>2, <1>4, <1>6, <1>7, AtHand DEF Restores, Statuses, Archives, Metas

LEMMA ColdArchivesOwned ==
    ASSUME Faultless, Owned, NEW m \in msgs, ColdArchives(m)
    PROVE  Owned'
<1>1. UNCHANGED <<md, data, log, held, tasks, bucket, used, history>> /\ m.type = "archive"
  BY DEF ColdArchives
<1>2. PICK n : /\ n.type \in {"status", "requeueTransition"} /\ n.at = m.at
               /\ msgs' = (msgs \ {m}) \cup {n}
               /\ \/ cold' = cold
                  \/ /\ n.type = "status" /\ n.arch = clock + 1
                     /\ \A c \in cold' : c \in cold \/ c.id = n.arch
               /\ n.type = "status" => n.arch = clock + 1
  <2>1. CASE msgs' = (msgs \ {m}) \cup
                       {[type |-> "status", etag |-> m.etag, arch |-> clock + 1, at |-> m.at]}
             /\ cold' = cold \union {[id |-> clock + 1, etag |-> m.etag]}
    <3>1. PICK n : n = [type |-> "status", etag |-> m.etag, arch |-> clock + 1, at |-> m.at]
      OBVIOUS
    <3> QED BY <2>1, <3>1
  <2>2. CASE msgs' = (msgs \ {m}) \cup
                       {[type |-> "requeueTransition", etag |-> m.etag, at |-> m.at]}
             /\ cold' = cold
    <3>1. PICK n : n = [type |-> "requeueTransition", etag |-> m.etag, at |-> m.at]
      OBVIOUS
    <3> QED BY <2>2, <3>1
  <2> QED BY <2>1, <2>2 DEF ColdArchives
<1>3. \A x : Recorded(x)' <=> Recorded(x)
  BY <1>1 DEF Recorded
<1>4. ~Recorded(m)
  BY <1>1, InHand, TaskKinds DEF Recorded
<1>5. n.type = "status" => ~Recorded(n)
  <2>1. n.type = "status" => n \notin msgs
    BY <1>2, IdsInUse DEF Faultless
  <2> QED BY <2>1, InHand DEF Recorded
<1>6. LogSet' = LogSet /\ versioned' = versioned /\ (Archived' <=> Archived) /\ (InCold' <=> InCold)
  BY <1>1, InHand DEF LogSet, Archived, InCold
<1>7. \A d \in data' : Goes(d.loc) => Goes(d.loc)'
  BY <1>1, <1>2, GoingStays
<1>8. DataOwned'
  BY <1>1, <1>7, DataStaysOwned DEF Owned
<1>9. ColdOwned'
  <2>1. \A c \in cold' : c \in cold \/ \E x \in msgs' : x.type = "status" /\ ~Recorded(x)' /\ x.arch = c.id
    BY <1>2, <1>3, <1>5
  <2> QED BY <1>1, <1>2, <1>3, <1>6, <2>1, ColdStaysOwned DEF Owned, history
<1>10. \A id : Asked(id)' => Asked(id)
  BY <1>2, <1>6, AskedBefore
<1>11. ASSUME md # NoObject PROVE OneTransition' /\ RestoresFromCold'
  <2>1. OneTransition /\ RestoresFromCold
    BY <1>11 DEF Owned
  <2>2. RestoresFromCold'
    BY <1>1, <1>6, <1>7, <1>10, <2>1, RestoresStay
  <2>3. ASSUME NEW x \in msgs', Transition(x)'
        PROVE  \/ x \in msgs /\ x # m /\ Transition(x)
               \/ x = n /\ Transition(m)
    <3>1. CASE x = n
      BY <1>1, <1>2, <1>4, <2>3, <3>1 DEF Transition
    <3>2. CASE x \in msgs /\ x # m
      BY <1>1, <1>3, <2>3, <3>2 DEF Transition
    <3> QED BY <1>2, <3>1, <3>2
  <2>4. n.type = "status" => ~Asked(n.arch)
    BY <1>2, IdsInUse DEF Faultless, Asked, Asks
  <2>5. \A x \in msgs' : Transition(x)' =>
          ~Archived /\ Transitioning /\ (x.type = "status" => ~Asked(x.arch))
    BY <2>1, <2>3, <2>4 DEF OneTransition
  <2>6. Transitioning' <=> Transitioning
    BY <1>1 DEF Transitioning
  <2>7. \A x, y \in msgs' : Transition(x)' /\ Transition(y)' => x = y
    BY <2>1, <2>3 DEF OneTransition
  <2>8. \A t \in tasks' : ReadInTime(t)'
    BY <1>1, <2>1 DEF OneTransition, ReadInTime
  <2>9. Archived' => Transitioning' \/ InCold'
    BY <1>6, <2>1, <2>6 DEF OneTransition
  <2> QED BY <1>6, <1>10, <2>2, <2>5, <2>6, <2>7, <2>8, <2>9 DEF OneTransition
<1> QED BY <1>1, <1>8, <1>9, <1>11 DEF Owned
(* A restored copy replaces what has been, or is being, deleted *)
LEMMA ColdRestoresOwned ==
    ASSUME Faultless, Owned, NEW m \in msgs, ColdRestores(m)
    PROVE  Owned'
<1>1. UNCHANGED <<cold, log, held, tasks, bucket, used, history>> /\ m.type = "restore"
  BY DEF ColdRestores
<1>2. CASE msgs' = msgs \ {m} /\ UNCHANGED <<md, data>>
  BY <1>1, <1>2, TaskStepOwned DEF history
<1>3. CASE /\ msgs' = (msgs \ {m}) \cup {[type |-> "requeueRestore", etag |-> m.etag, arch |-> m.arch]}
           /\ UNCHANGED <<md, data>>
  <2>1. \A x \in msgs' : x \in msgs \/ x.type = "requeueRestore"
    BY <1>3
  <2> QED BY <1>1, <1>3, <2>1, TaskStepOwned DEF history
<1>4. CASE /\ md # NoObject /\ md.arch = m.arch /\ ~md.done /\ \E c \in cold : c.id = m.arch
           /\ data' = data \cup {[loc |-> clock + 1, etag |-> m.etag]} /\ msgs' = msgs \ {m}
           /\ \E s \in Stores :
                md' = [md EXCEPT !.loc = clock + 1, !.done = TRUE, !.past = FALSE, !.store = s]
  <2>1. OneTransition /\ RestoresFromCold /\ DataOwned /\ ColdOwned /\ md \in Metadata
    BY <1>4, AtHand DEF Owned, Faultless, Metas
  <2>2. /\ md'.loc = clock + 1 /\ md'.done /\ md'.arch = md.arch /\ md'.at = md.at
        /\ md'.tip = md.tip /\ md' # NoObject
    BY <1>4, <2>1 DEF Metadata, NoObject
  <2>3. Archived /\ Asked(md.arch)
    <3>1. cold \subseteq [id : 1 .. clock, etag : Contents]
      BY AtHand DEF Faultless, StateOK
    <3> QED BY <1>1, <1>4, <3>1 DEF Archived, Asked, NoId
  <2>4. \A d \in data : d.loc = md.loc => Goes(d.loc)
    BY <1>4, <2>1, <2>3 DEF RestoresFromCold, InCold
  <2>5. /\ LogSet' = LogSet /\ versioned' = versioned /\ InCold' /\ (Archived' <=> Archived)
        /\ Transitioning => Transitioning'
    BY <1>1, <2>2, InHand DEF LogSet, InCold, Archived, Transitioning
  <2>6. \A d \in data' : Goes(d.loc) => Goes(d.loc)'
    BY <1>1, <1>4, GoingStays
  <2>7. DataOwned'
    <3>1. \A d \in data' : d \in data \/ d.loc = clock + 1
      BY <1>4
    <3>2. \A t \in tasks : t.kind = "archivedSource" => t.seen.loc # clock + 1
      BY IdsInUse DEF Faultless
    <3> QED BY <1>1, <2>1, <2>2, <2>4, <2>6, <3>1, <3>2, DataStaysOwned
  <2>8. \A x : Recorded(x)' <=> Recorded(x)
    BY <1>1 DEF Recorded
  <2>9. ColdOwned'
    BY <1>1, <1>4, <2>1, <2>2, <2>5, <2>8, ColdStaysOwned DEF history
  <2>10. \A id : Asked(id)' => Asked(id)
    BY <1>4, <2>5, AskedBefore
  <2>11. OneTransition'
    BY <1>1, <1>4, <2>1, <2>2, <2>5, <2>8, <2>10, TransitionStays
  <2>12. RestoresFromCold'
    BY <2>2, <2>5 DEF RestoresFromCold
  <2> QED BY <2>7, <2>9, <2>11, <2>12 DEF Owned
<1> QED BY <1>2, <1>3, <1>4 DEF ColdRestores

-----------------------------------------------------------------------------
(* The steps of users *)

(* The archive that is left is deleted, unless its source data was still there *)
LEMMA LeftToDelete ==
    ASSUME Inv, md # NoObject, LeaveArchive, UNCHANGED versioned
    PROVE  /\ early \subseteq early' /\ LogSet \subseteq LogSet'
           /\ \A e \in LogSet' : e \in LogSet \/ e.type = "delete"
           /\ \A a : Archived /\ a = md.arch => a \in early' \/ Condemned(a)'
<1>1. ASSUME ~Archived
      PROVE  early' = early /\ LogSet' = LogSet
  BY <1>1 DEF LeaveArchive, Archived, LogSet
<1>2. CASE Archived
  <2>1. /\ log' = LoggedDelete(md) /\ md.arch # NoId /\ StateOK /\ md \in Metas
        /\ early' = IF md.class = "warm" THEN early \cup {md.arch} ELSE early
    BY <1>2, AtHand DEF LeaveArchive, Archived
  <2>2. /\ \A e \in LogSet' : e \in LogSet \/ (e.type = "delete" /\ e.value = md)
        /\ LogSet \subseteq LogSet'
        /\ \E e \in LogSet' : e.type = "delete" /\ e.value = md /\ ~(versioned /\ e.master)
    BY <2>1, DeleteIsLogged
  <2>3. CASE md.class = "warm"
    BY <2>1, <2>2, <2>3
  <2>4. CASE md.class # "warm"
    BY <2>1, <2>2, <2>4 DEF Deletes, Condemned
  <2> QED BY <2>1, <2>2, <2>3, <2>4
<1> QED BY <1>1, <1>2

(* The data and the archive of an object that is overwritten, or deleted *)
LEMMA LeavesOwned ==
    ASSUME Faultless, Owned, md # NoObject, LeaveArchive, UNCHANGED <<cold, msgs, tasks>>,
           \A d \in data' : \/ d \in data /\ d.loc # md.loc
                            \/ d.loc = clock + 1 /\ md' # NoObject /\ d.loc = md'.loc
    PROVE  DataOwned' /\ ColdOwned'
<1>1. /\ early \subseteq early' /\ LogSet \subseteq LogSet' /\ UNCHANGED versioned
      /\ \A e \in LogSet' : e \in LogSet \/ e.type = "delete"
      /\ \A a : Archived /\ a = md.arch => a \in early' \/ Condemned(a)'
  <2>1. Inv /\ UNCHANGED versioned
    BY InHand
  <2> QED BY <2>1, LeftToDelete
<1>2. DataOwned'
  <2>1. \A t \in tasks : t.kind = "archivedSource" => t.seen.loc # clock + 1
    BY IdsInUse DEF Faultless
  <2>2. md.loc # clock + 1
    BY AtHand DEF Faultless, Metas, Metadata
  <2>3. \A d \in data' : Goes(d.loc) => Goes(d.loc)'
    BY GoingStays
  <2> QED BY <2>1, <2>2, <2>3, DataStaysOwned DEF Owned
<1>3. ColdOwned'
  <2>1. \A x : Recorded(x)' <=> Recorded(x)
    BY DEF Recorded
  <2>2. \A c \in cold : c.id = md.arch => c.id \in early' \/ Condemned(c.id)'
    <3>1. cold \subseteq [id : 1 .. clock, etag : Contents]
      BY AtHand DEF Faultless, StateOK
    <3> QED BY <1>1, <3>1 DEF Archived, NoId
  <2> QED BY <1>1, <2>1, <2>2, ColdStaysOwned DEF Owned
<1> QED BY <1>2, <1>3

LEMMA UserDeleteOwned == ASSUME Faultless, Owned, UserDelete PROVE Owned'
<1>1. md' = NoObject /\ \A d \in data' : d \in data /\ d.loc # md.loc
  BY DEF UserDelete, Without
<1> QED BY <1>1, LeavesOwned DEF UserDelete, Owned

LEMMA UserPutOwned == ASSUME Faultless, Owned, NEW c \in Contents, UserPut(c) PROVE Owned'
<1>1. /\ md # NoObject /\ UNCHANGED <<cold, msgs, tasks>> /\ LeaveArchive /\ md \in Metadata
      /\ data' = Without(md.loc) \cup {[loc |-> clock + 1, etag |-> c]}
  BY AtHand DEF UserPut, Faultless, Metas
<1>2. /\ md'.at = clock + 1 /\ md'.loc = clock + 1 /\ md'.arch = NoId /\ md'.store = "warm"
      /\ ~md'.req /\ md' # NoObject
  BY <1>1 DEF UserPut, Metadata, NoObject
<1>3. DataOwned' /\ ColdOwned'
  <2>1. \A d \in data' : (d \in data /\ d.loc # md.loc) \/ d.loc = clock + 1
    BY <1>1 DEF Without
  <2> QED BY <1>1, <1>2, <2>1, LeavesOwned
<1>4. OneTransition'
  <2>1. \A m \in msgs' : ~Transition(m)'
    <3>1. \A m \in msgs' : m.type \in {"archive", "requeueTransition", "status"} => m.at # clock + 1
      BY <1>1, IdsInUse DEF Faultless
    <3> QED BY <1>2, <3>1 DEF Transition
  <2>2. ~Archived'
    BY <1>2 DEF Archived
  <2>3. \A t \in tasks' : ReadInTime(t)'
    BY <1>1 DEF Owned, OneTransition, ReadInTime
  <2> QED BY <2>1, <2>2, <2>3 DEF OneTransition
<1>5. RestoresFromCold'
  BY <1>2 DEF RestoresFromCold, Archived
<1> QED BY <1>3, <1>4, <1>5 DEF Owned

(* The object stays where it is, and in the transition it was in, if any *)
LEMMA SamePlaceOwned ==
    ASSUME Faultless, Owned, md # NoObject,
           md'.loc = md.loc, md'.arch = md.arch, md'.at = md.at, md' # NoObject,
           Transitioning => Transitioning', InCold => InCold', md'.req => md.req \/ InCold',
           md'.store = "cold" /\ ~md'.done => md.store = "cold" /\ ~md.done,
           UNCHANGED <<data, cold, early>>, LogSet \subseteq LogSet',
           \A id : Asked(id)' => Asked(id) \/ (Archived /\ InCold),
           \A m \in msgs : m \notin msgs' => m.type \notin {"deleteData", "coldGC", "status"},
           msgs' \subseteq msgs,
           \A t \in tasks : t \notin tasks' => ~Takes(t) /\ t.kind # "status",
           tasks' \subseteq tasks
    PROVE  Owned'
<1>1. OneTransition /\ RestoresFromCold /\ versioned' = versioned /\ (Archived' <=> Archived)
  BY InHand DEF Owned, Archived
<1>2. \A d \in data' : Goes(d.loc) => Goes(d.loc)'
  BY GoingStays
<1>3. \A x : Recorded(x)' <=> Recorded(x)
  BY DEF Recorded
<1>4. DataOwned'
  BY <1>2, DataStaysOwned DEF Owned
<1>5. ColdOwned'
  BY <1>1, <1>3, ColdStaysOwned DEF Owned
<1>6. OneTransition'
  BY <1>1, <1>3, TransitionStays
<1>7. RestoresFromCold'
  BY <1>1, <1>2, RestoresStay
<1> QED BY <1>4, <1>5, <1>6, <1>7 DEF Owned

LEMMA RestoreExpiresOwned == ASSUME Faultless, Owned, RestoreExpires PROVE Owned'
<1>1. /\ UNCHANGED <<data, cold, log, msgs, tasks, early>> /\ md # NoObject /\ md \in Metadata
      /\ md' = [md EXCEPT !.past = TRUE]
  BY AtHand DEF RestoreExpires, history, Faultless, Metas
<1>2. /\ md'.loc = md.loc /\ md'.arch = md.arch /\ md'.at = md.at /\ md' # NoObject
      /\ md'.req = md.req /\ md'.store = md.store /\ md'.done = md.done /\ md'.tip = md.tip
  BY <1>1 DEF Metadata, NoObject
<1>3. LogSet' = LogSet /\ versioned' = versioned
  BY <1>1, InHand DEF LogSet
<1>4. \A id : Asked(id)' => Asked(id)
  BY <1>1, <1>3, AskedBefore
<1> QED BY <1>1, <1>2, <1>3, <1>4, SamePlaceOwned DEF Transitioning, InCold

(* What a put adds to the log *)
LEMMA PutEntries ==
    ASSUME StateOK, NEW op \in {"restore", "retry"}, NEW o \in Metas, log' = LoggedPut(op, o)
    PROVE  /\ LogSet \subseteq LogSet'
           /\ \A e \in LogSet' : e \in LogSet \/ (e.type = "put" /\ e.value = o)
<1>1. LogSet' = LogSet \cup {[type |-> "put", op |-> op, master |-> i = 1, value |-> o] : i \in Keys}
  BY PutIsLogged
<1>2. \A e \in {[type |-> "put", op |-> op, master |-> i = 1, value |-> o] : i \in Keys} :
        e.type = "put" /\ e.value = o
  OBVIOUS
<1> QED BY <1>1, <1>2

LEMMA UserRestoreOwned == ASSUME Faultless, Owned, UserRestore PROVE Owned'
<1>1. /\ UNCHANGED <<data, cold, msgs, tasks, early>> /\ md # NoObject /\ md \in Metas
      /\ log' = LoggedPut("restore", md') /\ StateOK /\ versioned' = versioned
  BY AtHand, InHand DEF UserRestore, history, Faultless
<1>2. \/ md.store = "cold" /\ Archived /\ md' = [md EXCEPT !.req = TRUE]
      \/ md.done /\ md' = [md EXCEPT !.past = FALSE]
  BY DEF UserRestore, Archived
<1>3. /\ md'.loc = md.loc /\ md'.arch = md.arch /\ md'.at = md.at /\ md' # NoObject
      /\ md'.store = md.store /\ md'.done = md.done /\ md'.tip = md.tip
      /\ md'.req = md.req \/ InCold'
      /\ InCold' <=> InCold
  BY <1>1, <1>2 DEF Metas, Metadata, NoObject, InCold
<1>4. PICK o : o = md'
  OBVIOUS
<1>5. o \in Metas /\ o.done = md.done /\ o.arch = md.arch
  BY <1>1, <1>2, <1>4 DEF Metas, Metadata
<1>6. /\ LogSet \subseteq LogSet'
      /\ \A e \in LogSet' : e \in LogSet \/ (e.type = "put" /\ e.value = o)
  BY <1>1, <1>4, <1>5, PutEntries
<1>7. ASSUME NEW id, Asked(id)' PROVE Asked(id) \/ (Archived /\ InCold)
  <2>1. CASE md.done
    <3>1. \A e \in LogSet' : e \in LogSet \/ ~Asks(e)
      BY <1>5, <1>6, <2>1 DEF Asks
    <3> QED BY <1>1, <1>7, <3>1, AskedBefore
  <2> QED BY <1>2, <2>1 DEF InCold
<1> QED BY <1>1, <1>3, <1>6, <1>7, SamePlaceOwned DEF Transitioning

-----------------------------------------------------------------------------
(* The puts of the tasks *)

(* The task finds the object as it has read it *)
LEMMA PutFinds ==
    ASSUME Faultless, NEW t \in tasks, md # NoObject,
           \/ SetTransitionInProgress(t) \/ ArchivePutsMetadata(t) \/ ClearArchivedSource(t)
           \/ ResetArchive(t) \/ RequeuePutsMetadata(t)
    PROVE  /\ md = t.seen /\ md \in Metas /\ md \in Metadata /\ TaskCurrent(t)
           /\ t.kind # "scan" => t.msg \in msgs /\ MsgCurrent(t.msg)
           /\ ~Fault /\ UNCHANGED versioned
<1>1. Inv /\ ~stale /\ ~stale' /\ Alive /\ ~Fault /\ UNCHANGED versioned
  BY InHand DEF Alive
<1>2. md = t.seen
  BY <1>1, ReadIsCurrent
<1> QED BY <1>1, <1>2, AtHand DEF Metas

LEMMA SetTransitionInProgressOwned ==
    ASSUME Faultless, Owned, NEW t \in tasks, SetTransitionInProgress(t)
    PROVE  Owned'
<1>1. /\ UNCHANGED <<data, cold, clock, log, msgs, held, bucket, used, lost, early, thrown>>
      /\ t.kind = "scan" /\ tasks' = tasks \ {t}
  BY DEF SetTransitionInProgress
<1>2. CASE md = NoObject
  <2>1. md' = md
    BY <1>2 DEF SetTransitionInProgress
  <2> QED BY <1>1, <1>2, <2>1, TaskStepOwned DEF Takes
<1>3. CASE md # NoObject
  <2>1. md = t.seen /\ md \in Metadata
    BY <1>3, PutFinds
  <2>2. md' = [md EXCEPT !.tip = TRUE]
    BY <1>3, <2>1 DEF SetTransitionInProgress, PutMetadata
  <2>3. /\ md'.loc = md.loc /\ md'.arch = md.arch /\ md'.at = md.at /\ md' # NoObject
        /\ md'.req = md.req /\ md'.store = md.store /\ md'.done = md.done /\ md'.tip
    BY <2>1, <2>2 DEF Metadata, NoObject
  <2>4. LogSet' = LogSet /\ versioned' = versioned
    BY <1>1, InHand DEF LogSet
  <2>5. \A id : Asked(id)' => Asked(id)
    BY <1>1, <2>4, AskedBefore
  <2> QED BY <1>1, <1>3, <2>3, <2>4, <2>5, SamePlaceOwned DEF Transitioning, InCold, Takes
<1> QED BY <1>2, <1>3

LEMMA RequeuePutsMetadataOwned ==
    ASSUME Faultless, Owned, NEW t \in tasks, RequeuePutsMetadata(t)
    PROVE  Owned'
<1>1. /\ UNCHANGED <<data, cold, clock, bucket, lost, early, thrown>>
      /\ t.kind = "requeue" /\ tasks' = tasks \ {t} /\ msgs' = msgs \ {t.msg}
  BY InHand DEF RequeuePutsMetadata, Done
<1>2. t.msg.type \in {"requeueTransition", "requeueRestore"} /\ t.msg \in msgs
  BY <1>1, InHand, TaskKinds
<1>3. CASE md = NoObject
  <2>1. UNCHANGED <<md, log>>
    BY <1>3 DEF RequeuePutsMetadata
  <2> QED BY <1>1, <1>2, <2>1, TaskStepOwned DEF Takes
<1>4. ASSUME md # NoObject
      PROVE  /\ md = t.seen /\ md \in Metadata /\ md \in Metas /\ TaskCurrent(t)
             /\ versioned' = versioned /\ OneTransition /\ RestoresFromCold
  BY <1>4, PutFinds DEF Owned
<1>5. CASE md # NoObject /\ t.msg.type = "requeueTransition"
  <2>1. md' = [md EXCEPT !.tip = FALSE] /\ log' = log
    BY <1>4, <1>5 DEF RequeuePutsMetadata, PutMetadata
  <2>2. /\ md'.loc = md.loc /\ md'.arch = md.arch /\ md'.at = md.at /\ md' # NoObject
        /\ md'.req = md.req /\ md'.store = md.store /\ md'.done = md.done
    BY <1>4, <1>5, <2>1 DEF Metadata, NoObject
  <2>3. Transition(t.msg)
    <3>1. t.msg.at = md.at
      BY <1>1, <1>4, <1>5 DEF OneTransition, ReadInTime
    <3>2. ~Recorded(t.msg)
      BY <1>5, InHand, TaskKinds DEF Recorded
    <3> QED BY <1>5, <3>1, <3>2 DEF Transition
  <2>4. ~Archived /\ \A m \in msgs : Transition(m) => m = t.msg
    BY <1>2, <1>4, <1>5, <2>3 DEF OneTransition
  <2>5. \A x : Recorded(x)' <=> Recorded(x)
    BY <1>1 DEF Recorded
  <2>6. \A m \in msgs' : ~Transition(m)'
    BY <1>1, <2>2, <2>4, <2>5 DEF Transition
  <2>7. OneTransition'
    <3>1. \A u \in tasks' : ReadInTime(u)'
      BY <1>1, <1>4, <1>5 DEF OneTransition, ReadInTime
    <3>2. ~Archived'
      BY <2>2, <2>4 DEF Archived
    <3> QED BY <2>6, <3>1, <3>2 DEF OneTransition
  <2>8. \A d \in data' : Goes(d.loc) => Goes(d.loc)'
    BY <1>1, <1>5, GoingStays DEF Takes
  <2>9. DataOwned'
    BY <1>1, <1>5, <2>2, <2>8, DataStaysOwned DEF Owned
  <2>10. LogSet' = LogSet /\ versioned' = versioned
    BY <1>4, <1>5, <2>1 DEF LogSet
  <2>11. ColdOwned'
    BY <1>1, <1>5, <2>2, <2>5, <2>10, ColdStaysOwned DEF Owned
  <2>12. \A id : Asked(id)' => Asked(id)
    BY <1>1, <2>10, AskedBefore
  <2>13. RestoresFromCold'
    BY <1>1, <1>4, <1>5, <2>2, <2>8, <2>12, RestoresStay DEF InCold
  <2> QED BY <2>7, <2>9, <2>11, <2>13 DEF Owned
<1>6. CASE md # NoObject /\ t.msg.type = "requeueRestore"
  <2>1. md' = md /\ log' = LoggedPut("retry", md)
    BY <1>4, <1>6 DEF RequeuePutsMetadata, PutMetadata
  <2>2. Archived /\ InCold
    BY <1>1, <1>4, <1>6 DEF TaskCurrent, Archived, RestoresFromCold
  <2>3. LogSet \subseteq LogSet'
    BY <1>4, <1>6, <2>1, PutEntries, AtHand DEF Faultless
  <2> QED BY <1>1, <1>2, <1>6, <2>1, <2>2, <2>3, SamePlaceOwned
          DEF Transitioning, InCold, Takes
<1> QED BY <1>2, <1>3, <1>5, <1>6

(* No transition goes on of an object that has an archive *)
LEMMA NoTransitionOwned ==
    ASSUME Faultless, OneTransition, Archived, md # NoObject, md'.at = md.at, InCold',
           \A m \in msgs' : m \notin msgs => m.type = "deleteData",
           \A x : Recorded(x)' <=> Recorded(x), \A t \in tasks' : ReadInTime(t)
    PROVE  OneTransition'
<1>1. \A m \in msgs' : ~Transition(m)'
  BY DEF OneTransition, Transition
<1>2. \A t \in tasks' : ReadInTime(t)'
  BY DEF ReadInTime
<1> QED BY <1>1, <1>2 DEF OneTransition

LEMMA ClearArchivedSourceOwned ==
    ASSUME Faultless, Owned, NEW t \in tasks, ClearArchivedSource(t)
    PROVE  Owned'
<1>1. /\ UNCHANGED <<data, cold, clock, log, bucket, lost, early, thrown>>
      /\ t.kind = "archivedSource" /\ t.pc = "put"
  BY DEF ClearArchivedSource
<1>2. \A d \in data : d.loc # t.seen.loc
  BY <1>1 DEF Owned, DataOwned
<1>3. CASE md = NoObject
  <2>1. NotCommitted(t) /\ md' = md
    BY <1>3 DEF ClearArchivedSource
  <2> QED BY <1>1, <1>2, <2>1, NotCommittedOwned
<1>4. CASE md # NoObject
  <2>1. /\ md = t.seen /\ md \in Metadata /\ TaskCurrent(t) /\ MsgCurrent(t.msg) /\ t.msg \in msgs
        /\ ~Fault /\ versioned' = versioned /\ OneTransition /\ RestoresFromCold
    BY <1>1, <1>4, PutFinds DEF Owned
  <2>2. /\ md' = [md EXCEPT !.loc = NoId, !.store = "cold", !.class = "cold", !.tip = FALSE]
        /\ tasks' = tasks \ {t} /\ msgs' = msgs \ {t.msg}
    BY <1>4, <2>1 DEF ClearArchivedSource, PutMetadata, Done
  <2>3. /\ md'.loc = 0 /\ md'.arch = md.arch /\ md'.at = md.at /\ md' # NoObject
        /\ md'.req = md.req /\ InCold'
    BY <2>1, <2>2 DEF Metadata, NoObject, NoId, InCold
  <2>4. t.msg.type = "archivedSource"
    BY <1>1, InHand, TaskKinds
  <2>5. Archived
    BY <1>1, <2>1, <2>4 DEF TaskCurrent, MsgCurrent
  <2>6. \A x : Recorded(x)' <=> Recorded(x)
    BY <1>1, <2>2 DEF Recorded
  <2>7. OneTransition'
    BY <1>4, <2>1, <2>2, <2>3, <2>5, <2>6, NoTransitionOwned DEF OneTransition
  <2>8. \A d \in data' : Goes(d.loc) => Goes(d.loc)'
    BY <1>1, <1>2, <2>2, <2>4, GoingStays
  <2>9. DataOwned'
    BY <1>1, <1>2, <2>1, <2>2, <2>8, DataStaysOwned DEF Owned
  <2>10. LogSet' = LogSet
    BY <1>1 DEF LogSet
  <2>11. ColdOwned'
    BY <1>1, <2>1, <2>2, <2>3, <2>4, <2>6, <2>10, ColdStaysOwned DEF Owned
  <2>12. \A d \in data' : d.loc # md'.loc
    BY <1>1, <2>3, AtHand DEF Faultless, StateOK
  <2>13. RestoresFromCold'
    BY <2>3, <2>12 DEF RestoresFromCold
  <2> QED BY <2>7, <2>9, <2>11, <2>13 DEF Owned
<1> QED BY <1>3, <1>4

LEMMA ResetArchiveOwned ==
    ASSUME Faultless, Owned, NEW t \in tasks, ResetArchive(t)
    PROVE  Owned'
<1>1. /\ UNCHANGED <<data, cold, clock, log, bucket, lost, early, thrown>>
      /\ t.kind = "gc" /\ t.pc = "put" /\ t.msg.type = "gc" /\ t \in ExpirationTasks
  BY InHand, TaskKinds DEF ResetArchive
<1>2. CASE md = NoObject
  <2>1. md' = md /\ tasks' = tasks \ {t} /\ msgs' = (msgs \ {t.msg}) \cup {}
    BY <1>2, InHand DEF ResetArchive, Done
  <2> QED BY <1>1, <2>1, TaskStepOwned DEF Takes
<1>3. CASE md # NoObject
  <2>1. /\ md = t.seen /\ md \in Metadata /\ TaskCurrent(t) /\ versioned' = versioned
        /\ OneTransition /\ RestoresFromCold
    BY <1>3, PutFinds DEF Owned
  <2>2. PICK u : u = [t EXCEPT !.pc = "gc", !.seen = t.seen]
    OBVIOUS
  <2>3. /\ md' = [md EXCEPT !.req = FALSE, !.done = FALSE, !.past = FALSE, !.store = "cold",
                            !.class = "cold", !.tip = FALSE]
        /\ tasks' = (tasks \ {t}) \cup {u} /\ msgs' = msgs
    BY <1>3, <2>1, <2>2 DEF ResetArchive, PutMetadata, Go
  <2>4. /\ md'.loc = md.loc /\ md'.arch = md.arch /\ md'.at = md.at /\ md' # NoObject
        /\ ~md'.req /\ InCold'
    BY <2>1, <2>3 DEF Metadata, NoObject, InCold
  <2>5. u.kind = "gc" /\ u.pc = "gc" /\ u.seen = t.seen
    BY <1>1, <2>2 DEF ExpirationTasks
  <2>6. Archived
    BY <1>1, <2>1 DEF TaskCurrent, Archived
  <2>7. \A x : Recorded(x)' <=> Recorded(x)
    BY <1>1, <2>3, <2>5 DEF Recorded
  <2>8. \A v \in tasks' : ReadInTime(v)
    BY <2>1, <2>3, <2>5 DEF OneTransition, ReadInTime
  <2>9. OneTransition'
    BY <1>3, <2>1, <2>3, <2>4, <2>6, <2>7, <2>8, NoTransitionOwned
  <2>10. Goes(t.seen.loc)' /\ \A d \in data' : d.loc = t.seen.loc => Goes(d.loc)'
    BY <2>3, <2>5 DEF Goes, Takes
  <2>11. \A d \in data' : Goes(d.loc) => Goes(d.loc)'
    BY <1>1, <2>3, GoingStays DEF Takes
  <2>12. DataOwned'
    BY <1>1, <2>3, <2>4, <2>5, <2>11, DataStaysOwned DEF Owned
  <2>13. LogSet' = LogSet
    BY <1>1 DEF LogSet
  <2>14. ColdOwned'
    BY <1>1, <2>1, <2>3, <2>4, <2>7, <2>13, ColdStaysOwned DEF Owned
  <2>15. RestoresFromCold'
    BY <2>1, <2>4, <2>10 DEF RestoresFromCold
  <2> QED BY <2>9, <2>12, <2>14, <2>15 DEF Owned
<1> QED BY <1>2, <1>3
LEMMA ArchivePutsMetadataOwned ==
    ASSUME Faultless, Owned, NEW t \in tasks, ArchivePutsMetadata(t)
    PROVE  Owned'
<1>1. /\ UNCHANGED <<data, cold, clock, log, bucket, lost, early, thrown>>
      /\ t.kind = "status" /\ t.pc = "put" /\ t.msg.type = "status" /\ t \in StatusTasks
      /\ t.msg \in msgs
  BY InHand, TaskKinds DEF ArchivePutsMetadata
<1>2. CASE md = NoObject
  <2>1. NotCommitted(t) /\ md' = md
    BY <1>2 DEF ArchivePutsMetadata
  <2> QED BY <1>1, <2>1, NotCommittedOwned DEF Takes
<1>3. CASE md # NoObject
  <2>1. /\ md = t.seen /\ md \in Metadata /\ TaskCurrent(t) /\ versioned' = versioned
        /\ ~Fault /\ OneTransition /\ RestoresFromCold
    BY <1>3, PutFinds DEF Owned
  <2>2. md' = SetArchive(t)
    BY <1>3 DEF ArchivePutsMetadata, PutMetadata
  <2>3. PICK o : o = [md EXCEPT !.arch = t.msg.arch, !.req = FALSE, !.done = FALSE, !.past = FALSE]
    OBVIOUS
  <2>4. /\ o \in [etag : Contents, at : Nat, loc : Nat, arch : {t.msg.arch}, req : {FALSE},
                  done : {FALSE}, past : {FALSE}, store : Stores, class : Stores, tip : BOOLEAN]
        /\ o.loc = md.loc /\ o.at = md.at /\ o.store = md.store /\ o.tip = md.tip
        /\ o.arch = t.msg.arch /\ ~o.req /\ ~o.done /\ o # NoObject
    BY <2>1, <2>3 DEF Metadata, NoObject
  <2>5. md' = IF o.loc = NoId
              THEN [o EXCEPT !.store = "cold", !.class = "cold", !.tip = FALSE] ELSE o
    BY <2>1, <2>2, <2>3 DEF SetArchive
  <2>6. /\ md'.loc = md.loc /\ md'.arch = t.msg.arch /\ md'.at = md.at /\ md' # NoObject
        /\ ~md'.req /\ ~md'.done
        /\ md.loc = NoId => md'.store = "cold"
        /\ md.loc # NoId => md'.store = md.store /\ md'.tip = md.tip
    <3>1. CASE md.loc = NoId
      <4>1. md' = [o EXCEPT !.store = "cold", !.class = "cold", !.tip = FALSE]
        BY <2>4, <2>5, <3>1
      <4> QED BY <2>4, <3>1, <4>1 DEF NoObject
    <3>2. CASE md.loc # NoId
      <4>1. md' = o
        BY <2>4, <2>5, <3>2
      <4> QED BY <2>4, <3>2, <4>1
    <3> QED BY <3>1, <3>2
  <2>7. PICK u : u = [t EXCEPT !.pc = "gc", !.seen = NoObject]
    OBVIOUS
  <2>8. u.kind = "status" /\ u.pc = "gc" /\ u.msg = t.msg
    BY <1>1, <2>7 DEF StatusTasks
  <2>9. \/ md.loc = NoId /\ tasks' = tasks \ {t} /\ msgs' = msgs \ {t.msg}
        \/ md.loc # NoId /\ tasks' = (tasks \ {t}) \cup {u} /\ msgs' = msgs
    BY <1>3, <2>1, <2>2, <2>6, <2>7 DEF ArchivePutsMetadata, Done, Go
  <2>10. ~Recorded(t.msg)
    BY <1>1, InHand DEF Recorded
  <2>11. /\ \A x \in msgs' : x = t.msg => Recorded(x)'
         /\ \A x : x # t.msg => (Recorded(x)' <=> Recorded(x))
    BY <1>1, <2>8, <2>9 DEF Recorded
  <2>12. Transition(t.msg)
    BY <1>1, <2>1, <2>10 DEF Transition, TaskCurrent
  <2>13. /\ ~Archived /\ Transitioning /\ ~Asked(t.msg.arch)
         /\ \A x \in msgs : Transition(x) => x = t.msg
    BY <1>1, <2>1, <2>12 DEF OneTransition
  <2>14. LogSet' = LogSet /\ msgs' \subseteq msgs
    BY <1>1, <2>9 DEF LogSet
  <2>15. OneTransition'
    <3>1. \A x \in msgs' : ~Transition(x)'
      BY <2>6, <2>11, <2>13, <2>14 DEF Transition
    <3>2. \A v \in tasks' : ReadInTime(v)'
      BY <2>1, <2>8, <2>9 DEF OneTransition, ReadInTime
    <3>3. Transitioning' \/ InCold'
      BY <1>1, <2>6, <2>9, <2>13 DEF Transitioning, InCold
    <3> QED BY <3>1, <3>2, <3>3 DEF OneTransition
  <2>16. \A d \in data' : Goes(d.loc) => Goes(d.loc)'
    BY <1>1, <2>9, GoingStays DEF Takes
  <2>17. DataOwned'
    BY <1>1, <2>6, <2>8, <2>9, <2>16, DataStaysOwned DEF Owned
  <2>18. ColdOwned'
    <3>1. \A c \in cold' : c.id # md.arch
      BY <1>1, <2>13, AtHand DEF Archived, NoId, Faultless, StateOK
    <3>2. \A x \in msgs : x.type = "status" /\ ~Recorded(x) =>
            (x \in msgs' /\ ~Recorded(x)') \/ x.arch = md'.arch
      BY <2>6, <2>9, <2>11
    <3>3. \A x \in msgs : x \notin msgs' => x.type # "coldGC"
      BY <1>1, <2>9
    <3> QED BY <1>1, <2>1, <2>6, <2>14, <3>1, <3>2, <3>3, ColdStaysOwned DEF Owned
  <2>19. RestoresFromCold'
    <3>1. \A id : Asked(id)' => Asked(id)
      BY <2>1, <2>14, AskedBefore
    <3>2. PICK a : a = t.msg.arch
      OBVIOUS
    <3>3. ~Asked(md.arch)'
      <4>1. Asked(md.arch)' => Asked(a)'
        BY <2>6, <3>2 DEF Asked
      <4> QED BY <2>13, <3>1, <3>2, <4>1
    <3>4. md'.store = "cold" => \A d \in data' : d.loc = md'.loc => Goes(d.loc)'
      <4>1. CASE md.loc = NoId
        <5>1. \A d \in data' : d.loc # md'.loc
          BY <1>1, <2>6, <4>1, AtHand DEF Faultless, StateOK, NoId
        <5> QED BY <5>1
      <4>2. CASE md.loc # NoId
        <5>1. ~md.done
          BY <1>1, <2>1 DEF TaskCurrent
        <5> QED BY <1>1, <2>1, <2>6, <2>16, <4>2, <5>1 DEF RestoresFromCold
      <4> QED BY <4>1, <4>2
    <3> QED BY <2>6, <3>3, <3>4 DEF RestoresFromCold
  <2> QED BY <2>15, <2>17, <2>18, <2>19 DEF Owned
<1> QED BY <1>2, <1>3

LEMMA OwnedNext == ASSUME Faultless, Owned PROVE Owned'
<1>0. Step /\ ~Fault
  BY InHand DEF Faultless
<1>1. \A t \in tasks : ~TaskFails(t)
  BY <1>0 DEF TaskFails
<1> QED BY <1>0, <1>1, UserPutOwned, UserDeleteOwned, UserRestoreOwned, UserSetsLifecycleOwned,
           RestoreExpiresOwned, ColdExpiresOwned, FilterOwned, RestartOwned,
           ApplyTransitionRuleOwned, ColdArchivesOwned, ColdRestoresOwned, ColdDeletesOwned,
           ArchiveGetsMetadataOwned, SourceGetsMetadataOwned, ExecuteDeleteDataOwned,
           ExpirationGetsMetadataOwned, RequeueGetsMetadataOwned, RefreshObjectMDOwned,
           SetTransitionInProgressOwned, ArchivePutsMetadataOwned,
           GarbageCollectArchivedSourceOwned, DeleteArchivedSourceDataOwned,
           ClearArchivedSourceOwned, ResetArchiveOwned, GarbageCollectLocationOwned,
           RequeuePutsMetadataOwned DEF Step

-----------------------------------------------------------------------------
(* The node of the bucket *)

(* Without an object only the configuration changes; with one it does not.  The *)
(* last entry of the log carries the configuration as it is                     *)
NodeFollows ==
    \/ /\ clock = 0 /\ md = NoObject /\ msgs = {} /\ tasks = {}
       /\ \A i \in 1 .. Len(log) : log[i].type = "bucket"
       /\ (IF log = << >> THEN zkNode ELSE log[Len(log)].config) = config
    \/ /\ clock # 0 /\ ~config /\ ~zkNode /\ \A e \in LogSet : e.type # "bucket"

(* What changes the configuration, and the node *)
LEMMA ConfigSteps ==
    ASSUME Step, ~UserSetsLifecycle, clock \in Nat
    PROVE  config' = config /\ clock' \in {clock, clock + 1} /\ (~Filter => zkNode' = zkNode)
<1>1. (\E c \in Contents : UserPut(c)) \/ UserDelete \/ UserRestore \/ RestoreExpires
      \/ ColdExpires \/ Filter \/ Restart \/ ApplyTransitionRule
      => config' = config /\ clock' \in {clock, clock + 1} /\ (~Filter => zkNode' = zkNode)
  BY DEF UserPut, UserDelete, UserRestore, RestoreExpires, ColdExpires, Filter, Restart,
         ApplyTransitionRule, bucket
<1>2. \A m \in msgs :
        \/ ColdArchives(m) \/ ColdRestores(m) \/ ColdDeletes(m)
        \/ ArchiveGetsMetadata(m) \/ SourceGetsMetadata(m) \/ ExecuteDeleteData(m)
        \/ ExpirationGetsMetadata(m) \/ RequeueGetsMetadata(m)
        => UNCHANGED bucket /\ clock' \in {clock, clock + 1}
  BY DEF ColdArchives, ColdRestores, ColdDeletes, ArchiveGetsMetadata, SourceGetsMetadata,
         ExecuteDeleteData, ExpirationGetsMetadata, RequeueGetsMetadata
<1>3. \A t \in tasks :
        \/ RefreshObjectMD(t) \/ SetTransitionInProgress(t)
        \/ ArchivePutsMetadata(t) \/ GarbageCollectArchivedSource(t)
        \/ DeleteArchivedSourceData(t) \/ ClearArchivedSource(t)
        \/ ResetArchive(t) \/ GarbageCollectLocation(t)
        \/ RequeuePutsMetadata(t) \/ TaskFails(t)
        => UNCHANGED bucket /\ clock' = clock
  BY DEF RefreshObjectMD, SetTransitionInProgress, ArchivePutsMetadata,
         GarbageCollectArchivedSource, DeleteArchivedSourceData, ClearArchivedSource,
         ResetArchive, GarbageCollectLocation, RequeuePutsMetadata, TaskFails
<1>4. UNCHANGED bucket => config' = config /\ zkNode' = zkNode
  BY DEF bucket
<1> QED BY <1>1, <1>2, <1>3, <1>4 DEF Step

LEMMA NodeNext == ASSUME Faultless, NodeFollows PROVE NodeFollows'
<1>0. Step /\ ~Fault /\ StateOK /\ log \in Seq(Logs) /\ Len(log) \in Nat
  BY InHand, AtHand DEF Faultless, StateOK
<1>1. CASE clock = 0
  <2>1. /\ md = NoObject /\ msgs = {} /\ tasks = {} /\ held = {}
        /\ \A i \in 1 .. Len(log) : log[i].type = "bucket"
        /\ (IF log = << >> THEN zkNode ELSE log[Len(log)].config) = config
    BY <1>1, AtHand DEF NodeFollows, Faultless, MsgsOK
  <2>2. UserSetsLifecycle \/ Filter
    BY <1>0, <2>1 DEF Step, UserPut, UserDelete, UserRestore, RestoreExpires, ColdExpires, Restart,
                      ApplyTransitionRule
  <2>3. CASE UserSetsLifecycle
    <3>1. /\ UNCHANGED <<md, msgs, tasks, clock, zkNode>> /\ config' = ~config
          /\ log' = Append(log, [type |-> "bucket", config |-> ~config])
      BY <2>3 DEF UserSetsLifecycle
    <3>2. /\ log' # << >> /\ Len(log') = Len(log) + 1
          /\ log'[Len(log')] = [type |-> "bucket", config |-> ~config]
      BY <1>0, <3>1
    <3>3. \A i \in 1 .. Len(log') : log'[i].type = "bucket"
      BY <1>0, <2>1, <3>1
    <3> QED BY <1>1, <2>1, <3>1, <3>2, <3>3 DEF NodeFollows
  <2>4. CASE Filter
    <3>1. /\ log # << >> /\ log' = Tail(log) /\ Len(log) > 0 /\ Head(log) = log[1]
      BY <1>0, <2>4 DEF Filter
    <3>2. Head(log).type = "bucket"
      BY <1>0, <2>1, <3>1
    <3>3. /\ zkNode' = Head(log).config /\ msgs' = msgs
          /\ UNCHANGED <<md, clock, tasks, config>>
      BY <1>0, <2>4, <3>2 DEF Filter, UpdateZkBucketNode
    <3>4. \A i \in 1 .. Len(log') : log'[i] = log[i + 1] /\ i + 1 \in 1 .. Len(log)
      BY <1>0, <3>1
    <3>5. (IF log' = << >> THEN zkNode' ELSE log'[Len(log')].config) = config
      <4>1. Len(log') = Len(log) - 1 /\ (log' = << >> <=> Len(log') = 0)
        <5>1. log' \in Seq(Logs) /\ Len(log') = Len(log) - 1
          BY <1>0, <3>1
        <5> QED BY <5>1
      <4>2. CASE Len(log) = 1
        BY <2>1, <3>1, <3>3, <4>1, <4>2
      <4>3. CASE Len(log) # 1
        <5>1. Len(log') \in 1 .. Len(log') /\ Len(log') + 1 = Len(log)
          BY <1>0, <3>1, <4>1, <4>3
        <5>2. log'[Len(log')] = log[Len(log)]
          BY <3>4, <5>1
        <5> QED BY <2>1, <3>1, <4>1, <5>1, <5>2
      <4> QED BY <4>2, <4>3
    <3> QED BY <1>1, <2>1, <3>3, <3>4, <3>5 DEF NodeFollows
  <2> QED BY <2>2, <2>3, <2>4
<1>2. CASE clock # 0
  <2>1. ~config /\ ~zkNode /\ \A e \in LogSet : e.type # "bucket"
    BY <1>2 DEF NodeFollows
  <2>2. ~UserSetsLifecycle
    BY <1>2 DEF UserSetsLifecycle
  <2>3. /\ config' = config /\ clock' # 0 /\ (~Filter => zkNode' = zkNode)
        /\ Inv /\ UNCHANGED versioned
    BY <1>0, <1>2, <2>2, ConfigSteps, InHand, AtHand
  <2>4. CASE Filter
    <3>1. /\ Head(log) \in LogSet /\ LogSet' \subseteq LogSet
      BY <1>0, <2>4, EntryIsRead DEF Filter
    <3>2. zkNode' = zkNode
      BY <1>0, <2>1, <2>4, <3>1 DEF Filter
    <3> QED BY <2>1, <2>3, <3>1, <3>2 DEF NodeFollows
  <2>5. SUFFICES ASSUME ~Filter PROVE \A e \in LogSet' : e.type # "bucket"
    BY <2>1, <2>3, <2>4 DEF NodeFollows
  <2>6. CASE LeaveArchive /\ md # NoObject
    BY <2>1, <2>3, <2>6, LeftToDelete
  <2>7. CASE UserRestore
    <3>1. PICK o : o = md'
      OBVIOUS
    <3>2. md \in Metas /\ (md' = [md EXCEPT !.req = TRUE] \/ md' = [md EXCEPT !.past = FALSE])
      BY <2>3, <2>7, AtHand DEF UserRestore
    <3>3. o \in Metas /\ log' = LoggedPut("restore", o)
      BY <2>7, <3>1, <3>2 DEF UserRestore, Metas, Metadata
    <3>4. \A e \in LogSet' : e \in LogSet \/ e.type = "put"
      BY <1>0, <3>3, PutEntries
    <3> QED BY <2>1, <3>4
  <2>8. ASSUME NEW t \in tasks, RequeuePutsMetadata(t), log' # log
        PROVE  \A e \in LogSet' : e.type # "bucket"
    <3>1. t.seen \in Metas
      <4>1. t \in RequeueTasks
        BY <2>3, <2>8, AtHand, TaskKinds DEF RequeuePutsMetadata
      <4> QED BY <4>1 DEF RequeueTasks
    <3>2. log' = LoggedPut("retry", t.seen)
      BY <2>8 DEF RequeuePutsMetadata
    <3>3. \A e \in LogSet' : e \in LogSet \/ e.type = "put"
      BY <1>0, <3>1, <3>2, PutEntries
    <3> QED BY <2>1, <3>3
  <2>9. CASE log' = log
    BY <2>1, <2>9 DEF LogSet
  <2> QED BY <1>0, <2>2, <2>5, <2>6, <2>7, <2>8, <2>9, LogSteps
<1> QED BY <1>1, <1>2

-----------------------------------------------------------------------------
(* At rest, without faults, stale writes and processors that died on an        *)
(* exception, and unless the object was deleted before its source data was     *)
(* collected, all that is stored is the object's                               *)
THEOREM NothingLeftBehind == Spec => []NoLeftovers
<1> DEFINE J == Clean => Owned /\ NodeFollows
<1>1. Init => J
  <2>1. Init => Owned
    BY DEF Init, Owned, DataOwned, ColdOwned, OneTransition, RestoresFromCold, Archived, NoId,
           NoObject
  <2>2. Init => NodeFollows
    <3> SUFFICES ASSUME Init PROVE NodeFollows
      OBVIOUS
    <3>1. /\ log = << >> /\ msgs = {} /\ tasks = {} /\ config = FALSE /\ zkNode = FALSE
          /\ (md = NoObject /\ clock = 0) \/ clock = 1
      BY DEF Init
    <3>2. LogSet = {} /\ \A i \in 1 .. Len(log) : log[i].type = "bucket"
      BY <3>1 DEF LogSet, Elems
    <3>3. (IF log = << >> THEN zkNode ELSE log[Len(log)].config) = config
      BY <3>1
    <3>4. CASE md = NoObject /\ clock = 0
      BY <3>1, <3>2, <3>3, <3>4, Zenon DEF NodeFollows
    <3>5. CASE clock = 1
      BY <3>1, <3>2, <3>5 DEF NodeFollows
    <3> QED BY <3>1, <3>4, <3>5
  <2> QED BY <2>1, <2>2
<1>2. Inv /\ Inv' /\ J /\ [Next]_vars => J'
  <2>1. Inv /\ Inv' /\ J /\ Next => J'
    <3>1. Inv /\ Inv' /\ Next /\ Clean' => Faultless
      BY DEF Next, Faultless
    <3> QED BY <3>1, FaultlessStep, OwnedNext, NodeNext
  <2>2. J /\ UNCHANGED vars => J'
    BY DEF vars, Clean, Owned, DataOwned, ColdOwned, OneTransition, RestoresFromCold, Archived,
           Goes, Takes, Condemned, Deletes, Asked, Asks, Recorded, Transition, Transitioning,
           InCold, ReadInTime, NodeFollows, LogSet
  <2> QED BY <2>1, <2>2
<1>3. Inv /\ J => NoLeftovers
  <2> SUFFICES ASSUME Inv, J, used.faults = 0, ~stale, tasks = {}, log = << >>,
                      \A m \in msgs : m.type = "archivedSource" /\ md = NoObject
               PROVE  /\ \A d \in data : md # NoObject /\ d.loc = md.loc
                      /\ \A c \in cold : c.id \in early \/ (md # NoObject /\ c.id = md.arch)
                      /\ zkNode = config
    BY DEF NoLeftovers
  <2>1. Owned /\ NodeFollows
    BY DEF Clean
  <2>2. LogSet = {}
    BY DEF LogSet, Elems
  <2>3. \A loc : ~Goes(loc)
    BY DEF Goes
  <2>4. \A id : ~Condemned(id)
    BY <2>2 DEF Condemned
  <2>5. config \in BOOLEAN /\ zkNode \in BOOLEAN
    BY AtHand DEF StateOK
  <2> QED BY <2>1, <2>3, <2>4, <2>5 DEF Owned, DataOwned, ColdOwned, NodeFollows
<1> QED BY <1>1, <1>2, <1>3, Invariance, PTL DEF Spec
=============================================================================
