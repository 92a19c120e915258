--------------------------- MODULE MCLifecycleScan ---------------------------
(* The set-ups of the scan.
   Rules: the rules with at most one expiration and a few transitions of each
   kind, and pairs of them on nested prefixes, on a bucket with an object of three
   versions, a version under a delete marker, and an expired delete marker; both
   versions of the task, with and without versioning, with aborts of uploads.
   Retention: five versions of one object over three pages, a fault of the
   conductor or of a task, two processors or a change by a user, for both versions
   of the task.
   Conductor: two buckets from each source of buckets, two bucket processors,
   faults, and batches that may overlap.                                       *)
EXTENDS LifecycleScan

MCAge == [id \in 1 .. 7 |-> IF id > 6 THEN 0 ELSE 6 - id]

A == <<1>>
AB == <<1, 2>>
Version(k, id, dm, store) == [key |-> k, id |-> id, dm |-> dm, store |-> store]
To(days, store) == [days |-> days, store |-> store]

Rule(prefix, enabled, exp, eodm, trans, ncve, ncvt) ==
    [prefix |-> prefix, enabled |-> enabled, exp |-> exp, eodm |-> eodm, trans |-> trans,
     ncve |-> ncve, newer |-> 0, ncvt |-> ncvt]

MCVersions ==
    {Version(A, 1, FALSE, "cold"), Version(A, 3, FALSE, "hot"), Version(A, 5, FALSE, "hot"),
     Version(AB, 2, FALSE, "hot"), Version(AB, 6, TRUE, "hot"), Version(<<2>>, 4, TRUE, "hot")}

Base == [rules |-> {}, versioned |-> TRUE, versions |-> MCVersions, uploads |-> {},
         abort |-> None, source |-> "mongodb", indexed |-> {1, 2}, backlog |-> 0,
         procs |-> 1, buckets |-> 1, faults |-> 0, taskFaults |-> TRUE, writes |-> 0,
         deletes |-> FALSE]

Expirations == {[exp |-> None, eodm |-> FALSE], [exp |-> None, eodm |-> TRUE],
                [exp |-> 1, eodm |-> FALSE], [exp |-> 3, eodm |-> FALSE]}
TransitionSets == {{}, {To(1, "cold")}, {To(0, "warm"), To(1, "cold")}}
NcvTransitionSets == {{}, {To(2, "cold")}, {To(1, "warm"), To(3, "cold")}}

Single(prefix, ncves, ncvts) ==
    {Rule(prefix, TRUE, e.exp, e.eodm, t, n, w) :
       e \in Expirations, t \in TransitionSets, n \in ncves, w \in ncvts}

SingleRules == Single(<<>>, {None, 2}, NcvTransitionSets)

PairedRules ==
    {{Rule(<<>>, TRUE, e1, FALSE, t1, None, w1), Rule(A, on, e2, e2 = None, t2, n2, {})} :
       e1 \in {None, 3}, t1 \in {{}, {To(1, "cold")}}, w1 \in {{}, {To(2, "cold")}},
       on \in BOOLEAN, e2 \in {None, 1}, t2 \in {{}, {To(0, "warm")}}, n2 \in {None, 2}}
    \union {{Rule(A, TRUE, e1, FALSE, t1, None, {}), Rule(AB, TRUE, None, TRUE, t2, 2, {})} :
              e1 \in {None, 1}, t1 \in {{}, {To(0, "warm")}}, t2 \in {{}, {To(1, "cold")}}}

RuleScenarios ==
    {[Base EXCEPT !.rules = rs, !.indexed = i] :
       rs \in {{r} : r \in SingleRules} \union PairedRules, i \in {{}, {1}}}
    \union {[Base EXCEPT !.rules = {r}, !.versioned = FALSE, !.indexed = i,
                         !.versions = {v \in MCVersions : v.id \in {1, 2}}] :
              r \in SingleRules, i \in {{}, {1}}}
    \union {[Base EXCEPT !.uploads = 1 .. n, !.abort = d, !.indexed = i,
                         !.rules = {Rule(<<>>, TRUE, 3, FALSE, {}, None, {})}] :
              n \in 1 .. 3, d \in {0, 4}, i \in {{}, {1}}}

Retained(n) == [Rule(<<>>, TRUE, None, FALSE, {}, 1, {}) EXCEPT !.newer = n]
RetentionScenarios ==
    {[Base EXCEPT !.rules = {Retained(2)}, !.indexed = i, !.faults = f, !.taskFaults = FALSE,
                  !.writes = 1 - f,
                  !.versions = {Version(A, id, id = 3, "hot") : id \in 1 .. 5}] :
       i \in {{}, {1}}, f \in 0 .. 1}
    \union {[Base EXCEPT !.rules = {Retained(2)}, !.writes = 1, !.deletes = TRUE,
                         !.versions = {Version(A, id, FALSE, "hot") : id \in 1 .. 5}]}
    \union {[Base EXCEPT !.rules = {Retained(2)}, !.indexed = i, !.procs = n, !.faults = 2 - n,
                         !.versions = {Version(A, id, FALSE, "hot") : id \in 1 .. 5}] :
              i \in {{}, {1}}, n \in 1 .. 2}
    \union {[Base EXCEPT !.rules = {Retained(1)}, !.procs = 2, !.faults = 1,
                         !.versions = {Version(A, id, FALSE, "hot") : id \in 1 .. 4}]}

ConductorScenarios ==
    {[Base EXCEPT !.versions = {}, !.indexed = {}, !.source = src, !.procs = 2, !.buckets = 2,
                  !.faults = 1, !.backlog = IF src = "mongodb" THEN 0 ELSE 1] :
       src \in {"mongodb", "bucketd", "zookeeper"}}

(* A version is deleted while version 1 of the task lists the bucket. *)
DeletionScenarios ==
    {[Base EXCEPT !.rules = {Retained(2)}, !.deletes = TRUE, !.source = "bucketd",
                  !.writes = 1,
                  !.versions = {Version(A, id, FALSE, "hot") : id \in 1 .. 5}]}

ScanScenarios == RuleScenarios \union RetentionScenarios \union DeletionScenarios
=============================================================================
