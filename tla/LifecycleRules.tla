---------------------------- MODULE LifecycleRules ----------------------------
(* What the rules of a bucket ask for, as the lifecycle tasks compute it.

   A version is [key, id, dm, store]: among the versions of a key a larger id is
   newer, dm is a delete marker, store is where its data is.  Age[id] is how many
   days ago a version was written.  A key and a prefix are sequences.  A rule is
   [prefix, enabled, exp, eodm, trans, ncve, newer, ncvt]: days of the
   expiration, whether expired delete markers are deleted, a set of transitions
   [days, store], days of the noncurrent expiration and how many newer noncurrent
   versions it keeps (0 for none), a set of noncurrent transitions.  A rule with a
   date is one of 0 days when the date has passed, and none before; expirations
   in days are of one day at least.                                            *)
EXTENDS Integers, Sequences, FiniteSets, SequencesExt, FiniteSetsExt, Bags

CONSTANTS
    Age,        \* days since the version was written, by id
    None        \* no days, no store, no marker

Current(V, v) == ~ \E w \in V : w.key = v.key /\ w.id > v.id
NewerOf(V, v) == {w \in V : w.key = v.key /\ w.id > v.id}
Least(S) == CHOOSE x \in S : \A y \in S : x <= y
Greatest(S) == CHOOSE x \in S : \A y \in S : x >= y
LeastOrNone(S) == IF S = {} THEN None ELSE Least(S)
Days(S) == S \ {None}

(* The order of listings: by key, the newest version of a key first. *)
KeyBefore(j, k) ==
    \/ IsStrictPrefix(j, k)
    \/ \E i \in 1 .. Len(j) : /\ i <= Len(k) /\ j[i] < k[i]
                              /\ SubSeq(j, 1, i - 1) = SubSeq(k, 1, i - 1)
ListedBefore(v, w) == KeyBefore(v.key, w.key) \/ (v.key = w.key /\ v.id > w.id)
InOrder(V) ==
    [i \in 1 .. Cardinality(V) |->
        CHOOSE v \in V : Cardinality({w \in V : ListedBefore(w, v)}) = i - 1]

-----------------------------------------------------------------------------
(* LifecycleUtils of arsenal: the rules that match a version, merged into one.
   A transition is among them only when it is due and would change the store.  *)
DueTransition(T, days, store) ==
    LET D == {t \in T : t.days <= days} IN
    IF D = {} THEN None
    ELSE LET t == CHOOSE t \in D : t.days = Greatest({u.days : u \in D}) IN
         IF t.store = store THEN None ELSE t.store

FilterRules(rules, v) == {r \in rules : r.enabled /\ IsPrefix(r.prefix, v.key)}

ApplicableRules(rules, v, stale) ==
    LET F == FilterRules(rules, v)
        E == {r \in F : r.ncve # None} IN
    [exp   |-> LeastOrNone(Days({r.exp : r \in F})),
     eodm  |-> \E r \in F : r.eodm,
     trans |-> DueTransition(UNION {r.trans : r \in F}, Age[v.id], v.store),
     ncve  |-> LeastOrNone({r.ncve : r \in E}),
     newer |-> IF E = {} THEN 0
               ELSE (CHOOSE r \in E : r.ncve = Least({q.ncve : q \in E})).newer,
     ncvt  |-> IF stale = None THEN None
               ELSE DueTransition(UNION {r.ncvt : r \in F}, stale, v.store)]

Reached(days, limit) == limit # None /\ days # None /\ days >= limit

-----------------------------------------------------------------------------
(* Version 1 of the task: whole listings, the rules compared with each entry.  *)

(* _addStaleDateToVersions: a noncurrent version is stale since its predecessor
   in the list was written, which for the first of a page is what the entry
   carries, if it is about the same key.                                       *)
AddStaleDate(V, list, i, details) ==
    IF Current(V, list[i]) THEN None
    ELSE IF i > 1 THEN Age[list[i - 1].id]
    ELSE IF details.at # None /\ details.at.key = list[1].key THEN details.prev
    ELSE None

IsRuleApplying(r, v) ==
    Reached(Age[v.id], r.exp) \/ \E t \in r.trans : Age[v.id] >= t.days

IsEntityEligible(rules, v, latest, stale) ==
    \/ latest /\ v.dm
    \/ \E r \in rules :
         /\ r.enabled
         /\ \/ latest /\ IsRuleApplying(r, v)
            \/ ~latest
               /\ \/ stale = None
                  \/ Reached(stale, r.ncve)
                  \/ \E t \in r.ncvt : Age[v.id] >= t.days

-----------------------------------------------------------------------------
(* Version 2: the rules are reduced to as few listings as possible, and each
   listing only returns the entries that are old enough.                       *)

(* _aggregateByPrefix: a listing is shared with the previous one when its prefix
   starts with the previous one's.  A store to leave out is kept only as long
   as all the rules of the listing have it.                                    *)
AggregateByPrefix(listings, type, prefix, days, store) ==
    IF days = None THEN listings
    ELSE IF listings # <<>> /\ IsPrefix(Last(listings).prefix, prefix)
    THEN LET l == Last(listings) IN
         [listings EXCEPT ![Len(listings)] =
            [l EXCEPT !.days = Least({@, days}),
                      !.store = IF @ = store THEN @ ELSE None]]
    ELSE Append(listings, [type |-> type, prefix |-> prefix, days |-> days, store |-> store])

OnlyStore(T) == IF Cardinality(T) = 1 THEN (CHOOSE t \in T : TRUE).store ELSE None

ReduceCurrentRules(r, listings) ==
    AggregateByPrefix(listings, "current", r.prefix,
        LeastOrNone(Days({r.exp}) \union {t.days : t \in r.trans}),
        IF r.exp = None /\ ~r.eodm THEN OnlyStore(r.trans) ELSE None)

(* Faulty variant: the days of the transitions alone decide. *)
ReduceNonCurrentRulesLate(r, listings) ==
    AggregateByPrefix(listings, "noncurrent", r.prefix,
        IF r.ncve # None THEN r.ncve ELSE LeastOrNone({t.days : t \in r.ncvt}),
        OnlyStore(r.ncvt))

ReduceNonCurrentRules(r, listings) ==
    AggregateByPrefix(listings, "noncurrent", r.prefix,
        LeastOrNone(Days({r.ncve}) \union {t.days : t \in r.ncvt}),
        OnlyStore(r.ncvt))

ReduceOrphanDeleteMarkerRule(r, listings) ==
    AggregateByPrefix(listings, "orphan", r.prefix,
        IF r.exp # None THEN r.exp ELSE IF r.eodm THEN 0 ELSE None, None)

(* _sortByPrefix, then each kind of listing; disabled rules count for nothing. *)
SortByPrefix(rules) == SetToSortSeq(rules, LAMBDA r, q : KeyBefore(r.prefix, q.prefix))

ToListings(rules, versioned) ==
    LET sorted == SortByPrefix({r \in rules : r.enabled})
        Reduce(Op(_, _)) == FoldLeft(LAMBDA acc, r : Op(r, acc), <<>>, sorted) IN
    Reduce(ReduceCurrentRules) \o
        (IF versioned
         THEN Reduce(ReduceNonCurrentRules) \o Reduce(ReduceOrphanDeleteMarkerRule)
         ELSE <<>>)

(* listLifecycle, served by CloudServer: the versions a listing returns.  It
   knows since when a noncurrent version is stale.                             *)
StaleOf(V, v) ==
    IF Current(V, v) THEN None ELSE Age[Least({w.id : w \in NewerOf(V, v)})]

Listed(V, l) ==
    {v \in V :
       /\ IsPrefix(l.prefix, v.key)
       /\ l.store = None \/ v.store # l.store
       /\ CASE l.type = "current" -> Current(V, v) /\ ~v.dm /\ Age[v.id] >= l.days
            [] l.type = "noncurrent" -> ~Current(V, v) /\ StaleOf(V, v) >= l.days
            [] l.type = "orphan" ->
                 v.dm /\ {w \in V : w.key = v.key} = {v} /\ Age[v.id] >= l.days}

-----------------------------------------------------------------------------
(* The latest noncurrent versions of an object, which the rule keeps: a heap of
   at most `newer' of them, a bag of ids.  What it returns is to be expired.   *)

(* Faulty variant: one version too many is kept. *)
NcvHeapAddOneMore(heap, id, newer) ==
    IF BagCardinality(heap) <= newer THEN [heap |-> heap (+) SetToBag({id}), expire |-> None]
    ELSE LET top == Least(BagToSet(heap)) IN
         IF id < top THEN [heap |-> heap, expire |-> id]
         ELSE [heap |-> (heap (-) SetToBag({top})) (+) SetToBag({id}), expire |-> top]

NcvHeapAdd(heap, id, newer) ==
    IF BagCardinality(heap) < newer THEN [heap |-> heap (+) SetToBag({id}), expire |-> None]
    ELSE LET top == Least(BagToSet(heap)) IN
         IF id < top THEN [heap |-> heap, expire |-> id]
         ELSE [heap |-> (heap (-) SetToBag({top})) (+) SetToBag({id}), expire |-> top]
=============================================================================
