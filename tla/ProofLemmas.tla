---------------------------- MODULE ProofLemmas ----------------------------
(* Facts about natural numbers and sequences that the proofs of several      *)
(* components rest on.  Induction is stated over a set of numbers, which the *)
(* provers instantiate like any other variable.                              *)
EXTENDS Integers, Sequences, FiniteSets, SequencesExt, Selections, TLAPS,
        WellFoundedInduction, SequenceTheorems, FiniteSetTheorems

(* Every non-empty set of natural numbers has a least element *)
LEMMA LeastNatural ==
    ASSUME NEW T, T \subseteq Nat, T # {}
    PROVE  \E x \in T : \A y \in T : x <= y
<1> DEFINE R == OpToRel(<, Nat)
<1>1. \A x, y \in Nat : <<x, y>> \in R <=> x < y
  BY DEF OpToRel
<1>2. IsWellFoundedOn(R, Nat)
  BY NatLessThanWellFounded, Zenon DEF OpToRel
<1> HIDE DEF R
<1>3. PICK x \in T : \A y \in T : ~(<<y, x>> \in R)
  BY <1>2, WFMin
<1>4. \A y \in T : x <= y
  <2> TAKE y \in T
  <2>1. x \in Nat /\ y \in Nat /\ ~(<<y, x>> \in R)
    BY <1>3
  <2>2. ~(y < x)
    BY <1>1, <2>1
  <2> QED BY <2>1, <2>2
<1> QED BY <1>3, <1>4

(* A set that holds 0 and, with a number, the next one, holds all of them *)
LEMMA NatSetInduction ==
    ASSUME NEW S, 0 \in S, \A n \in Nat : n \in S => n + 1 \in S
    PROVE  \A n \in Nat : n \in S
<1> DEFINE T == {n \in Nat : n \notin S}
<1>1. SUFFICES ASSUME T # {} PROVE FALSE
  OBVIOUS
<1>2. PICK x \in T : \A y \in T : x <= y
  <2>1. T \subseteq Nat
    OBVIOUS
  <2> HIDE DEF T
  <2> QED BY <1>1, <2>1, LeastNatural
<1>3. x \in Nat /\ x # 0 /\ x - 1 \in Nat
  BY <1>2
<1>4. x - 1 \in S
  BY <1>2, <1>3
<1> QED BY <1>2, <1>3, <1>4

(* What RemoveAt leaves: the elements before i, then those after it *)
LEMMA RemoveAtProperties ==
    ASSUME NEW S, NEW q \in Seq(S), NEW i \in 1 .. Len(q)
    PROVE  /\ RemoveAt(q, i) \in Seq(S)
           /\ Len(RemoveAt(q, i)) = Len(q) - 1
           /\ \A j \in 1 .. Len(q) - 1 :
                RemoveAt(q, i)[j] = IF j < i THEN q[j] ELSE q[j + 1]
<1> DEFINE a == SubSeq(q, 1, i - 1)
           b == SubSeq(q, i + 1, Len(q))
<1>0. Len(q) \in Nat /\ i \in Nat /\ \A j \in 1 .. Len(q) : q[j] \in S
  OBVIOUS
<1>1. /\ a \in Seq(S) /\ Len(a) = i - 1
      /\ \A j \in 1 .. i - 1 : a[j] = q[j]
  <2>1. \A j \in 1 .. i - 1 : q[j] \in S
    BY <1>0
  <2>2. /\ a \in Seq(S)
        /\ Len(a) = IF 1 <= i - 1 THEN i - 1 - 1 + 1 ELSE 0
        /\ \A j \in 1 .. (i - 1) - 1 + 1 : a[j] = q[1 + j - 1]
    BY <1>0, <2>1, SubSeqProperties
  <2> QED BY <1>0, <2>2
<1>2. /\ b \in Seq(S) /\ Len(b) = Len(q) - i
      /\ \A j \in 1 .. Len(q) - i : b[j] = q[i + j]
  <2>1. \A j \in i + 1 .. Len(q) : q[j] \in S
    BY <1>0
  <2>2. /\ b \in Seq(S)
        /\ Len(b) = IF i + 1 <= Len(q) THEN Len(q) - (i + 1) + 1 ELSE 0
        /\ \A j \in 1 .. Len(q) - (i + 1) + 1 : b[j] = q[i + 1 + j - 1]
    BY <1>0, <2>1, SubSeqProperties
  <2> QED BY <1>0, <2>2
<1> HIDE DEF a, b
<1>3. /\ a \o b \in Seq(S) /\ Len(a \o b) = Len(q) - 1
      /\ \A j \in 1 .. Len(q) - 1 : (a \o b)[j] =
            IF j <= Len(a) THEN a[j] ELSE b[j - Len(a)]
  <2>1. /\ a \o b \in Seq(S)
        /\ Len(a \o b) = Len(a) + Len(b)
        /\ \A j \in 1 .. Len(a) + Len(b) : (a \o b)[j] =
               IF j <= Len(a) THEN a[j] ELSE b[j - Len(a)]
    BY <1>1, <1>2, ConcatProperties
  <2> QED BY <1>0, <1>1, <1>2, <2>1
<1>4. \A j \in 1 .. Len(q) - 1 : (a \o b)[j] = IF j < i THEN q[j] ELSE q[j + 1]
  <2> TAKE j \in 1 .. Len(q) - 1
  <2>1. CASE j < i
    BY <2>1, <1>0, <1>1, <1>3
  <2>2. CASE ~(j < i)
    <3>1. j - Len(a) \in 1 .. Len(q) - i /\ ~(j <= Len(a)) /\ i + (j - Len(a)) = j + 1
      BY <2>2, <1>0, <1>1
    <3> QED BY <2>2, <3>1, <1>2, <1>3
  <2> QED BY <2>1, <2>2
<1> QED BY <1>3, <1>4 DEF RemoveAt, a, b

(* Flattening puts one sequence after another.  The recursive function of    *)
(* FlattenSeq exists, by induction on the length of its domain               *)
LEMMA FlattenSteps ==
    ASSUME NEW S, NEW seqs \in Seq(Seq(S)), Len(seqs) # 0
    PROVE  \E f : /\ FlattenSeq(seqs) = f[Len(seqs)]
                  /\ \A n \in 1 .. Len(seqs) : f[n] \in Seq(S)
                  /\ \A n \in 1 .. Len(seqs) :
                        f[n] = IF n = 1 THEN seqs[n] ELSE f[n - 1] \o seqs[n]
<1> DEFINE Rec(f, n) == /\ f \in [1 .. n -> Seq(S)]
                        /\ \A i \in 1 .. n : f[i] = IF i = 1 THEN seqs[i]
                                                    ELSE f[i - 1] \o seqs[i]
           Good == {n \in Nat : n <= Len(seqs) => \E f : Rec(f, n)}
<1>0. Len(seqs) \in Nat /\ \A i \in 1 .. Len(seqs) : seqs[i] \in Seq(S)
  OBVIOUS
<1>1. 0 \in Good
  <2>1. Rec([i \in 1 .. 0 |-> <<>>], 0)
    OBVIOUS
  <2> QED BY <2>1
<1>2. ASSUME NEW n \in Nat, n \in Good
      PROVE  n + 1 \in Good
  <2> HIDE DEF Rec
  <2>1. SUFFICES ASSUME n + 1 <= Len(seqs) PROVE \E f : Rec(f, n + 1)
    OBVIOUS
  <2>2. PICK f : Rec(f, n)
    BY <1>0, <1>2, <2>1
  <2> USE DEF Rec
  <2> DEFINE e == IF n = 0 THEN seqs[1] ELSE f[n] \o seqs[n + 1]
             g == [i \in 1 .. n + 1 |-> IF i = n + 1 THEN e ELSE f[i]]
  <2>3. e \in Seq(S)
    <3>1. CASE n = 0
      BY <1>0, <2>1, <3>1
    <3>2. CASE n # 0
      <4>1. f[n] \in Seq(S) /\ seqs[n + 1] \in Seq(S)
        BY <1>0, <2>1, <2>2, <3>2
      <4>2. f[n] \o seqs[n + 1] \in Seq(S)
        BY <4>1, ConcatProperties
      <4> QED BY <3>2, <4>2
    <3> QED BY <3>1, <3>2
  <2> HIDE DEF e
  <2>4. g \in [1 .. n + 1 -> Seq(S)]
    BY <2>2, <2>3
  <2>5. ASSUME NEW i \in 1 .. n + 1
        PROVE  g[i] = IF i = 1 THEN seqs[i] ELSE g[i - 1] \o seqs[i]
    <3>1. CASE i = n + 1
      BY <3>1 DEF e
    <3>2. CASE i # n + 1
      <4>1. i \in 1 .. n /\ g[i] = f[i] /\ (i # 1 => i - 1 \in 1 .. n + 1 /\ g[i - 1] = f[i - 1])
        BY <3>2
      <4> QED BY <4>1, <2>2
    <3> QED BY <3>1, <3>2
  <2> QED BY <2>4, <2>5
<1>3. Len(seqs) \in Good
  <2> HIDE DEF Good
  <2> QED BY <1>0, <1>1, <1>2, NatSetInduction
<1>4. PICK f : Rec(f, Len(seqs))
  BY <1>0, <1>3
<1> DEFINE F == [i \in 1 .. Len(seqs) |-> IF i = 1 THEN seqs[i] ELSE f[i - 1] \o seqs[i]]
<1>5. f = F
  BY <1>4
<1> DEFINE flatten[i \in 1 .. Len(seqs)] ==
      IF i = 1 THEN seqs[i] ELSE flatten[i - 1] \o seqs[i]
<1>6. flatten = [i \in 1 .. Len(seqs) |->
                   IF i = 1 THEN seqs[i] ELSE flatten[i - 1] \o seqs[i]]
  BY <1>5
<1>7. FlattenSeq(seqs) = flatten[Len(seqs)]
  BY DEF FlattenSeq
<1> HIDE DEF flatten
<1>8. ASSUME NEW n \in 1 .. Len(seqs)
      PROVE  flatten[n] = IF n = 1 THEN seqs[n] ELSE flatten[n - 1] \o seqs[n]
  BY <1>6
<1> DEFINE Typed == {n \in Nat : n + 1 <= Len(seqs) => flatten[n + 1] \in Seq(S)}
<1>9. 0 \in Typed
  BY <1>0, <1>8
<1>10. ASSUME NEW n \in Nat, n \in Typed
       PROVE  n + 1 \in Typed
  <2>1. SUFFICES ASSUME n + 2 <= Len(seqs) PROVE flatten[n + 2] \in Seq(S)
    BY <1>0
  <2>2. flatten[n + 1] \in Seq(S) /\ seqs[n + 2] \in Seq(S)
    BY <1>10, <2>1, <1>0
  <2>3. n + 2 \in 1 .. Len(seqs) /\ n + 2 # 1 /\ (n + 2) - 1 = n + 1
    BY <2>1, <1>0
  <2>4. flatten[n + 2] = flatten[(n + 2) - 1] \o seqs[n + 2]
    BY <1>8, <2>3
  <2> QED BY <2>2, <2>3, <2>4, ConcatProperties
<1>11. \A n \in 1 .. Len(seqs) : flatten[n] \in Seq(S)
  <2>1. \A n \in Nat : n \in Typed
    <3> HIDE DEF Typed
    <3> QED BY <1>9, <1>10, NatSetInduction
  <2> SUFFICES ASSUME NEW n \in 1 .. Len(seqs) PROVE flatten[n] \in Seq(S)
    OBVIOUS
  <2>2. n - 1 \in Nat /\ (n - 1) + 1 = n /\ n <= Len(seqs)
    BY <1>0
  <2>3. n - 1 \in Typed
    BY <2>1, <2>2
  <2> QED BY <2>2, <2>3
<1> QED BY <1>7, <1>8, <1>11

(* Flattening sequences over S gives a sequence over S *)
LEMMA FlattenSeqType ==
    ASSUME NEW S, NEW seqs \in Seq(Seq(S))
    PROVE  FlattenSeq(seqs) \in Seq(S)
<1>1. CASE Len(seqs) = 0
  <2>1. seqs = <<>>
    BY <1>1, EmptySeq
  <2> QED BY <1>1, <2>1 DEF FlattenSeq
<1>2. CASE Len(seqs) # 0
  <2>1. Len(seqs) \in 1 .. Len(seqs)
    BY <1>2
  <2> QED BY <1>2, <2>1, FlattenSteps
<1> QED BY <1>1, <1>2

-----------------------------------------------------------------------------
(* Sums of a function over a finite set *)

SumOver(t, S) == MapThenSumSet(LAMBDA x : t[x], S)

(* The subsets of S with at most n elements *)
SmallSubsets(S, n) == {s \in SUBSET S : Cardinality(s) <= n}

Pick(s) == CHOOSE x \in s : TRUE

(* g adds t up over every set of D: one element, then what remains *)
AddsUp(g, t, D) ==
    /\ g \in [D -> Nat]
    /\ \A s \in D : g[s] = IF s = {} THEN 0 ELSE t[Pick(s)] + g[s \ {Pick(s)}]

(* Taking the picked element away makes a finite set smaller *)
LEMMA PickRemoved ==
    ASSUME NEW S, IsFiniteSet(S), NEW n \in Nat, NEW s \in SmallSubsets(S, n + 1), s # {}
    PROVE  /\ Pick(s) \in s /\ Pick(s) \in S
           /\ s \ {Pick(s)} \in SmallSubsets(S, n)
<1>1. Pick(s) \in s /\ s \subseteq S /\ Cardinality(s) <= n + 1
  BY DEF Pick, SmallSubsets
<1>2. IsFiniteSet(s) /\ Cardinality(s) \in Nat
  BY <1>1, FS_Subset, FS_CardinalityType
<1>3. Cardinality(s \ {Pick(s)}) = Cardinality(s) - 1
  BY <1>1, <1>2, FS_RemoveElement
<1> QED BY <1>1, <1>2, <1>3 DEF SmallSubsets

(* The subsets with no element: the empty one *)
LEMMA NoElements ==
    ASSUME NEW S, IsFiniteSet(S)
    PROVE  SmallSubsets(S, 0) = {{}} /\ SmallSubsets(S, Cardinality(S)) = SUBSET S
<1>1. ASSUME NEW s \in SUBSET S
      PROVE  /\ Cardinality(s) \in Nat /\ Cardinality(s) <= Cardinality(S)
             /\ Cardinality(s) = 0 <=> s = {}
  BY FS_Subset, FS_CardinalityType, FS_EmptySet
<1>2. ASSUME NEW s \in SmallSubsets(S, 0) PROVE s = {}
  BY <1>1, <1>2 DEF SmallSubsets
<1>3. {} \in SmallSubsets(S, 0)
  BY FS_EmptySet DEF SmallSubsets
<1>4. SmallSubsets(S, Cardinality(S)) = SUBSET S
  BY <1>1 DEF SmallSubsets
<1> QED BY <1>2, <1>3, <1>4

(* The recursive function behind SumOver exists, by induction on the size *)
LEMMA AddsUpExists ==
    ASSUME NEW S, IsFiniteSet(S), NEW t \in [S -> Nat]
    PROVE  \E g : AddsUp(g, t, SUBSET S)
<1> DEFINE Good == {n \in Nat : \E g : AddsUp(g, t, SmallSubsets(S, n))}
<1>1. 0 \in Good
  <2>1. AddsUp([s \in {{}} |-> 0], t, {{}})
    BY DEF AddsUp
  <2> QED BY <2>1, NoElements
<1>2. ASSUME NEW n \in Nat, n \in Good
      PROVE  n + 1 \in Good
  <2>1. PICK g : AddsUp(g, t, SmallSubsets(S, n))
    BY <1>2
  <2> DEFINE D == SmallSubsets(S, n + 1)
             h == [s \in D |-> IF s = {} THEN 0 ELSE t[Pick(s)] + g[s \ {Pick(s)}]]
  <2>2. ASSUME NEW s \in D, s # {}
        PROVE  /\ Pick(s) \in S /\ s \ {Pick(s)} \in SmallSubsets(S, n)
               /\ s \ {Pick(s)} \in D
    <3>1. Pick(s) \in S /\ s \ {Pick(s)} \in SmallSubsets(S, n)
      BY <2>2, PickRemoved
    <3>2. Cardinality(s \ {Pick(s)}) \in Nat
      <4>1. IsFiniteSet(s \ {Pick(s)})
        BY <3>1, FS_Subset DEF SmallSubsets
      <4> QED BY <4>1, FS_CardinalityType
    <3> QED BY <3>1, <3>2 DEF SmallSubsets
  <2>3. h \in [D -> Nat]
    <3>1. ASSUME NEW s \in D, s # {} PROVE t[Pick(s)] + g[s \ {Pick(s)}] \in Nat
      BY <2>1, <2>2, <3>1 DEF AddsUp
    <3> QED BY <3>1
  <2>4. \A s \in SmallSubsets(S, n) : s \in D => h[s] = g[s]
    BY <2>1 DEF AddsUp
  <2> HIDE DEF D
  <2>5. \A s \in D : h[s] = IF s = {} THEN 0 ELSE t[Pick(s)] + h[s \ {Pick(s)}]
    BY <2>2, <2>4
  <2>6. AddsUp(h, t, D)
    BY <2>3, <2>5 DEF AddsUp
  <2> HIDE DEF h
  <2> USE DEF D
  <2> QED BY <2>6
<1>3. Cardinality(S) \in Good
  <2>1. Cardinality(S) \in Nat
    BY FS_CardinalityType
  <2> HIDE DEF Good
  <2> QED BY <1>1, <1>2, <2>1, NatSetInduction
<1> QED BY <1>3, NoElements

(* SumOver is the value at S of a function that adds t up over its subsets *)
LEMMA SumOverAddsUp ==
    ASSUME NEW S, IsFiniteSet(S), NEW t \in [S -> Nat]
    PROVE  \E g : AddsUp(g, t, SUBSET S) /\ SumOver(t, S) = g[S]
<1> DEFINE iter[s \in SUBSET S] ==
        IF s = {} THEN 0 ELSE LET x == CHOOSE x \in s : TRUE IN t[x] + iter[s \ {x}]
<1>1. PICK g : AddsUp(g, t, SUBSET S)
  BY AddsUpExists
<1>2. g = [s \in SUBSET S |-> IF s = {} THEN 0 ELSE LET x == CHOOSE x \in s : TRUE IN t[x] + g[s \ {x}]]
  BY <1>1 DEF AddsUp, Pick
<1>3. iter = [s \in SUBSET S |-> IF s = {} THEN 0 ELSE LET x == CHOOSE x \in s : TRUE IN t[x] + iter[s \ {x}]]
  BY <1>2
<1>4. SumOver(t, S) = iter[S]
  BY DEF SumOver, MapThenSumSet, MapThenFoldSet
<1>5. PICK f : /\ SumOver(t, S) = f[S]
                /\ f = [s \in SUBSET S |-> IF s = {} THEN 0 ELSE LET x == CHOOSE x \in s : TRUE IN t[x] + f[s \ {x}]]
  <2> HIDE DEF iter
  <2> QED BY <1>3, <1>4
<1>6. \A s \in SUBSET S : f[s] = IF s = {} THEN 0 ELSE t[Pick(s)] + f[s \ {Pick(s)}]
  BY <1>5 DEF Pick
<1> DEFINE Typed == {n \in Nat : \A s \in SmallSubsets(S, n) : f[s] \in Nat}
<1>7. 0 \in Typed
  <2>1. f[{}] = 0
    BY <1>6
  <2>2. \A s \in SmallSubsets(S, 0) : f[s] = f[{}]
    BY NoElements, Zenon
  <2> QED BY <2>1, <2>2
<1>8. ASSUME NEW n \in Nat, n \in Typed, NEW s \in SmallSubsets(S, n + 1)
      PROVE  f[s] \in Nat
  <2>1. CASE s = {}
    <3>1. s \in SUBSET S
      BY <2>1
    <3> QED BY <2>1, <3>1, <1>6
  <2>2. CASE s # {}
    <3>1. Pick(s) \in S /\ s \ {Pick(s)} \in SmallSubsets(S, n) /\ s \in SUBSET S
      BY <2>2, PickRemoved DEF SmallSubsets
    <3>2. f[s \ {Pick(s)}] \in Nat /\ t[Pick(s)] \in Nat
      BY <1>8, <3>1
    <3> QED BY <2>2, <3>1, <3>2, <1>6
  <2> QED BY <2>1, <2>2
<1>9. Cardinality(S) \in Typed
  <2>1. Cardinality(S) \in Nat
    BY FS_CardinalityType
  <2>2. \A n \in Nat : n \in Typed => n + 1 \in Typed
    BY <1>8
  <2> HIDE DEF Typed
  <2> QED BY <1>7, <2>1, <2>2, NatSetInduction
<1>10. AddsUp(f, t, SUBSET S)
  <2>1. f \in [SUBSET S -> Nat]
    BY <1>5, <1>9, NoElements
  <2> QED BY <1>6, <2>1 DEF AddsUp
<1> QED BY <1>5, <1>10

(* A sum of natural numbers is one *)
LEMMA SumOverType ==
    ASSUME NEW S, IsFiniteSet(S), NEW t \in [S -> Nat]
    PROVE  SumOver(t, S) \in Nat
<1>1. PICK g : AddsUp(g, t, SUBSET S) /\ SumOver(t, S) = g[S]
  BY SumOverAddsUp
<1> QED BY <1>1 DEF AddsUp

(* A sum of zeros is zero *)
LEMMA SumOverZero ==
    ASSUME NEW S, IsFiniteSet(S), NEW t \in [S -> Nat], \A x \in S : t[x] = 0
    PROVE  SumOver(t, S) = 0
<1>1. PICK g : AddsUp(g, t, SUBSET S) /\ SumOver(t, S) = g[S]
  BY SumOverAddsUp
<1> DEFINE Zero == {n \in Nat : \A s \in SmallSubsets(S, n) : g[s] = 0}
<1>2. 0 \in Zero
  <2>1. g[{}] = 0
    BY <1>1 DEF AddsUp
  <2>2. \A s \in SmallSubsets(S, 0) : s = {}
    BY NoElements
  <2> QED BY <2>1, <2>2
<1>3. ASSUME NEW n \in Nat, n \in Zero, NEW s \in SmallSubsets(S, n + 1)
      PROVE  g[s] = 0
  <2>1. CASE s = {}
    BY <2>1, <1>1 DEF AddsUp
  <2>2. CASE s # {}
    <3>1. Pick(s) \in S /\ s \ {Pick(s)} \in SmallSubsets(S, n) /\ s \in SUBSET S
      BY <2>2, PickRemoved DEF SmallSubsets
    <3>2. g[s] = t[Pick(s)] + g[s \ {Pick(s)}]
      BY <1>1, <2>2, <3>1 DEF AddsUp
    <3> QED BY <1>3, <3>1, <3>2
  <2> QED BY <2>1, <2>2
<1>4. Cardinality(S) \in Zero
  <2>1. Cardinality(S) \in Nat
    BY FS_CardinalityType
  <2>2. \A n \in Nat : n \in Zero => n + 1 \in Zero
    BY <1>3
  <2> HIDE DEF Zero
  <2> QED BY <1>2, <2>1, <2>2, NatSetInduction
<1> QED BY <1>1, <1>4, NoElements

(* Adding d to one value adds d to the sum *)
LEMMA SumOverUpdate ==
    ASSUME NEW S, IsFiniteSet(S), NEW t \in [S -> Nat], NEW a \in S,
           NEW d \in Int, t[a] + d \in Nat
    PROVE  SumOver([t EXCEPT ![a] = @ + d], S) = SumOver(t, S) + d
<1> DEFINE u == [t EXCEPT ![a] = @ + d]
<1>0. u \in [S -> Nat] /\ \A x \in S : u[x] = t[x] + (IF x = a THEN d ELSE 0)
  OBVIOUS
<1> HIDE DEF u
<1>1. PICK g : AddsUp(g, t, SUBSET S) /\ SumOver(t, S) = g[S]
  BY SumOverAddsUp
<1>2. PICK h : AddsUp(h, u, SUBSET S) /\ SumOver(u, S) = h[S]
  BY <1>0, SumOverAddsUp
<1> DEFINE Shift(s) == IF a \in s THEN d ELSE 0
           Shifted == {n \in Nat : \A s \in SmallSubsets(S, n) : h[s] = g[s] + Shift(s)}
<1>3. 0 \in Shifted
  <2>1. g[{}] = 0 /\ h[{}] = 0
    BY <1>1, <1>2 DEF AddsUp
  <2>2. Shift({}) = 0
    OBVIOUS
  <2> HIDE DEF Shift
  <2>3. \A s \in SmallSubsets(S, 0) : h[s] = h[{}] /\ g[s] = g[{}] /\ Shift(s) = Shift({})
    BY NoElements, Zenon
  <2>4. \A s \in SmallSubsets(S, 0) : h[s] = g[s] + Shift(s)
    BY <2>1, <2>2, <2>3
  <2> QED BY <2>4
<1>4. ASSUME NEW n \in Nat, n \in Shifted, NEW s \in SmallSubsets(S, n + 1)
      PROVE  h[s] = g[s] + Shift(s)
  <2>1. CASE s = {}
    <3>1. s \in SUBSET S /\ Shift(s) = 0
      BY <2>1
    <3>2. g[s] = 0 /\ h[s] = 0
      BY <2>1, <3>1, <1>1, <1>2 DEF AddsUp
    <3> HIDE DEF Shift
    <3> QED BY <3>1, <3>2
  <2>2. CASE s # {}
    <3> DEFINE p == Pick(s)
               r == s \ {p}
    <3>1. p \in s /\ p \in S /\ r \in SmallSubsets(S, n) /\ s \in SUBSET S /\ r \in SUBSET S
      BY <2>2, PickRemoved DEF SmallSubsets
    <3>2. g[s] = t[p] + g[r] /\ h[s] = u[p] + h[r] /\ g[r] \in Nat /\ t[p] \in Nat
      BY <1>1, <1>2, <2>2, <3>1 DEF AddsUp
    <3>3. h[r] = g[r] + Shift(r)
      BY <1>4, <3>1
    <3>4. CASE p = a
      <4>1. Shift(r) = 0 /\ Shift(s) = d /\ u[p] = t[p] + d
        BY <3>1, <3>4, <1>0
      <4> HIDE DEF Shift, p, r
      <4> QED BY <4>1, <3>2, <3>3
    <3>5. CASE p # a
      <4>1. Shift(r) = Shift(s) /\ Shift(s) \in Int /\ u[p] = t[p]
        BY <3>1, <3>5, <1>0
      <4> HIDE DEF Shift, p, r
      <4> QED BY <4>1, <3>2, <3>3
    <3> QED BY <3>4, <3>5
  <2> QED BY <2>1, <2>2
<1>5. Cardinality(S) \in Shifted
  <2>1. Cardinality(S) \in Nat
    BY FS_CardinalityType
  <2>2. \A n \in Nat : n \in Shifted => n + 1 \in Shifted
    BY <1>4
  <2> HIDE DEF Shifted
  <2> QED BY <1>3, <2>1, <2>2, NatSetInduction
<1>6. h[S] = g[S] + d
  BY <1>5, NoElements
<1> QED BY <1>1, <1>2, <1>6 DEF u

(* A selection is a sequence of members of both.  The recursive function of    *)
(* Selected exists, by induction on the length of its domain, and what it has  *)
(* kept of the first n members is such a sequence, by induction on n           *)
LEMMA SelectedSteps ==
    ASSUME NEW T, NEW s \in Seq(T), NEW S
    PROVE  \E f : /\ Selected(s, S) = f[Len(s)] /\ f[0] = <<>>
                  /\ \A n \in 0 .. Len(s) : f[n] \in Seq(T \cap S)
                  /\ \A n \in 1 .. Len(s) :
                        f[n] = IF s[n] \in S THEN Append(f[n - 1], s[n]) ELSE f[n - 1]
<1> DEFINE Rec(f, n) == /\ f \in [0 .. n -> Seq(T \cap S)]
                        /\ f[0] = <<>>
                        /\ \A i \in 1 .. n : f[i] = IF s[i] \in S THEN Append(f[i - 1], s[i])
                                                    ELSE f[i - 1]
           Good == {n \in Nat : n <= Len(s) => \E f : Rec(f, n)}
<1>0. Len(s) \in Nat /\ \A i \in 1 .. Len(s) : s[i] \in T
  OBVIOUS
<1>1. 0 \in Good
  <2>1. Rec([i \in 0 .. 0 |-> <<>>], 0)
    OBVIOUS
  <2> QED BY <2>1
<1>2. ASSUME NEW n \in Nat, n \in Good
      PROVE  n + 1 \in Good
  <2> HIDE DEF Rec
  <2>1. SUFFICES ASSUME n + 1 <= Len(s) PROVE \E f : Rec(f, n + 1)
    OBVIOUS
  <2>2. PICK f : Rec(f, n)
    BY <1>0, <1>2, <2>1
  <2> USE DEF Rec
  <2> DEFINE e == IF s[n + 1] \in S THEN Append(f[n], s[n + 1]) ELSE f[n]
             g == [i \in 0 .. n + 1 |-> IF i = n + 1 THEN e ELSE f[i]]
  <2>3. e \in Seq(T \cap S)
    <3>1. f[n] \in Seq(T \cap S) /\ s[n + 1] \in T
      BY <1>0, <2>1, <2>2
    <3>2. s[n + 1] \in S => s[n + 1] \in T \cap S
      BY <3>1
    <3> QED BY <3>1, <3>2
  <2> HIDE DEF e
  <2>4. g \in [0 .. n + 1 -> Seq(T \cap S)] /\ g[0] = <<>>
    BY <2>2, <2>3
  <2>5. ASSUME NEW i \in 1 .. n + 1
        PROVE  g[i] = IF s[i] \in S THEN Append(g[i - 1], s[i]) ELSE g[i - 1]
    <3>1. CASE i = n + 1
      BY <3>1 DEF e
    <3>2. CASE i # n + 1
      <4>1. i \in 1 .. n /\ g[i] = f[i] /\ i - 1 \in 0 .. n + 1 /\ g[i - 1] = f[i - 1]
        BY <3>2
      <4> QED BY <4>1, <2>2
    <3> QED BY <3>1, <3>2
  <2> QED BY <2>4, <2>5
<1>3. Len(s) \in Good
  <2> HIDE DEF Good
  <2> QED BY <1>0, <1>1, <1>2, NatSetInduction
<1>4. PICK f : Rec(f, Len(s))
  BY <1>0, <1>3
<1>5. f = [n \in 0 .. Len(s) |->
             IF n = 0 THEN <<>> ELSE IF s[n] \in S THEN Append(f[n - 1], s[n]) ELSE f[n - 1]]
  <2> DEFINE Next(n) == IF n = 0 THEN <<>>
                        ELSE IF s[n] \in S THEN Append(f[n - 1], s[n]) ELSE f[n - 1]
  <2>1. ASSUME NEW n \in 0 .. Len(s) PROVE f[n] = Next(n)
    <3>1. CASE n = 0
      BY <1>4, <3>1
    <3>2. CASE n # 0
      <4>1. n \in 1 .. Len(s)
        BY <1>0, <3>2
      <4> QED BY <1>4, <3>2, <4>1
    <3> QED BY <3>1, <3>2
  <2>2. f = [n \in 0 .. Len(s) |-> f[n]]
    BY <1>4
  <2> HIDE DEF Next
  <2>3. f = [n \in 0 .. Len(s) |-> Next(n)]
    BY <2>1, <2>2, Zenon
  <2> QED BY <2>3 DEF Next
<1> DEFINE kept[n \in 0 .. Len(s)] ==
             IF n = 0 THEN <<>> ELSE IF s[n] \in S THEN Append(kept[n - 1], s[n]) ELSE kept[n - 1]
<1>6. kept = [n \in 0 .. Len(s) |->
                IF n = 0 THEN <<>> ELSE IF s[n] \in S THEN Append(kept[n - 1], s[n]) ELSE kept[n - 1]]
  BY <1>5
<1>7. Selected(s, S) = kept[Len(s)]
  BY DEF Selected
<1> HIDE DEF kept
<1>8. kept[0] = <<>>
  BY <1>0, <1>6
<1>9. ASSUME NEW n \in 1 .. Len(s)
      PROVE  kept[n] = IF s[n] \in S THEN Append(kept[n - 1], s[n]) ELSE kept[n - 1]
  <2>1. n \in 0 .. Len(s) /\ n # 0
    BY <1>0
  <2>2. kept[n] = [m \in 0 .. Len(s) |->
                     IF m = 0 THEN <<>>
                     ELSE IF s[m] \in S THEN Append(kept[m - 1], s[m]) ELSE kept[m - 1]][n]
    BY <1>6, Zenon
  <2> QED BY <2>1, <2>2, Zenon
<1> DEFINE Typed == {n \in Nat : n <= Len(s) => kept[n] \in Seq(T \cap S)}
<1>10. 0 \in Typed
  <2>1. <<>> \in Seq(T \cap S)
    OBVIOUS
  <2> QED BY <1>8, <2>1
<1>11. ASSUME NEW n \in Nat, n \in Typed PROVE n + 1 \in Typed
  <2>1. SUFFICES ASSUME n + 1 <= Len(s) PROVE kept[n + 1] \in Seq(T \cap S)
    OBVIOUS
  <2>2. kept[n] \in Seq(T \cap S) /\ s[n + 1] \in T /\ n + 1 \in 1 .. Len(s)
    BY <1>0, <1>11, <2>1
  <2>3. kept[n + 1] = IF s[n + 1] \in S THEN Append(kept[n], s[n + 1]) ELSE kept[n]
    BY <1>9, <2>2
  <2>4. s[n + 1] \in S => s[n + 1] \in T \cap S
    BY <2>2
  <2> QED BY <2>2, <2>3, <2>4
<1>12. \A n \in 0 .. Len(s) : kept[n] \in Seq(T \cap S)
  <2>1. \A n \in Nat : n \in Typed
    <3> HIDE DEF Typed
    <3> QED BY <1>10, <1>11, NatSetInduction
  <2> QED BY <1>0, <2>1
<1> QED BY <1>7, <1>8, <1>9, <1>12

(* and are of the sequence and of the set *)
LEMMA SelectedType ==
    ASSUME NEW T, NEW s \in Seq(T), NEW S
    PROVE  Selected(s, S) \in Seq(T \cap S)
<1>1. Len(s) \in 0 .. Len(s)
  OBVIOUS
<1> QED BY <1>1, SelectedSteps

-----------------------------------------------------------------------------
(* The last member of a sequence in a set, through concatenation, flattening *)
(* and selection                                                             *)

LastIn(s, S, x) ==
    \E j \in 1 .. Len(s) : s[j] = x /\ x \in S /\ \A k \in (j + 1) .. Len(s) : s[k] \notin S

LEMMA LastExists ==
    ASSUME NEW T, NEW s \in Seq(T), NEW S, NEW i \in 1 .. Len(s), s[i] \in S
    PROVE  \E x \in T : LastIn(s, S, x)
<1> DEFINE D == {n \in Nat : n < Len(s) /\ s[Len(s) - n] \in S}
<1>0. Len(s) \in Nat
  OBVIOUS
<1>1. D \subseteq Nat /\ D # {}
  <2>1. Len(s) - i \in D
    <3>1. Len(s) - i \in Nat /\ Len(s) - i < Len(s) /\ Len(s) - (Len(s) - i) = i
      BY <1>0
    <3> QED BY <3>1
  <2> QED BY <2>1
<1>2. PICK n \in D : \A m \in D : n <= m
  <2> HIDE DEF D
  <2> QED BY <1>1, LeastNatural
<1>3. Len(s) - n \in 1 .. Len(s)
  BY <1>0
<1>4. ASSUME NEW k \in (Len(s) - n + 1) .. Len(s), s[k] \in S PROVE FALSE
  <2>1. Len(s) - k \in Nat /\ Len(s) - k < Len(s) /\ Len(s) - (Len(s) - k) = k /\ Len(s) - k < n
    BY <1>0, <1>3
  <2>2. Len(s) - k \in D
    BY <1>4, <2>1
  <2> QED BY <1>2, <2>1, <2>2
<1>5. s[Len(s) - n] \in T
  BY <1>3
<1> QED BY <1>3, <1>4, <1>5 DEF LastIn

LEMMA LastOfAppend ==
    ASSUME NEW T, NEW s \in Seq(T), NEW S, NEW e \in T
    PROVE  /\ e \in S => LastIn(Append(s, e), S, e)
           /\ \A x : e \notin S /\ LastIn(s, S, x) => LastIn(Append(s, e), S, x)
<1>1. /\ Len(s) \in Nat /\ Len(Append(s, e)) = Len(s) + 1
      /\ \A i \in 1 .. Len(s) : Append(s, e)[i] = s[i]
      /\ Append(s, e)[Len(s) + 1] = e
  BY AppendProperties
<1>2. ASSUME e \in S PROVE LastIn(Append(s, e), S, e)
  BY <1>1, <1>2 DEF LastIn
<1>3. ASSUME NEW x, e \notin S, LastIn(s, S, x) PROVE LastIn(Append(s, e), S, x)
  <2>1. PICK j \in 1 .. Len(s) : s[j] = x /\ x \in S /\ \A k \in (j + 1) .. Len(s) : s[k] \notin S
    BY <1>3 DEF LastIn
  <2>2. \A k \in (j + 1) .. (Len(s) + 1) : Append(s, e)[k] \notin S
    BY <1>1, <1>3, <2>1
  <2> QED BY <1>1, <2>1, <2>2 DEF LastIn
<1> QED BY <1>2, <1>3

LEMMA LastOfConcat ==
    ASSUME NEW T, NEW s \in Seq(T), NEW t \in Seq(T), NEW S
    PROVE  /\ \A x : LastIn(t, S, x) => LastIn(s \o t, S, x)
           /\ \A x : LastIn(s, S, x) /\ (\A i \in 1 .. Len(t) : t[i] \notin S) => LastIn(s \o t, S, x)
<1>1. /\ Len(s) \in Nat /\ Len(t) \in Nat /\ Len(s \o t) = Len(s) + Len(t)
      /\ \A i \in 1 .. Len(s) : (s \o t)[i] = s[i]
      /\ \A i \in 1 .. Len(t) : (s \o t)[Len(s) + i] = t[i]
  <2>1. \A i \in 1 .. Len(t) : Len(s) + i \in 1 .. Len(s) + Len(t) /\ Len(s) + i - Len(s) = i
    OBVIOUS
  <2> QED BY <2>1, ConcatProperties
<1>2. ASSUME NEW x, LastIn(t, S, x) PROVE LastIn(s \o t, S, x)
  <2>1. PICK j \in 1 .. Len(t) : t[j] = x /\ x \in S /\ \A k \in (j + 1) .. Len(t) : t[k] \notin S
    BY <1>2 DEF LastIn
  <2>2. ASSUME NEW k \in (Len(s) + j + 1) .. (Len(s) + Len(t)) PROVE (s \o t)[k] \notin S
    <3>1. k - Len(s) \in (j + 1) .. Len(t) /\ k - Len(s) \in 1 .. Len(t) /\ Len(s) + (k - Len(s)) = k
      BY <1>1
    <3> QED BY <1>1, <2>1, <3>1
  <2>3. Len(s) + j \in 1 .. (Len(s) + Len(t)) /\ (s \o t)[Len(s) + j] = x
    BY <1>1, <2>1
  <2> QED BY <1>1, <2>1, <2>2, <2>3 DEF LastIn
<1>3. ASSUME NEW x, LastIn(s, S, x), \A i \in 1 .. Len(t) : t[i] \notin S
      PROVE  LastIn(s \o t, S, x)
  <2>1. PICK j \in 1 .. Len(s) : s[j] = x /\ x \in S /\ \A k \in (j + 1) .. Len(s) : s[k] \notin S
    BY <1>3 DEF LastIn
  <2>2. ASSUME NEW k \in (j + 1) .. (Len(s) + Len(t)) PROVE (s \o t)[k] \notin S
    <3>1. CASE k <= Len(s)
      BY <1>1, <2>1, <3>1
    <3>2. CASE k > Len(s)
      <4>1. k - Len(s) \in 1 .. Len(t) /\ Len(s) + (k - Len(s)) = k
        BY <1>1, <3>2
      <4> QED BY <1>1, <1>3, <4>1
    <3> QED BY <1>1, <3>1, <3>2
  <2>3. j \in 1 .. (Len(s) + Len(t)) /\ (s \o t)[j] = x
    BY <1>1, <2>1
  <2> QED BY <1>1, <2>1, <2>2, <2>3 DEF LastIn
<1> QED BY <1>2, <1>3

(* Selecting keeps the last member in S when it is selected *)
LEMMA SelectedKeepsLast ==
    ASSUME NEW T, NEW s \in Seq(T), NEW S, NEW K, NEW x, LastIn(s, S, x), x \in K
    PROVE  LastIn(Selected(s, K), S, x)
<1>0. Len(s) \in Nat
  OBVIOUS
<1>1. PICK f : /\ Selected(s, K) = f[Len(s)] /\ f[0] = <<>>
               /\ \A n \in 0 .. Len(s) : f[n] \in Seq(T \cap K)
               /\ \A n \in 1 .. Len(s) :
                     f[n] = IF s[n] \in K THEN Append(f[n - 1], s[n]) ELSE f[n - 1]
  BY SelectedSteps
<1>2. PICK j \in 1 .. Len(s) : s[j] = x /\ x \in S /\ \A k \in (j + 1) .. Len(s) : s[k] \notin S
  BY DEF LastIn
<1> DEFINE Good == {n \in Nat : j + n <= Len(s) => LastIn(f[j + n], S, x)}
<1>3. 0 \in Good
  <2>0. j \in 1 .. Len(s) /\ j - 1 \in 0 .. Len(s) /\ j + 0 = j /\ x \in T
    BY <1>0, <1>2
  <2>1. f[j - 1] \in Seq(T \cap K) /\ x \in T \cap K
    BY <1>1, <2>0
  <2>2. LastIn(Append(f[j - 1], x), S, x)
    BY <1>2, <2>1, LastOfAppend
  <2>3. f[j] = IF s[j] \in K THEN Append(f[j - 1], s[j]) ELSE f[j - 1]
    BY <1>1, <2>0
  <2>4. f[j] = Append(f[j - 1], x)
    BY <1>2, <2>3
  <2>5. LastIn(f[j], S, x)
    BY <2>2, <2>4
  <2>6. LastIn(f[j + 0], S, x)
    BY <2>0, <2>5
  <2> QED BY <2>6
<1>4. ASSUME NEW n \in Nat, n \in Good PROVE n + 1 \in Good
  <2>1. SUFFICES ASSUME j + n + 1 <= Len(s) PROVE LastIn(f[j + n + 1], S, x)
    OBVIOUS
  <2>2. LastIn(f[j + n], S, x) /\ j + n + 1 \in 1 .. Len(s) /\ j + n + 1 - 1 = j + n
        /\ j + n \in 0 .. Len(s) /\ j + n + 1 \in (j + 1) .. Len(s)
    BY <1>0, <1>4, <2>1
  <2>3. /\ f[j + n] \in Seq(T \cap K) /\ s[j + n + 1] \notin S /\ s[j + n + 1] \in T
        /\ f[j + n + 1] = IF s[j + n + 1] \in K THEN Append(f[j + n], s[j + n + 1]) ELSE f[j + n]
    BY <1>1, <1>2, <2>2
  <2>4. s[j + n + 1] \in K => LastIn(Append(f[j + n], s[j + n + 1]), S, x)
    <3>1. PICK e : e = s[j + n + 1]
      OBVIOUS
    <3>2. e \in K => e \in T \cap K
      BY <2>3, <3>1
    <3>3. e \in K => LastIn(Append(f[j + n], e), S, x)
      BY <2>2, <2>3, <3>1, <3>2, LastOfAppend
    <3> QED BY <3>1, <3>3
  <2> QED BY <2>2, <2>3, <2>4
<1>5. Len(s) - j \in Good
  <2>1. Len(s) - j \in Nat
    BY <1>0
  <2> HIDE DEF Good
  <2> QED BY <1>3, <1>4, <2>1, NatSetInduction
<1>6. j + (Len(s) - j) = Len(s) /\ Len(s) - j \in Nat
  BY <1>0
<1> QED BY <1>1, <1>5, <1>6

(* The last member in S of sequences put together is that of the last one     *)
(* that has a member in S                                                     *)
LEMMA FlattenedLast ==
    ASSUME NEW T, NEW seqs \in Seq(Seq(T)), NEW S, NEW x, NEW j \in 1 .. Len(seqs),
           LastIn(seqs[j], S, x),
           \A k \in (j + 1) .. Len(seqs) : \A i \in 1 .. Len(seqs[k]) : seqs[k][i] \notin S
    PROVE  LastIn(FlattenSeq(seqs), S, x)
<1>0. Len(seqs) \in Nat /\ \A k \in 1 .. Len(seqs) : seqs[k] \in Seq(T)
  OBVIOUS
<1>1. PICK f : /\ FlattenSeq(seqs) = f[Len(seqs)]
               /\ \A n \in 1 .. Len(seqs) : f[n] \in Seq(T)
               /\ \A n \in 1 .. Len(seqs) : f[n] = IF n = 1 THEN seqs[n] ELSE f[n - 1] \o seqs[n]
  BY <1>0, FlattenSteps
<1> DEFINE Good == {n \in Nat : j + n <= Len(seqs) => LastIn(f[j + n], S, x)}
<1>2. 0 \in Good
  <2>0. j \in 1 .. Len(seqs) /\ j + 0 = j /\ seqs[j] \in Seq(T)
    BY <1>0
  <2>1. f[j] = IF j = 1 THEN seqs[j] ELSE f[j - 1] \o seqs[j]
    BY <1>1, <2>0
  <2>2. ASSUME j # 1 PROVE LastIn(f[j], S, x)
    <3>1. j - 1 \in 1 .. Len(seqs)
      BY <1>0, <2>0, <2>2
    <3>2. f[j - 1] \in Seq(T)
      BY <1>1, <3>1
    <3>3. LastIn(f[j - 1] \o seqs[j], S, x)
      BY <2>0, <3>2, LastOfConcat
    <3> QED BY <2>1, <2>2, <3>3
  <2>3. LastIn(f[j], S, x)
    BY <2>1, <2>2
  <2>4. LastIn(f[j + 0], S, x)
    BY <2>0, <2>3
  <2> QED BY <2>4
<1>3. ASSUME NEW n \in Nat, n \in Good PROVE n + 1 \in Good
  <2>1. SUFFICES ASSUME j + n + 1 <= Len(seqs) PROVE LastIn(f[j + n + 1], S, x)
    OBVIOUS
  <2>2. /\ LastIn(f[j + n], S, x) /\ j + n + 1 \in 1 .. Len(seqs) /\ j + n + 1 # 1
        /\ j + n + 1 - 1 = j + n /\ j + n \in 1 .. Len(seqs) /\ j + n + 1 \in (j + 1) .. Len(seqs)
    BY <1>0, <1>3, <2>1
  <2>3. /\ f[j + n] \in Seq(T) /\ seqs[j + n + 1] \in Seq(T)
        /\ \A i \in 1 .. Len(seqs[j + n + 1]) : seqs[j + n + 1][i] \notin S
        /\ f[j + n + 1] = f[j + n] \o seqs[j + n + 1]
    <3>1. PICK m \in 1 .. Len(seqs) : m = j + n + 1 /\ m # 1 /\ m - 1 = j + n /\ m \in (j + 1) .. Len(seqs)
      BY <2>2
    <3>2. seqs[m] \in Seq(T) /\ f[m - 1] \in Seq(T)
      BY <1>0, <1>1, <2>2, <3>1
    <3>3. \A i \in 1 .. Len(seqs[m]) : seqs[m][i] \notin S
      BY <3>1
    <3>4. f[m] = IF m = 1 THEN seqs[m] ELSE f[m - 1] \o seqs[m]
      BY <1>1
    <3>5. f[m] = f[m - 1] \o seqs[m]
      BY <3>1, <3>4
    <3> QED BY <3>1, <3>2, <3>3, <3>5
  <2>4. PICK t \in Seq(T) : t = seqs[j + n + 1]
    BY <2>3
  <2>5. LastIn(f[j + n] \o t, S, x)
    BY <2>2, <2>3, <2>4, LastOfConcat
  <2> QED BY <2>3, <2>4, <2>5
<1>4. Len(seqs) - j \in Good
  <2>1. Len(seqs) - j \in Nat
    BY <1>0
  <2> HIDE DEF Good
  <2> QED BY <1>2, <1>3, <2>1, NatSetInduction
<1>5. j + (Len(seqs) - j) = Len(seqs) /\ Len(seqs) - j \in Nat
  BY <1>0
<1> QED BY <1>1, <1>4, <1>5


(* Members of the sequences that are put together are members of the whole     *)
LEMMA FlattenedHas ==
    ASSUME NEW T, NEW seqs \in Seq(Seq(T)), NEW k \in 1 .. Len(seqs),
           NEW i \in 1 .. Len(seqs[k])
    PROVE  \E j \in 1 .. Len(FlattenSeq(seqs)) : FlattenSeq(seqs)[j] = seqs[k][i]
<1> DEFINE x == seqs[k][i]
           Has == {q \in Seq(T) : \E m \in 1 .. Len(q) : q[m] = x}
<1>1. seqs[k] \in Seq(T) /\ seqs[k] \in Has
  OBVIOUS
<1> HIDE DEF x
<1>2. PICK q \in Seq(T) : LastIn(seqs, Has, q)
  <2> HIDE DEF Has
  <2> QED BY <1>1, LastExists
<1>3. PICK j \in 1 .. Len(seqs) : seqs[j] = q /\ q \in Has /\ \A m \in (j + 1) .. Len(seqs) : seqs[m] \notin Has
  <2> HIDE DEF Has
  <2> QED BY <1>2 DEF LastIn
<1>4. PICK m \in 1 .. Len(q) : q[m] = x
  BY <1>3
<1>5. PICK y \in T : LastIn(q, {x}, y)
  BY <1>4, LastExists
<1>6. y = x
  BY <1>5 DEF LastIn
<1>7. ASSUME NEW n \in (j + 1) .. Len(seqs), NEW a \in 1 .. Len(seqs[n]) PROVE seqs[n][a] \notin {x}
  <2>1. n \in 1 .. Len(seqs)
    BY <1>3
  <2>2. seqs[n] \in Seq(T) /\ seqs[n] \notin Has
    BY <1>3, <2>1
  <2> QED BY <2>2
<1>8. LastIn(seqs[j], {x}, x)
  BY <1>3, <1>5, <1>6
<1>9. LastIn(FlattenSeq(seqs), {x}, x)
  BY <1>7, <1>8, FlattenedLast
<1> QED BY <1>9 DEF LastIn, x
=============================================================================
