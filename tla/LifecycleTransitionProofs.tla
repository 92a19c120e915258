---------------------- MODULE LifecycleTransitionProofs ----------------------
(* The ranges of a multipart copy, for every length; then transitions, for any *)
(* contents, lengths and part sizes, and any number of writes, scans and       *)
(* faults, when the destination of the transitions is versioned.               *)
EXTENDS LifecycleTransition, ProofLemmas, FiniteSetTheorems

-----------------------------------------------------------------------------
(* Ranges: the sizes of the parts.  The loops of the code are recursive       *)
(* functions; that they end is shown by going down from the values where they *)
(* stop at once.                                                              *)

(* A size that is doubled until it is in a set that holds all large sizes *)
LEMMA DoublingExists ==
    ASSUME NEW T, NEW B \in Nat, \A s \in Nat : s >= B => s \in T
    PROVE  \E f : f = [s \in Nat |-> IF s \in T THEN s ELSE f[2 * s]]
<1> DEFINE From(f, k) == \A s \in Nat : s >= 1 /\ s >= B - k =>
                            f[s] = IF s \in T THEN s ELSE f[2 * s]
           S == {k \in Nat : \E f \in [Nat -> Nat] : From(f, k)}
<1>1. 0 \in S
  <2> DEFINE f == [s \in Nat |-> s]
  <2>1. f \in [Nat -> Nat] /\ From(f, 0)
    OBVIOUS
  <2> HIDE DEF f, From
  <2> QED BY <2>1
<1>2. ASSUME NEW k \in Nat, k \in S
      PROVE  k + 1 \in S
  <2>1. PICK f \in [Nat -> Nat] : From(f, k)
    BY <1>2
  <2>2. CASE B - k - 1 < 1
    <3>1. From(f, k + 1)
      BY <2>1, <2>2
    <3> QED BY <3>1
  <2>3. CASE B - k - 1 >= 1
    <3> DEFINE p == B - k - 1
               g == [f EXCEPT ![p] = IF p \in T THEN p ELSE f[2 * p]]
    <3>1. p \in Nat /\ 2 * p # p /\ p >= 1
      BY <2>3
    <3>2. g \in [Nat -> Nat] /\ g[p] = (IF p \in T THEN p ELSE f[2 * p])
          /\ \A s \in Nat : s # p => g[s] = f[s]
      BY <3>1
    <3>3. ASSUME NEW s \in Nat, s >= 1, s >= B - (k + 1)
          PROVE  g[s] = IF s \in T THEN s ELSE g[2 * s]
      <4>1. 2 * s \in Nat /\ 2 * s # p
        BY <3>3
      <4> HIDE DEF g
      <4>2. CASE s = p
        BY <3>1, <3>2, <4>1, <4>2
      <4>3. CASE s # p
        <5>1. s >= B - k
          BY <3>3, <4>3
        <5> HIDE DEF p
        <5> QED BY <2>1, <3>2, <3>3, <4>1, <4>3, <5>1
      <4> QED BY <4>2, <4>3
    <3> HIDE DEF g
    <3>4. From(g, k + 1)
      BY <3>3
    <3> HIDE DEF From
    <3> QED BY <3>2, <3>4
  <2> QED BY <2>2, <2>3
<1>3. B \in S
  <2> HIDE DEF S
  <2> QED BY <1>1, <1>2, NatSetInduction
<1>4. PICK f \in [Nat -> Nat] : From(f, B)
  BY <1>3
<1> DEFINE g == [f EXCEPT ![0] = 0]
<1>5. g \in [Nat -> Nat] /\ g[0] = 0 /\ \A s \in Nat : s # 0 => g[s] = f[s]
  OBVIOUS
<1>6. ASSUME NEW s \in Nat
      PROVE  g[s] = IF s \in T THEN s ELSE g[2 * s]
  <2> HIDE DEF g
  <2>1. CASE s = 0
    BY <1>5, <2>1
  <2>2. CASE s # 0
    BY <1>4, <1>5, <2>2
  <2> QED BY <2>1, <2>2
<1> HIDE DEF g
<1>7. g = [s \in Nat |-> IF s \in T THEN s ELSE g[2 * s]]
  BY <1>5, <1>6
<1> QED BY <1>7

(* Such a size ends in the set, and is not smaller than it was *)
LEMMA DoublingEnds ==
    ASSUME NEW T, NEW B \in Nat, \A s \in Nat : s >= B => s \in T,
           NEW f, f = [s \in Nat |-> IF s \in T THEN s ELSE f[2 * s]]
    PROVE  \A s \in Nat \ {0} : f[s] \in Nat /\ f[s] \in T /\ f[s] >= s
<1> DEFINE Ends(s) == f[s] \in Nat /\ f[s] \in T /\ f[s] >= s
           S == {k \in Nat : \A s \in Nat \ {0} : s >= B - k => Ends(s)}
<1>0. \A s \in Nat : f[s] = IF s \in T THEN s ELSE f[2 * s]
  OBVIOUS
<1>1. 0 \in S
  BY <1>0
<1>2. ASSUME NEW k \in Nat, k \in S
      PROVE  k + 1 \in S
  <2>1. ASSUME NEW s \in Nat \ {0}, s >= B - (k + 1)
        PROVE  Ends(s)
    <3>1. CASE s \in T
      BY <1>0, <3>1
    <3>2. CASE s \notin T
      <4>1. 2 * s \in Nat \ {0} /\ 2 * s >= B - k /\ 2 * s >= s
        BY <2>1
      <4>2. Ends(2 * s)
        BY <1>2, <4>1
      <4>3. f[s] = f[2 * s]
        BY <1>0, <3>2
      <4> QED BY <4>1, <4>2, <4>3
    <3> QED BY <3>1, <3>2
  <2> HIDE DEF Ends
  <2> QED BY <2>1
<1>3. B \in S
  <2> HIDE DEF S
  <2> QED BY <1>1, <1>2, NatSetInduction
<1> QED BY <1>3

(* Products of natural numbers *)
LEMMA TimesGrows == \A a \in Nat \ {0}, s \in Nat : a * s \in Nat /\ a * s >= s
<1> TAKE a \in Nat \ {0}, s \in Nat
<1>1. PICK b \in Nat : a = b + 1
  <2>1. a - 1 \in Nat /\ a = (a - 1) + 1
    OBVIOUS
  <2> QED BY <2>1
<1>2. b * s \in Nat /\ (b + 1) * s = b * s + s
  OBVIOUS
<1> QED BY <1>1, <1>2

LEMMA GrowToSoftLimitType ==
    \A len \in Nat : GrowToSoftLimit(len) \in Nat \ {0}
<1> TAKE len \in Nat
<1> DEFINE grow[size \in Nat] ==
             IF len > SoftPartLimit * size /\ size < LargestPartSize
             THEN grow[2 * size] ELSE size
           T == {s \in Nat : ~(len > SoftPartLimit * s /\ s < LargestPartSize)}
<1>1. GrowToSoftLimit(len) = grow[DefaultPartSize]
  BY DEF GrowToSoftLimit
<1>2. \A s \in Nat : s >= LargestPartSize => s \in T
  BY RangesAssumption DEF RangesAssumption
<1>3. \A s \in Nat : s \in T <=> ~(len > SoftPartLimit * s /\ s < LargestPartSize)
  OBVIOUS
<1>4. grow = [s \in Nat |-> IF s \in T THEN s ELSE grow[2 * s]]
  <2>1. PICK f : f = [s \in Nat |-> IF s \in T THEN s ELSE f[2 * s]]
    <3> HIDE DEF T
    <3> QED BY <1>2, DoublingExists, RangesAssumption DEF RangesAssumption
  <2>2. f = [s \in Nat |-> IF len > SoftPartLimit * s /\ s < LargestPartSize
                           THEN f[2 * s] ELSE s]
    BY <2>1
  <2>3. grow = [s \in Nat |-> IF len > SoftPartLimit * s /\ s < LargestPartSize
                              THEN grow[2 * s] ELSE s]
    BY <2>2
  <2> HIDE DEF grow
  <2> QED BY <2>3
<1> HIDE DEF grow, T
<1>5. \A s \in Nat \ {0} : grow[s] \in Nat /\ grow[s] >= s
  BY <1>2, <1>4, DoublingEnds, RangesAssumption DEF RangesAssumption
<1> QED BY <1>1, <1>5, RangesAssumption DEF RangesAssumption

LEMMA GrowToHardLimitProperty ==
    \A len \in Nat, from \in Nat \ {0} :
        LET size == GrowToHardLimit(len, from) IN
        size \in Nat \ {0} /\ HardPartLimit * size >= len
<1> TAKE len \in Nat, from \in Nat \ {0}
<1> DEFINE grow[size \in Nat] ==
             IF len > HardPartLimit * size THEN grow[2 * size] ELSE size
           T == {s \in Nat : ~(len > HardPartLimit * s)}
<1>0. HardPartLimit \in Nat \ {0}
  BY RangesAssumption DEF RangesAssumption
<1>1. GrowToHardLimit(len, from) = grow[from]
  BY DEF GrowToHardLimit
<1>2. \A s \in Nat : s >= len => s \in T
  <2> TAKE s \in Nat
  <2>1. HardPartLimit * s \in Nat /\ HardPartLimit * s >= s
    BY <1>0, TimesGrows
  <2> QED BY <2>1
<1>3. \A s \in Nat : s \in T <=> ~(len > HardPartLimit * s)
  OBVIOUS
<1>4. grow = [s \in Nat |-> IF s \in T THEN s ELSE grow[2 * s]]
  <2>1. PICK f : f = [s \in Nat |-> IF s \in T THEN s ELSE f[2 * s]]
    <3> HIDE DEF T
    <3> QED BY <1>2, DoublingExists
  <2>2. f = [s \in Nat |-> IF len > HardPartLimit * s THEN f[2 * s] ELSE s]
    BY <2>1
  <2>3. grow = [s \in Nat |-> IF len > HardPartLimit * s THEN grow[2 * s] ELSE s]
    BY <2>2
  <2> HIDE DEF grow
  <2> QED BY <2>3
<1> HIDE DEF grow, T
<1>5. \A s \in Nat \ {0} : grow[s] \in Nat /\ grow[s] \in T /\ grow[s] >= s
  BY <1>2, <1>4, DoublingEnds
<1>6. grow[from] \in Nat \ {0} /\ HardPartLimit * grow[from] \in Nat
      /\ ~(len > HardPartLimit * grow[from])
  <2>1. grow[from] \in Nat /\ grow[from] \in T /\ grow[from] >= from
    BY <1>5
  <2>2. ~(len > HardPartLimit * grow[from])
    BY <1>3, <2>1
  <2>3. HardPartLimit * grow[from] \in Nat
    BY <1>0, <2>1, TimesGrows
  <2> QED BY <2>1, <2>2, <2>3
<1> QED BY <1>1, <1>6

LEMMA PowerOfTwoAboveProperty ==
    \A n \in Nat : PowerOfTwoAbove(n) \in Nat \ {0} /\ PowerOfTwoAbove(n) >= n
<1> TAKE n \in Nat
<1> DEFINE pow[p \in Nat] == IF p < n THEN pow[2 * p] ELSE p
           T == {p \in Nat : ~(p < n)}
<1>1. PowerOfTwoAbove(n) = pow[1]
  BY DEF PowerOfTwoAbove
<1>2. \A p \in Nat : p \in T <=> p >= n
  OBVIOUS
<1>3. pow = [s \in Nat |-> IF s \in T THEN s ELSE pow[2 * s]]
  <2>1. PICK f : f = [s \in Nat |-> IF s \in T THEN s ELSE f[2 * s]]
    <3> HIDE DEF T
    <3> QED BY <1>2, DoublingExists
  <2>2. f = [s \in Nat |-> IF s < n THEN f[2 * s] ELSE s]
    BY <2>1
  <2>3. pow = [s \in Nat |-> IF s < n THEN pow[2 * s] ELSE s]
    BY <2>2
  <2> HIDE DEF pow
  <2> QED BY <2>3
<1> HIDE DEF pow, T
<1>4. pow[1] \in Nat /\ pow[1] \in T /\ pow[1] >= 1
  <2>1. \A s \in Nat \ {0} : pow[s] \in Nat /\ pow[s] \in T /\ pow[s] >= s
    BY <1>2, <1>3, DoublingEnds
  <2> QED BY <2>1
<1> QED BY <1>1, <1>2, <1>4

(* Parts of the size chosen are enough parts, in the limit of the backend *)
LEMMA RangeSizeProperty ==
    \A len \in Nat \ {0} :
        GetRangeSize(len) \in Nat \ {0} /\ HardPartLimit * GetRangeSize(len) >= len
<1> TAKE len \in Nat \ {0}
<1>1. HardPartLimit * len >= len
  BY TimesGrows, RangesAssumption DEF RangesAssumption
<1>2. CASE len <= DefaultPartSize
  BY <1>1, <1>2 DEF GetRangeSize
<1>3. CASE ~(len <= DefaultPartSize)
  BY <1>3, GrowToSoftLimitType, GrowToHardLimitProperty DEF GetRangeSize
<1> QED BY <1>2, <1>3

LEMMA CeilingDivision ==
    \A n \in Nat, g \in Nat \ {0} :
        (n + g - 1) \div g \in Nat /\ g * ((n + g - 1) \div g) >= n
<1> TAKE n \in Nat, g \in Nat \ {0}
<1> DEFINE a == n + g - 1
           q == a \div g
           r == a % g
<1>1. a \in Nat
  OBVIOUS
<1>2. q \in Int /\ r \in 0 .. g - 1 /\ a = g * q + r
  <2> HIDE DEF a
  <2> QED BY <1>1
<1> HIDE DEF q, r
<1>3. g * q >= n /\ g * q \in Int
  BY <1>2
<1>4. q >= 0
  <2> SUFFICES ASSUME q <= -1 PROVE FALSE
    BY <1>2
  <2>1. PICK k \in Nat : q = -1 - k
    <3>1. -1 - q \in Nat /\ q = -1 - (-1 - q)
      BY <1>2
    <3> QED BY <3>1
  <2>2. g * k \in Nat /\ g * q = -g - g * k
    BY <2>1
  <2> QED BY <1>3, <2>2
<1> QED BY <1>2, <1>3, <1>4 DEF q

LEMMA GCPRangeSizeProperty ==
    \A len \in Nat \ {0} :
        GetGCPRangeSize(len) \in Nat \ {0} /\ GCPMaxParts * GetGCPRangeSize(len) >= len
<1> TAKE len \in Nat \ {0}
<1>0. GCPMaxParts \in Nat \ {0}
  BY RangesAssumption DEF RangesAssumption
<1>1. GetRangeSize(len) \in Nat \ {0}
  BY RangeSizeProperty
<1>2. CASE len > GCPMaxParts * GetRangeSize(len)
  <2> DEFINE p == PowerOfTwoAbove(len)
             size == (p + GCPMaxParts - 1) \div GCPMaxParts
  <2>1. p \in Nat /\ p >= len
    BY PowerOfTwoAboveProperty
  <2> HIDE DEF p
  <2>2. size \in Nat /\ GCPMaxParts * size >= p
    BY <1>0, <2>1, CeilingDivision
  <2> HIDE DEF size
  <2>3. size # 0
    <3> SUFFICES ASSUME size = 0 PROVE FALSE
      OBVIOUS
    <3>1. GCPMaxParts * size = 0
      BY <1>0
    <3> QED BY <2>1, <2>2, <3>1
  <2>4. GCPMaxParts * size \in Nat
    BY <1>0, <2>2
  <2> QED BY <1>2, <2>1, <2>2, <2>3, <2>4 DEF GetGCPRangeSize, p, size
<1>3. CASE ~(len > GCPMaxParts * GetRangeSize(len))
  BY <1>0, <1>1, <1>3 DEF GetGCPRangeSize
<1> QED BY <1>2, <1>3

-----------------------------------------------------------------------------
(* The ranges of the parts, from the one that begins at `start' to the last *)

ByteRanges == [start : Nat, end : Nat]

CutFrom(f, start, size, len) ==
    IF start + size - 1 < len - 1
    THEN <<[start |-> start, end |-> start + size - 1]>> \o f[start + size]
    ELSE <<[start |-> start, end |-> len - 1]>>

LEMMA CutFromType ==
    ASSUME NEW f \in [Nat -> Seq(ByteRanges)], NEW start \in Nat, NEW size \in Nat \ {0},
           NEW len \in Nat \ {0}
    PROVE  CutFrom(f, start, size, len) \in Seq(ByteRanges)
<1>1. start + size \in Nat /\ start + size - 1 \in Nat /\ len - 1 \in Nat
  OBVIOUS
<1>2. f[start + size] \in Seq(ByteRanges)
  BY <1>1
<1>3. [start |-> start, end |-> start + size - 1] \in ByteRanges
      /\ [start |-> start, end |-> len - 1] \in ByteRanges
  BY <1>1 DEF ByteRanges
<1>4. \A r \in ByteRanges : <<r>> \in Seq(ByteRanges) /\ <<r>> \o f[start + size] \in Seq(ByteRanges)
  BY <1>2
<1> QED BY <1>3, <1>4 DEF CutFrom

LEMMA CutExists ==
    ASSUME NEW size \in Nat \ {0}, NEW len \in Nat \ {0}
    PROVE  \E f : f = [start \in Nat |-> CutFrom(f, start, size, len)]
<1> DEFINE From(f, k) == \A start \in Nat : start >= len - k =>
                            f[start] = CutFrom(f, start, size, len)
           S == {k \in Nat : \E f \in [Nat -> Seq(ByteRanges)] : From(f, k)}
<1>1. 0 \in S
  <2> DEFINE f == [start \in Nat |-> <<[start |-> start, end |-> len - 1]>>]
  <2>1. f \in [Nat -> Seq(ByteRanges)]
    <3>1. \A start \in Nat : [start |-> start, end |-> len - 1] \in ByteRanges
      BY DEF ByteRanges
    <3>2. \A r \in ByteRanges : <<r>> \in Seq(ByteRanges)
      OBVIOUS
    <3> QED BY <3>1, <3>2
  <2>2. From(f, 0)
    <3>1. \A start \in Nat : start >= len => ~(start + size - 1 < len - 1)
      OBVIOUS
    <3> QED BY <3>1 DEF CutFrom
  <2> HIDE DEF f, From
  <2> QED BY <2>1, <2>2
<1>2. ASSUME NEW k \in Nat, k \in S
      PROVE  k + 1 \in S
  <2>1. PICK f \in [Nat -> Seq(ByteRanges)] : From(f, k)
    BY <1>2
  <2>2. CASE len - k - 1 < 0
    <3>1. From(f, k + 1)
      BY <2>1, <2>2
    <3> HIDE DEF From
    <3> QED BY <2>1, <3>1
  <2>3. CASE len - k - 1 >= 0
    <3> DEFINE p == len - k - 1
               g == [f EXCEPT ![p] = CutFrom(f, p, size, len)]
    <3>1. p \in Nat
      BY <2>3
    <3>2. CutFrom(f, p, size, len) \in Seq(ByteRanges)
      BY <3>1, CutFromType
    <3>3. g \in [Nat -> Seq(ByteRanges)] /\ g[p] = CutFrom(f, p, size, len)
          /\ \A s \in Nat : s # p => g[s] = f[s]
      BY <3>1, <3>2
    <3> HIDE DEF g
    <3>4. ASSUME NEW start \in Nat, start >= p
          PROVE  CutFrom(g, start, size, len) = CutFrom(f, start, size, len)
      <4>1. start + size \in Nat /\ start + size # p
        BY <3>1, <3>4
      <4> QED BY <3>3, <4>1 DEF CutFrom
    <3>5. ASSUME NEW start \in Nat, start >= len - (k + 1)
          PROVE  g[start] = CutFrom(g, start, size, len)
      <4>1. start >= p /\ (start # p => start >= len - k)
        BY <3>1, <3>5
      <4>2. CutFrom(g, start, size, len) = CutFrom(f, start, size, len)
        BY <3>4, <4>1
      <4> HIDE DEF p
      <4> QED BY <2>1, <3>3, <4>1, <4>2
    <3>6. From(g, k + 1)
      BY <3>5
    <3> HIDE DEF From
    <3> QED BY <3>3, <3>6
  <2> HIDE DEF S
  <2> QED BY <2>2, <2>3
<1>3. len \in S
  <2> HIDE DEF S
  <2> QED BY <1>1, <1>2, NatSetInduction
<1>4. PICK f \in [Nat -> Seq(ByteRanges)] : From(f, len)
  BY <1>3
<1>5. f = [start \in Nat |-> CutFrom(f, start, size, len)]
  BY <1>4
<1> QED BY <1>5

(* Ranges that go from `start' to the end of the object *)
Cover(ranges, start, len) ==
    /\ ranges \in Seq(ByteRanges) /\ Len(ranges) >= 1
    /\ ranges[1].start = start /\ ranges[Len(ranges)].end = len - 1
    /\ \A i \in 1 .. Len(ranges) : ranges[i].start <= ranges[i].end
    /\ \A i \in 1 .. Len(ranges) - 1 : ranges[i + 1].start = ranges[i].end + 1

LEMMA CoverPrepend ==
    ASSUME NEW ranges, NEW start \in Nat, NEW next \in Nat, NEW len \in Nat, start < next,
           Cover(ranges, next, len)
    PROVE  /\ Cover(<<[start |-> start, end |-> next - 1]>> \o ranges, start, len)
           /\ Len(<<[start |-> start, end |-> next - 1]>> \o ranges) = Len(ranges) + 1
<1> DEFINE r == [start |-> start, end |-> next - 1]
           all == <<r>> \o ranges
<1>1. r \in ByteRanges /\ r.start = start /\ r.end = next - 1
  BY DEF ByteRanges
<1> HIDE DEF r
<1>2. ranges \in Seq(ByteRanges) /\ Len(ranges) \in Nat /\ Len(ranges) >= 1
  BY DEF Cover
<1>3. all \in Seq(ByteRanges) /\ Len(all) = Len(ranges) + 1 /\ all[1] = r
      /\ \A i \in 1 .. Len(ranges) : all[i + 1] = ranges[i]
  BY <1>1, <1>2
<1> HIDE DEF all
<1>4. all[1].start = start /\ all[Len(all)].end = len - 1
  <2>1. all[Len(all)] = ranges[Len(ranges)]
    BY <1>2, <1>3
  <2> QED BY <1>1, <1>3, <2>1 DEF Cover
<1>5. \A i \in 1 .. Len(all) : i = 1 \/ (i - 1 \in 1 .. Len(ranges) /\ all[i] = ranges[i - 1])
  <2> TAKE i \in 1 .. Len(all)
  <2>1. CASE i # 1
    <3>1. i - 1 \in 1 .. Len(ranges) /\ (i - 1) + 1 = i
      BY <1>2, <1>3, <2>1
    <3>2. all[(i - 1) + 1] = ranges[i - 1]
      BY <1>3, <3>1
    <3> QED BY <3>1, <3>2
  <2> QED BY <2>1
<1>6. \A i \in 1 .. Len(all) : all[i].start <= all[i].end
  <2> TAKE i \in 1 .. Len(all)
  <2>1. CASE i = 1
    <3>1. start <= next - 1
      OBVIOUS
    <3> QED BY <1>1, <1>3, <2>1, <3>1
  <2>2. CASE i # 1
    <3>1. i - 1 \in 1 .. Len(ranges) /\ all[i] = ranges[i - 1]
      BY <1>5, <2>2
    <3> QED BY <3>1 DEF Cover
  <2> QED BY <2>1, <2>2
<1>7. \A i \in 1 .. Len(all) - 1 : all[i + 1].start = all[i].end + 1
  <2> TAKE i \in 1 .. Len(all) - 1
  <2>1. i \in 1 .. Len(ranges) /\ i \in 1 .. Len(all) /\ all[i + 1] = ranges[i]
    BY <1>2, <1>3
  <2>2. CASE i = 1
    BY <1>1, <1>3, <2>1, <2>2 DEF Cover
  <2>3. CASE i # 1
    <3>1. i - 1 \in 1 .. Len(ranges) - 1 /\ all[i] = ranges[i - 1] /\ (i - 1) + 1 = i
      BY <1>2, <1>5, <2>1, <2>3
    <3>2. ranges[(i - 1) + 1].start = ranges[i - 1].end + 1
      BY <3>1 DEF Cover
    <3> QED BY <2>1, <3>1, <3>2
  <2> QED BY <2>2, <2>3
<1>8. Cover(all, start, len)
  BY <1>2, <1>3, <1>4, <1>6, <1>7 DEF Cover
<1> QED BY <1>3, <1>8 DEF r, all

LEMMA CutCovers ==
    ASSUME NEW size \in Nat \ {0}, NEW len \in Nat \ {0},
           NEW f, f = [start \in Nat |-> CutFrom(f, start, size, len)],
           NEW n \in Nat, n * size >= len
    PROVE  Cover(f[0], 0, len) /\ Len(f[0]) <= n
<1> DEFINE Good(start) == /\ Cover(f[start], start, len)
                          /\ \A m \in Nat : m * size >= len - start => Len(f[start]) <= m
           S == {k \in Nat : \A start \in 0 .. len - 1 : start >= len - k => Good(start)}
<1>0. \A start \in Nat : f[start] = CutFrom(f, start, size, len)
  OBVIOUS
<1>1. 0 \in S
  OBVIOUS
<1>2. ASSUME NEW k \in Nat, k \in S
      PROVE  k + 1 \in S
  <2>1. ASSUME NEW start \in 0 .. len - 1, start >= len - (k + 1)
        PROVE  Good(start)
    <3>0. start \in Nat /\ start + size \in Nat /\ start < start + size
      OBVIOUS
    <3>1. CASE start + size - 1 < len - 1
      <4>1. start + size \in 0 .. len - 1 /\ start + size >= len - k
        BY <2>1, <3>1
      <4>2. Good(start + size)
        BY <1>2, <4>1
      <4>3. f[start] = <<[start |-> start, end |-> start + size - 1]>> \o f[start + size]
        <5>1. CutFrom(f, start, size, len) =
                <<[start |-> start, end |-> start + size - 1]>> \o f[start + size]
          BY <3>1, Zenon DEF CutFrom
        <5>2. f[start] = CutFrom(f, start, size, len)
          BY <1>0, <3>0
        <5> QED BY <5>1, <5>2, Zenon
      <4>4. PICK next \in Nat : next = start + size /\ start < next /\ next - 1 = start + size - 1
        BY <3>0
      <4>5. Cover(f[next], next, len)
        BY <4>2, <4>4
      <4>6. /\ Cover(<<[start |-> start, end |-> next - 1]>> \o f[next], start, len)
            /\ Len(<<[start |-> start, end |-> next - 1]>> \o f[next]) = Len(f[next]) + 1
        BY <3>0, <4>4, <4>5, CoverPrepend
      <4>7. Cover(f[start], start, len) /\ Len(f[start]) = Len(f[start + size]) + 1
        <5>1. f[start] = <<[start |-> start, end |-> next - 1]>> \o f[next]
          BY <4>3, <4>4, Zenon
        <5>2. Cover(f[start], start, len) /\ Len(f[start]) = Len(f[next]) + 1
          BY <4>6, <5>1, Zenon
        <5> QED BY <4>4, <5>2
      <4>8. ASSUME NEW m \in Nat, m * size >= len - start
            PROVE  Len(f[start]) <= m
        <5>1. m # 0
          <6> SUFFICES ASSUME m = 0 PROVE FALSE
            OBVIOUS
          <6>1. m * size = 0
            OBVIOUS
          <6> QED BY <4>8, <6>1
        <5>2. PICK j \in Nat : m = j + 1
          <6>1. m - 1 \in Nat /\ m = (m - 1) + 1
            BY <5>1
          <6> QED BY <6>1
        <5>3. m * size = j * size + size /\ j * size \in Nat
          BY <5>2
        <5>4. j * size >= len - (start + size)
          BY <3>0, <4>8, <5>3
        <5>5. Len(f[start + size]) <= j
          BY <4>2, <5>4
        <5>6. Len(f[start + size]) \in Nat
          BY <4>2 DEF Cover
        <5> QED BY <4>7, <5>2, <5>5, <5>6
      <4> QED BY <4>7, <4>8
    <3>2. CASE ~(start + size - 1 < len - 1)
      <4> DEFINE r == [start |-> start, end |-> len - 1]
      <4>1. r \in ByteRanges /\ r.start = start /\ r.end = len - 1 /\ start <= len - 1
        BY DEF ByteRanges
      <4>2. f[start] = <<r>>
        <5>1. CutFrom(f, start, size, len) = <<r>>
          BY <3>2, Zenon DEF CutFrom
        <5> QED BY <1>0, <3>0, <5>1
      <4> HIDE DEF r
      <4>3. <<r>> \in Seq(ByteRanges) /\ Len(<<r>>) = 1 /\ <<r>>[1] = r
        BY <4>1
      <4>4. Cover(f[start], start, len) /\ Len(f[start]) = 1
        <5>1. Cover(<<r>>, start, len)
          BY <4>1, <4>3 DEF Cover
        <5> QED BY <4>2, <4>3, <5>1
      <4>5. ASSUME NEW m \in Nat, m * size >= len - start
            PROVE  Len(f[start]) <= m
        <5>1. m # 0
          <6> SUFFICES ASSUME m = 0 PROVE FALSE
            OBVIOUS
          <6>1. m * size = 0
            OBVIOUS
          <6> QED BY <4>5, <6>1
        <5>2. 1 <= m
          BY <5>1
        <5> QED BY <4>4, <5>2
      <4> QED BY <4>4, <4>5
    <3> QED BY <3>1, <3>2
  <2> HIDE DEF Good
  <2> QED BY <2>1
<1>3. len \in S
  <2> HIDE DEF S
  <2> QED BY <1>1, <1>2, NatSetInduction
<1>4. Good(0)
  <2>1. 0 \in 0 .. len - 1 /\ 0 >= len - len
    OBVIOUS
  <2> HIDE DEF Good
  <2> QED BY <1>3, <2>1
<1> QED BY <1>4

(* The parts of an upload are the object, each byte once, and are not more than *)
(* the backend takes, for every length (CopyLocationTask._getRanges)            *)
THEOREM RangesOfEveryLength ==
    \A len \in Nat \ {0}, isGCP \in BOOLEAN :
        LET ranges == GetRanges(len, isGCP) IN
        /\ Tile(ranges, len)
        /\ Len(ranges) \in Nat \ {0}
        /\ Len(ranges) <= IF isGCP THEN GCPMaxParts ELSE HardPartLimit
<1> TAKE len \in Nat \ {0}, isGCP \in BOOLEAN
<1> DEFINE size == IF isGCP THEN GetGCPRangeSize(len) ELSE GetRangeSize(len)
           n == IF isGCP THEN GCPMaxParts ELSE HardPartLimit
           from[start \in Nat] ==
              IF start + size - 1 < len - 1
              THEN <<[start |-> start, end |-> start + size - 1]>> \o from[start + size]
              ELSE <<[start |-> start, end |-> len - 1]>>
<1>1. GetRanges(len, isGCP) = from[0]
  BY DEF GetRanges
<1>2. size \in Nat \ {0} /\ n \in Nat /\ n * size >= len
  BY RangeSizeProperty, GCPRangeSizeProperty, RangesAssumption DEF RangesAssumption
<1> HIDE DEF size, n
<1>3. from = [start \in Nat |-> CutFrom(from, start, size, len)]
  <2>1. PICK f : f = [start \in Nat |-> CutFrom(f, start, size, len)]
    BY <1>2, CutExists
  <2>2. f = [start \in Nat |->
                IF start + size - 1 < len - 1
                THEN <<[start |-> start, end |-> start + size - 1]>> \o f[start + size]
                ELSE <<[start |-> start, end |-> len - 1]>>]
    BY <2>1 DEF CutFrom
  <2>3. from = [start \in Nat |->
                   IF start + size - 1 < len - 1
                   THEN <<[start |-> start, end |-> start + size - 1]>> \o from[start + size]
                   ELSE <<[start |-> start, end |-> len - 1]>>]
    BY <2>2
  <2> HIDE DEF from
  <2> QED BY <2>3 DEF CutFrom
<1> HIDE DEF from
<1>4. Cover(from[0], 0, len) /\ Len(from[0]) <= n
  BY <1>2, <1>3, CutCovers
<1>5. Tile(from[0], len) /\ Len(from[0]) \in Nat \ {0}
  BY <1>4 DEF Cover, Tile
<1> QED BY <1>1, <1>4, <1>5 DEF n

(* The run goes through the lengths up to a bound *)
THEOREM RangesAlwaysTile == RangesTile
BY RangesOfEveryLength, RangesAssumption DEF RangesTile, RangesAssumption

-----------------------------------------------------------------------------
(* Types *)

(* The locations written so far *)
Written == {l \in [store : {"hot", "warm"}, id : Nat] : l.id <= clock}

Metas == {m \in Metadata : m.loc \in Written /\ m.loc.store = m.store /\ m.at <= clock}

Copied == {l \in Written : l.store = "warm"}

Dates == {c \in Int : c <= clock}

Orders ==
    [type : {"copyLocation"}, n : Nat, etag : Contents, at : Nat, cond : Dates]

Results ==
    [type : {"result"}, n : Nat, ok : {TRUE}, etag : Contents, at : Nat, cond : Dates,
     loc : Copied]
    \cup [type : {"result"}, n : Nat, ok : {FALSE}, etag : Contents, at : Nat, cond : Dates,
          loc : {NoLoc}]

Collections == [type : {"deleteData"}, n : Nat, cond : Dates, loc : Written]

Expirations == [type : {"deleteObject"}, n : Nat, at : Nat]

Scans ==
    [kind : {"scan"}, n : Nat, pc : {"check", "refresh"}, msg : {NoMsg}, etag : Contents,
     at : Nat, seen : {NoObject}]
    \cup [kind : {"scan"}, n : Nat, pc : {"send", "flag"}, msg : {NoMsg}, etag : Contents,
          at : Nat, seen : Metas]

Parts == [i : Nat, etag : Contents \cup {Mixed}]

Movers ==
    {t \in [kind : {"mover"}, pc : {"parts", "put", "error", "publish"}, msg : Orders,
            seen : {NoObject}, parts : SUBSET Parts, loc : Copied \cup {NoLoc}] :
        /\ t.pc = "publish" => t.loc \in Copied
        /\ Length[t.msg.etag] = 0 => t.parts = {}}

Updates ==
    {t \in [kind : {"update"}, pc : {"put"}, msg : Results, seen : Metas, gc : Written] :
        /\ t.msg.ok /\ t.seen.at = t.msg.at /\ t.seen.etag = t.msg.etag
        /\ t.gc = t.seen.loc /\ t.gc # t.msg.loc}
    \cup {t \in [kind : {"update"}, pc : {"gc"}, msg : Results, seen : {NoObject}, gc : Written] :
             t.msg.ok}

Deletions ==
    [kind : {"delete"}, pc : {"status", "delete"}, msg : Expirations, seen : Metas]

Stored == [loc : Written, etag : Contents \cup {Mixed}, at : 1 .. clock]

StateOK ==
    /\ unversioned \in StoreModes /\ clock \in Nat
    /\ md \in Metas \cup {NoObject}
    /\ replaced \subseteq Written /\ stale \in BOOLEAN /\ thrown \in BOOLEAN
    /\ scans \in 0 .. MaxScans /\ writes \in 0 .. MaxWrites /\ faults \in 0 .. MaxFaults

(* A location holds one copy *)
DataOK ==
    /\ data \subseteq Stored
    /\ \A d, e \in data : d.loc = e.loc => d = e

AllMsgs == Orders \cup Results \cup Collections \cup Expirations

AllTasks == Scans \cup Movers \cup Updates \cup Deletions

MsgsOK == msgs \subseteq AllMsgs

(* An entry is in the hands of one task at most *)
TasksOK ==
    /\ tasks \subseteq AllTasks
    /\ \A t \in tasks : t.kind # "scan" => t.msg \in msgs
    /\ \A t, u \in tasks : t.kind # "scan" /\ u.kind # "scan" /\ t.msg = u.msg => t = u

(* The copies whose location is on its way to the metadata *)
Succeeded(m) == m.type = "result" /\ m.ok
Publishing(t) == t.kind = "mover" /\ t.pc = "publish"
Collecting(t) == t.kind = "update" /\ t.pc = "gc"

(* Each has a location of its own *)
CopiesOK ==
    /\ \A m, n \in msgs : Succeeded(m) /\ Succeeded(n) /\ m.loc = n.loc => m = n
    /\ \A t \in tasks, m \in msgs : Publishing(t) /\ Succeeded(m) => t.loc # m.loc
    /\ \A t, u \in tasks : Publishing(t) /\ Publishing(u) /\ t.loc = u.loc => t = u

Shape == StateOK /\ DataOK /\ MsgsOK /\ TasksOK /\ CopiesOK

-----------------------------------------------------------------------------
(* What the entries and the tasks say of the object *)

Copies ==
    {[at |-> m.at, etag |-> m.etag, loc |-> m.loc] : m \in {x \in msgs : Succeeded(x)}}
    \cup {[at |-> t.msg.at, etag |-> t.msg.etag, loc |-> t.loc] :
            t \in {x \in tasks : Publishing(x)}}

Deletes ==
    {[cond |-> m.cond, loc |-> m.loc] : m \in {x \in msgs : x.type = "deleteData"}}
    \cup {[cond |-> t.msg.cond, loc |-> t.gc] : t \in {x \in tasks : Collecting(x)}}

(* What was listed, or read, is the object or an older one *)
Listed(at, etag) == at <= md.at /\ (at = md.at => etag = md.etag)

(* An entry without a date of the source is for an object whose source is not  *)
(* overwritten in place                                                        *)
MsgCurrent(m) ==
    /\ m.type \in {"copyLocation", "result"} =>
         /\ Listed(m.at, m.etag)
         /\ m.at = md.at /\ m.cond = NoCond /\ "hot" \in unversioned => md.store = "warm"
    /\ m.type = "deleteObject" => m.at <= md.at

SeenCurrent(seen) ==
    /\ Listed(seen.at, seen.etag)
    /\ seen.at = md.at /\ seen.store = "warm" => md.store = "warm"

TaskCurrent(t) ==
    /\ t.kind = "scan" => /\ Listed(t.at, t.etag)
                          /\ t.seen # NoObject => t.at <= t.seen.at /\ SeenCurrent(t.seen)
    /\ t.kind = "mover" => (t.msg.at = md.at => \A p \in t.parts : p.etag = t.msg.etag)
    /\ t.kind = "delete" => /\ t.seen.at = t.msg.at
                            /\ t.pc = "delete" => md.repl = "COMPLETED"

CopyCurrent(c) ==
    /\ c.loc = md.loc => c.at = md.at
    /\ c.at = md.at /\ c.loc \notin replaced =>
         \E d \in data : d.loc = c.loc /\ d.etag = c.etag

(* No collection is of the object's data, or of a copy that may become it *)
DeleteCurrent(del) ==
    /\ \A c \in Copies : c.loc = del.loc => c.loc \in replaced \/ c.at < md.at
    /\ del.loc = md.loc => md.store = "hot" /\ del.cond # NoCond /\ del.cond < md.at
    /\ del.loc.store = "hot" /\ "hot" \in unversioned => del.cond # NoCond

ObjectData ==
    \E d \in data : /\ d.loc = md.loc /\ d.etag = md.etag
                    /\ md.store = "hot" => d.at = md.at

Current ==
    /\ \A m \in msgs : MsgCurrent(m)
    /\ \A t \in tasks : TaskCurrent(t)
    /\ \A c \in Copies : CopyCurrent(c)
    /\ \A del \in Deletes : DeleteCurrent(del)
    /\ ObjectData

Alive == md # NoObject /\ ~stale

Inv == Shape /\ (Alive => Current)

(* What is stored and is not the object's is in the hands of an entry or a task *)
Accounted(l) ==
    \/ l = md.loc
    \/ \E t \in tasks : Publishing(t) /\ t.loc = l
    \/ \E m \in msgs : Succeeded(m) /\ m.loc = l /\ \A t \in tasks : Collecting(t) => t.msg # m
    \/ \E del \in Deletes : del.loc = l

(* Where every store is versioned, no deletion depends on a date *)
NoConds ==
    unversioned = {} =>
        \A m \in msgs : m.type \in {"copyLocation", "result", "deleteData"} => m.cond = NoCond

NoFailure == Alive /\ faults = 0 /\ ~thrown /\ unversioned = {}

NoOrphans == NoFailure => \A d \in data : Accounted(d.loc)

-----------------------------------------------------------------------------
(* Steps that leave the object and its data alone *)

(* The types depend on the clock alone *)
LEMMA SameTypes ==
    ASSUME clock' = clock
    PROVE  /\ AllTasks' = AllTasks /\ AllMsgs' = AllMsgs /\ Metas' = Metas
           /\ Written' = Written /\ Stored' = Stored
BY DEF AllTasks, AllMsgs, Orders, Results, Collections, Expirations, Scans, Movers,
       Updates, Deletions, Metas, Written, Copied, Dates, Stored

(* What is new agrees with the object *)
LEMMA Kept ==
    ASSUME Inv, Shape', UNCHANGED <<unversioned, md, data, clock, replaced, stale>>,
           Copies' \subseteq Copies,
           Alive => /\ \A m \in msgs' : m \in msgs \/ MsgCurrent(m)
                    /\ \A t \in tasks' : t \in tasks \/ TaskCurrent(t)
                    /\ \A del \in Deletes' : del \in Deletes \/ DeleteCurrent(del)
    PROVE  Inv'
<1> SUFFICES ASSUME Alive' PROVE Current'
  BY DEF Inv
<1>1. Alive /\ Current
  BY DEF Alive, Inv
<1>2. \A m : MsgCurrent(m) => MsgCurrent(m)'
  BY DEF MsgCurrent, Listed
<1>3. \A t : TaskCurrent(t) => TaskCurrent(t)'
  BY DEF TaskCurrent, SeenCurrent, Listed
<1>4. \A c : CopyCurrent(c) => CopyCurrent(c)'
  BY DEF CopyCurrent
<1>5. \A del : DeleteCurrent(del) => DeleteCurrent(del)'
  BY DEF DeleteCurrent
<1>6. ObjectData'
  BY <1>1 DEF ObjectData, Current
<1>7. /\ \A m \in msgs' : MsgCurrent(m)
      /\ \A t \in tasks' : TaskCurrent(t)
      /\ \A del \in Deletes' : DeleteCurrent(del)
      /\ \A c \in Copies' : CopyCurrent(c)
  BY <1>1 DEF Current
<1> QED BY <1>2, <1>3, <1>4, <1>5, <1>6, <1>7 DEF Current

(* A step that announces no copy and no collection *)
LEMMA Quiet ==
    ASSUME Inv, UNCHANGED <<unversioned, md, data, clock, replaced, stale>>, StateOK',
           MsgsOK', TasksOK',
           \A u \in tasks' : u \notin tasks =>
               ~Publishing(u) /\ ~Collecting(u) /\ (Alive => TaskCurrent(u)),
           \A m \in msgs' : m \notin msgs =>
               ~Succeeded(m) /\ m.type # "deleteData" /\ (Alive => MsgCurrent(m))
    PROVE  Inv'
<1>0. /\ \A t \in tasks' : Publishing(t) \/ Collecting(t) => t \in tasks
      /\ \A m \in msgs' : Succeeded(m) \/ m.type = "deleteData" => m \in msgs
  OBVIOUS
<1>1. CopiesOK'
  BY <1>0 DEF CopiesOK, Shape, Inv, Publishing, Succeeded
<1>2. Copies' \subseteq Copies /\ Deletes' \subseteq Deletes
  BY <1>0 DEF Copies, Deletes, Publishing, Succeeded, Collecting
<1>3. DataOK'
  BY DEF Inv, Shape, DataOK, Stored, Written
<1>4. Shape'
  BY <1>1, <1>3 DEF Shape
<1> QED BY <1>2, <1>4, Kept

(* A task begins *)
LEMMA TaskBegins ==
    ASSUME Inv, UNCHANGED <<unversioned, md, data, clock, replaced, stale>>, StateOK',
           NEW u \in AllTasks, tasks' = tasks \cup {u}, msgs' = msgs,
           u.kind # "scan" => u.msg \in msgs /\ Idle(u.msg),
           ~Publishing(u), ~Collecting(u), Alive => TaskCurrent(u)
    PROVE  Inv'
<1>1. MsgsOK' /\ TasksOK'
  BY SameTypes DEF Inv, Shape, MsgsOK, TasksOK, Idle
<1> QED BY <1>1, Quiet

(* A task goes on *)
LEMMA TaskGoesOn ==
    ASSUME Inv, UNCHANGED <<unversioned, md, data, clock, replaced, stale>>, StateOK',
           NEW t \in tasks, NEW u \in AllTasks, tasks' = (tasks \ {t}) \cup {u},
           t.kind = u.kind, t.msg = u.msg,
           msgs \subseteq msgs', msgs' \subseteq AllMsgs,
           \A m \in msgs' : m \notin msgs =>
               ~Succeeded(m) /\ m.type # "deleteData" /\ (Alive => MsgCurrent(m)),
           ~Publishing(u), ~Collecting(u), Alive => TaskCurrent(u)
    PROVE  Inv'
<1>1. MsgsOK' /\ TasksOK'
  BY SameTypes DEF Inv, Shape, MsgsOK, TasksOK
<1> QED BY <1>1, Quiet

(* The tasks and the entries of each kind *)
LEMMA Kinds ==
    /\ \A t \in AllTasks :
         /\ t.kind = "scan" => t \in Scans
         /\ t.kind = "mover" => t \in Movers /\ t.msg \in Orders
         /\ t.kind = "update" => t \in Updates /\ t.msg \in Results
         /\ t.kind = "delete" => t \in Deletions /\ t.msg \in Expirations
    /\ \A m \in AllMsgs :
         /\ m.type = "copyLocation" => m \in Orders
         /\ m.type = "result" => m \in Results
         /\ m.type = "deleteData" => m \in Collections
         /\ m.type = "deleteObject" => m \in Expirations
<1>1. ASSUME NEW t \in AllTasks
      PROVE  /\ t.kind = "scan" => t \in Scans
             /\ t.kind = "mover" => t \in Movers /\ t.msg \in Orders
             /\ t.kind = "update" => t \in Updates /\ t.msg \in Results
             /\ t.kind = "delete" => t \in Deletions /\ t.msg \in Expirations
  <2>1. CASE t \in Scans
    BY <2>1 DEF Scans
  <2>2. CASE t \in Movers
    BY <2>2 DEF Movers
  <2>3. CASE t \in Updates
    BY <2>3 DEF Updates
  <2>4. CASE t \in Deletions
    BY <2>4 DEF Deletions
  <2> QED BY <2>1, <2>2, <2>3, <2>4 DEF AllTasks
<1>2. ASSUME NEW m \in AllMsgs
      PROVE  /\ m.type = "copyLocation" => m \in Orders
             /\ m.type = "result" => m \in Results
             /\ m.type = "deleteData" => m \in Collections
             /\ m.type = "deleteObject" => m \in Expirations
  BY DEF AllMsgs, Orders, Results, Collections, Expirations
<1> QED BY <1>1, <1>2

(* No entry is the absence of one *)
LEMMA NoMsgIsNone ==
    /\ NoMsg \notin AllMsgs
    /\ \A t \in AllTasks : t.kind = "scan" => t.msg = NoMsg
<1>1. NoMsg \notin AllMsgs
  BY DEF NoMsg, AllMsgs, Orders, Results, Collections, Expirations
<1>2. ASSUME NEW t \in AllTasks, t.kind = "scan"
      PROVE  t.msg = NoMsg
  <2>1. t \in Scans
    BY <1>2, Kinds
  <2> QED BY <2>1 DEF Scans
<1> QED BY <1>1, <1>2

(* A task ends, and its entry may be committed *)
LEMMA TaskGone ==
    ASSUME Inv, clock' = clock, NEW t \in tasks, tasks' = tasks \ {t},
           msgs \ {t.msg} \subseteq msgs', msgs' \subseteq AllMsgs
    PROVE  MsgsOK' /\ TasksOK'
<1>1. MsgsOK'
  BY SameTypes DEF MsgsOK
<1>2. ASSUME NEW u \in tasks', u.kind # "scan"
      PROVE  u.msg \in msgs'
  <2>1. u \in tasks /\ u # t /\ u.msg \in msgs /\ u.msg \in AllMsgs
    BY <1>2 DEF Inv, Shape, TasksOK, MsgsOK
  <2>2. u.msg # t.msg
    <3>1. CASE t.kind = "scan"
      BY <2>1, <3>1, NoMsgIsNone DEF Inv, Shape, TasksOK
    <3>2. CASE t.kind # "scan"
      BY <1>2, <2>1, <3>2 DEF Inv, Shape, TasksOK
    <3> QED BY <3>1, <3>2
  <2> QED BY <2>1, <2>2
<1>3. TasksOK'
  BY <1>2, SameTypes DEF Inv, Shape, TasksOK
<1> QED BY <1>1, <1>3

LEMMA TaskEnds ==
    ASSUME Inv, UNCHANGED <<unversioned, md, data, clock, replaced, stale>>, StateOK',
           NEW t \in tasks, tasks' = tasks \ {t},
           msgs' = msgs \/ msgs' = msgs \ {t.msg}
    PROVE  Inv'
<1>1. msgs \ {t.msg} \subseteq msgs' /\ msgs' \subseteq AllMsgs
  BY DEF Inv, Shape, MsgsOK
<1>2. MsgsOK' /\ TasksOK'
  BY <1>1, TaskGone
<1> QED BY <1>2, Quiet

(* An entry is committed without a task *)
LEMMA EntryEnds ==
    ASSUME Inv, UNCHANGED <<unversioned, md, data, clock, replaced, stale>>, StateOK',
           NEW m \in msgs, Idle(m), tasks' = tasks,
           msgs' = msgs \/ msgs' = msgs \ {m}
    PROVE  Inv'
<1>1. MsgsOK' /\ TasksOK'
  BY SameTypes DEF Inv, Shape, MsgsOK, TasksOK, Idle
<1> QED BY <1>1, Quiet

(* The end of the processing of an entry that needed no task *)
LEMMA NotATask == \A t \in AllTasks : \A m : t # [msg |-> m]
<1> SUFFICES ASSUME NEW t \in AllTasks, NEW m PROVE t # [msg |-> m]
  OBVIOUS
<1>1. "kind" \in DOMAIN t
  BY DEF AllTasks, Scans, Movers, Updates, Deletions
<1> QED BY <1>1

(* Metadata is not the absence of an object *)
LEMMA MetaIsObject == \A m \in Metas : m # NoObject
BY DEF Metas, Metadata, NoObject

(* The object has been listed, or read, as it is *)
LEMMA MdSeen ==
    ASSUME Inv, md # NoObject
    PROVE  md \in Metas /\ Listed(md.at, md.etag) /\ SeenCurrent(md) /\ clock \in Nat
<1>1. md \in Metas /\ clock \in Nat
  BY DEF Inv, Shape, StateOK
<1>2. md.at \in Nat
  BY <1>1 DEF Metas, Metadata
<1> QED BY <1>1, <1>2 DEF Listed, SeenCurrent

LEMMA ListTransitionInv == Inv /\ ListForTransition /\ UNCHANGED unversioned => Inv'
<1> SUFFICES ASSUME Inv, ListForTransition, UNCHANGED unversioned PROVE Inv'
  OBVIOUS
<1> DEFINE u == [kind |-> "scan", n |-> scans + 1, pc |-> "check", msg |-> NoMsg,
                 etag |-> md.etag, at |-> md.at, seen |-> NoObject]
<1>1. md # NoObject /\ UNCHANGED <<unversioned, md, data, clock, replaced, stale>>
  BY DEF ListForTransition
<1>2. scans \in 0 .. MaxScans /\ scans < MaxScans /\ MaxScans \in Nat
  BY TransitionAssumption DEF Inv, Shape, StateOK, TransitionAssumption, ListForTransition
<1>3. StateOK'
  <2>1. scans' \in 0 .. MaxScans
    BY <1>2 DEF ListForTransition
  <2> QED BY <2>1 DEF Inv, Shape, StateOK, ListForTransition, Metas, Written
<1>4. u \in AllTasks /\ u.kind = "scan" /\ (Alive => TaskCurrent(u)) /\ ~Publishing(u) /\ ~Collecting(u)
  <2>1. u \in Scans
    BY <1>1, <1>2, MdSeen DEF Scans, Metas, Metadata
  <2> QED BY <1>1, <2>1, MdSeen DEF AllTasks, TaskCurrent, Publishing, Collecting
<1>5. tasks' = tasks \cup {u} /\ msgs' = msgs
  BY DEF ListForTransition
<1> HIDE DEF u
<1> QED BY <1>1, <1>3, <1>4, <1>5, TaskBegins

(* The bounds on the events *)
LEMMA SameState ==
    ASSUME Inv,
           UNCHANGED <<unversioned, md, clock, scans, writes, replaced, stale>>,
           thrown' \in BOOLEAN, UNCHANGED faults \/ Fault
    PROVE  StateOK'
<1>1. faults' \in 0 .. MaxFaults
  BY TransitionAssumption DEF Inv, Shape, StateOK, Fault, TransitionAssumption
<1> QED BY <1>1 DEF Inv, Shape, StateOK, Metas, Written

(* What holds of the task and the entry at hand *)
LEMMA AtHand ==
    ASSUME Inv
    PROVE  /\ \A t \in tasks : /\ t \in AllTasks /\ (Alive => TaskCurrent(t))
                               /\ t.kind # "scan" => t.msg \in msgs /\ t.msg \in AllMsgs
           /\ \A m \in msgs : m \in AllMsgs /\ (Alive => MsgCurrent(m))
           /\ thrown \in BOOLEAN
BY DEF Inv, Shape, TasksOK, MsgsOK, StateOK, Current

LEMMA CheckObjectMDInv ==
    ASSUME Inv, NEW t \in tasks, CheckObjectMD(t), UNCHANGED unversioned
    PROVE  Inv'
<1> DEFINE u == [t EXCEPT !.pc = "send", !.seen = md]
<1>1. /\ UNCHANGED <<unversioned, md, data, clock, replaced, stale>> /\ StateOK'
      /\ msgs' = msgs
  BY SameState, AtHand DEF CheckObjectMD
<1>2. CASE tasks' = tasks \ {t}
  BY <1>1, <1>2, TaskEnds
<1>3. CASE md # NoObject /\ tasks' = (tasks \ {t}) \cup {u}
  <2>1. t \in Scans
    BY AtHand, Kinds DEF CheckObjectMD
  <2>2. u \in Scans /\ u.kind = t.kind /\ u.msg = t.msg /\ u.kind = "scan"
        /\ u.seen = md /\ u.at = t.at /\ u.etag = t.etag
    BY <1>3, <2>1, MdSeen DEF Scans
  <2> HIDE DEF u
  <2>3. Alive => TaskCurrent(u)
    <3>1. Alive => TaskCurrent(t)
      BY AtHand
    <3> QED BY <1>3, <2>2, <3>1, MdSeen DEF TaskCurrent, Listed
  <2>4. u \in AllTasks /\ ~Publishing(u) /\ ~Collecting(u)
    BY <2>2 DEF AllTasks, Publishing, Collecting
  <2> QED BY <1>1, <1>3, <2>2, <2>3, <2>4, TaskGoesOn DEF Inv, Shape, MsgsOK
<1> QED BY <1>2, <1>3 DEF CheckObjectMD

(* The date of the source, when there is one *)
LEMMA SourceDateType ==
    ASSUME Inv, NEW seen \in Metas,
           seen.store \in unversioned => \E d \in data : d.loc = seen.loc
    PROVE  /\ SourceDate(seen) \in Dates
           /\ SourceDate(seen) = NoCond => seen.store \notin unversioned
<1>1. clock \in Nat
  BY DEF Inv, Shape, StateOK
<1>2. CASE seen.store \notin unversioned
  BY <1>1, <1>2 DEF SourceDate, NoCond, Dates
<1>3. CASE seen.store \in unversioned
  <2>1. \E d \in data : d.loc = seen.loc
    BY <1>3
  <2>2. PICK d : d = (CHOOSE e \in data : e.loc = seen.loc) /\ d \in data
    BY <2>1
  <2>3. d.at \in 1 .. clock
    BY <2>2 DEF Inv, Shape, DataOK, Stored
  <2>4. SourceDate(seen) = d.at
    BY <1>3, <2>2 DEF SourceDate
  <2> QED BY <1>1, <1>3, <2>3, <2>4 DEF NoCond, Dates
<1> QED BY <1>2, <1>3

LEMMA SendDataMoverActionInv ==
    ASSUME Inv, NEW t \in tasks, SendDataMoverAction(t), UNCHANGED unversioned
    PROVE  Inv'
<1> DEFINE u == [t EXCEPT !.pc = "refresh", !.seen = NoObject]
           m == [type |-> "copyLocation", n |-> t.n, etag |-> t.etag, at |-> t.at,
                 cond |-> SourceDate(t.seen)]
<1>1. UNCHANGED <<unversioned, md, data, clock, replaced, stale>> /\ StateOK'
  BY SameState, AtHand DEF SendDataMoverAction
<1>2. CASE tasks' = tasks \ {t} /\ UNCHANGED msgs
  BY <1>1, <1>2, TaskEnds
<1>3. CASE /\ t.seen.store \in unversioned => \E d \in data : d.loc = t.seen.loc
           /\ tasks' = (tasks \ {t}) \cup {u} /\ msgs' = msgs \cup {m}
  <2>1. t \in Scans /\ t.kind = "scan" /\ t.pc = "send"
    BY AtHand, Kinds DEF SendDataMoverAction
  <2>2. t.seen \in Metas /\ t.n \in Nat /\ t.etag \in Contents /\ t.at \in Nat
    BY <2>1 DEF Scans
  <2>3. /\ SourceDate(t.seen) \in Dates
        /\ SourceDate(t.seen) = NoCond => t.seen.store \notin unversioned
    BY <1>3, <2>2, SourceDateType
  <2>4. u \in Scans /\ u.kind = t.kind /\ u.msg = t.msg /\ u.kind = "scan"
        /\ u.seen = NoObject /\ u.at = t.at /\ u.etag = t.etag
    BY <2>1 DEF Scans
  <2>5. m \in AllMsgs /\ m.type = "copyLocation" /\ m.at = t.at /\ m.etag = t.etag
        /\ m.cond = SourceDate(t.seen)
    BY <2>2, <2>3 DEF AllMsgs, Orders
  <2> HIDE DEF u, m
  <2>6. ASSUME Alive
        PROVE  TaskCurrent(u) /\ MsgCurrent(m)
    <3>1. /\ Listed(t.at, t.etag)
          /\ t.at <= t.seen.at /\ SeenCurrent(t.seen)
      BY <2>1, <2>2, <2>6, AtHand, MetaIsObject DEF TaskCurrent
    <3>2. TaskCurrent(u)
      BY <2>4, <3>1 DEF TaskCurrent
    <3>3. ASSUME t.at = md.at, m.cond = NoCond, "hot" \in unversioned
          PROVE  md.store = "warm"
      <4>1. md \in Metas
        BY <2>6 DEF Inv, Shape, StateOK, Alive
      <4>2. t.seen.at = md.at
        <5>1. t.seen.at \in Nat /\ md.at \in Nat
          BY <2>2, <4>1 DEF Metas, Metadata
        <5> QED BY <3>1, <3>3, <5>1 DEF SeenCurrent, Listed
      <4>3. t.seen.store = "warm"
        BY <2>2, <2>3, <2>5, <3>3 DEF Metas, Metadata
      <4> QED BY <3>1, <4>2, <4>3 DEF SeenCurrent
    <3>4. MsgCurrent(m)
      BY <2>5, <3>1, <3>3 DEF MsgCurrent
    <3> QED BY <3>2, <3>4
  <2>7. u \in AllTasks /\ ~Publishing(u) /\ ~Collecting(u) /\ ~Succeeded(m) /\ m.type # "deleteData"
    BY <2>4, <2>5 DEF AllTasks, Publishing, Collecting, Succeeded
  <2> QED BY <1>1, <1>3, <2>4, <2>5, <2>6, <2>7, TaskGoesOn DEF Inv, Shape, MsgsOK
<1> QED BY <1>2, <1>3 DEF SendDataMoverAction

LEMMA RefreshObjectMDInv ==
    ASSUME Inv, NEW t \in tasks, RefreshObjectMD(t), UNCHANGED unversioned
    PROVE  Inv'
<1> DEFINE u == [t EXCEPT !.pc = "flag", !.seen = md]
<1>1. /\ UNCHANGED <<unversioned, md, data, clock, replaced, stale>> /\ StateOK'
      /\ msgs' = msgs
  BY SameState, AtHand DEF RefreshObjectMD
<1>2. CASE tasks' = tasks \ {t}
  BY <1>1, <1>2, TaskEnds
<1>3. CASE md # NoObject /\ tasks' = (tasks \ {t}) \cup {u}
  <2>1. t \in Scans
    BY AtHand, Kinds DEF RefreshObjectMD
  <2>2. u \in Scans /\ u.kind = t.kind /\ u.msg = t.msg /\ u.kind = "scan"
        /\ u.seen = md /\ u.at = t.at /\ u.etag = t.etag
    BY <1>3, <2>1, MdSeen DEF Scans
  <2> HIDE DEF u
  <2>3. Alive => TaskCurrent(u)
    <3>1. Alive => TaskCurrent(t)
      BY AtHand
    <3> QED BY <1>3, <2>2, <3>1, MdSeen DEF TaskCurrent, Listed
  <2>4. u \in AllTasks /\ ~Publishing(u) /\ ~Collecting(u)
    BY <2>2 DEF AllTasks, Publishing, Collecting
  <2> QED BY <1>1, <1>3, <2>2, <2>3, <2>4, TaskGoesOn DEF Inv, Shape, MsgsOK
<1> QED BY <1>2, <1>3 DEF RefreshObjectMD

LEMMA MoverReadsSourceInv ==
    ASSUME Inv, NEW m \in msgs, MoverReadsSource(m), UNCHANGED unversioned
    PROVE  Inv'
<1>1. /\ UNCHANGED <<unversioned, md, data, clock, replaced, stale>> /\ StateOK'
      /\ msgs' = msgs
  BY SameState, AtHand DEF MoverReadsSource
<1>2. m \in Orders /\ Idle(m)
  BY AtHand, Kinds DEF MoverReadsSource
<1>3. PICK pc \in {"parts", "put", "error"} : tasks' = tasks \cup {MoverTask(m, pc)}
  BY DEF MoverReadsSource
<1> DEFINE u == MoverTask(m, pc)
<1>4. u \in Movers /\ u.kind = "mover" /\ u.pc # "publish" /\ u.msg = m /\ u.parts = {}
  BY <1>2 DEF Movers, MoverTask
<1> HIDE DEF u
<1>5. u \in AllTasks /\ ~Publishing(u) /\ ~Collecting(u) /\ TaskCurrent(u)
  BY <1>4 DEF AllTasks, Publishing, Collecting, TaskCurrent
<1> QED BY <1>1, <1>2, <1>3, <1>4, <1>5, TaskBegins DEF u

LEMMA TaskFailsInv ==
    ASSUME Inv, NEW t \in tasks, TaskFails(t), UNCHANGED unversioned
    PROVE  Inv'
<1>1. UNCHANGED <<unversioned, md, data, clock, replaced, stale>> /\ StateOK'
  BY SameState, AtHand DEF TaskFails
<1> QED BY <1>1, TaskEnds DEF TaskFails

(* The data read is the data of the object *)
LEMMA ReadsTheObject ==
    ASSUME Inv, Readable
    PROVE  /\ CurrentContents \in Contents \cup {Mixed}
           /\ Alive => CurrentContents = md.etag
<1>1. \E d \in data : d.loc = md.loc
  BY DEF Readable
<1>2. PICK d : d = (CHOOSE e \in data : e.loc = md.loc) /\ d \in data /\ d.loc = md.loc
  BY <1>1
<1>3. CurrentContents = d.etag
  BY <1>2 DEF CurrentContents
<1>4. d.etag \in Contents \cup {Mixed}
  BY <1>2 DEF Inv, Shape, DataOK, Stored
<1>5. ASSUME Alive PROVE d.etag = md.etag
  BY <1>2, <1>5 DEF Inv, Shape, DataOK, Current, ObjectData
<1> QED BY <1>3, <1>4, <1>5

LEMMA PutMPUPartInv ==
    ASSUME Inv, NEW t \in tasks, NEW i, PutMPUPart(t, i), UNCHANGED unversioned
    PROVE  Inv'
<1>1. UNCHANGED <<unversioned, md, data, clock, replaced, stale>> /\ StateOK' /\ msgs' = msgs
  BY SameState, AtHand DEF PutMPUPart
<1>2. t \in Movers /\ t.msg \in Orders /\ t.kind = "mover"
  BY AtHand, Kinds DEF PutMPUPart
<1>3. CASE tasks' = {u \in tasks : u.kind # "mover"}
  <2>1. MsgsOK' /\ TasksOK'
    BY <1>1, <1>3, SameTypes DEF Inv, Shape, MsgsOK, TasksOK
  <2> QED BY <1>1, <1>3, <2>1, Quiet
<1>4. CASE tasks' = (tasks \ {t}) \cup {MoverFailed(t)}
  <2> DEFINE u == MoverFailed(t)
  <2>1. u \in Movers /\ u.kind = t.kind /\ u.msg = t.msg /\ u.pc = "error" /\ u.parts = {}
    BY <1>2 DEF Movers, MoverFailed
  <2> HIDE DEF u
  <2>2. u \in AllTasks /\ ~Publishing(u) /\ ~Collecting(u) /\ TaskCurrent(u)
    BY <1>2, <2>1 DEF AllTasks, Publishing, Collecting, TaskCurrent
  <2> QED BY <1>1, <1>4, <2>1, <2>2, TaskGoesOn DEF u, Inv, Shape, MsgsOK
<1>5. CASE /\ Ranges(t)[i] # NoRange /\ Readable
           /\ tasks' = (tasks \ {t}) \cup
                {[t EXCEPT !.parts = @ \cup {[i |-> i, etag |-> CurrentContents]}]}
  <2> DEFINE u == [t EXCEPT !.parts = @ \cup {[i |-> i, etag |-> CurrentContents]}]
  <2>0. i \in Nat /\ t.pc = "parts" /\ i \in 1 .. Len(Ranges(t))
    BY DEF PutMPUPart
  <2>1. Length[t.msg.etag] # 0
    <3> SUFFICES ASSUME Length[t.msg.etag] = 0 PROVE FALSE
      OBVIOUS
    <3>1. Ranges(t) = <<NoRange>>
      BY DEF Ranges, GetRanges
    <3>2. i = 1
      BY <2>0, <3>1
    <3> QED BY <1>5, <3>1, <3>2
  <2>2. u \in Movers /\ u.kind = t.kind /\ u.msg = t.msg /\ u.pc = "parts"
        /\ u.parts = t.parts \cup {[i |-> i, etag |-> CurrentContents]}
    <3> DEFINE p == [i |-> i, etag |-> CurrentContents]
    <3>1. p \in Parts
      BY <1>5, <2>0, ReadsTheObject DEF Parts
    <3> HIDE DEF p
    <3>2. t.parts \cup {p} \in SUBSET Parts
      BY <1>2, <3>1 DEF Movers
    <3> QED BY <1>2, <2>0, <2>1, <3>2 DEF p, Movers
  <2> HIDE DEF u
  <2>3. ASSUME Alive PROVE TaskCurrent(u)
    <3>1. TaskCurrent(t) /\ MsgCurrent(t.msg) /\ t.msg.type = "copyLocation"
      BY <1>2, <2>3, AtHand DEF Orders
    <3>2. t.msg.at = md.at => t.msg.etag = CurrentContents
      BY <1>5, <2>3, <3>1, ReadsTheObject DEF MsgCurrent, Listed
    <3> QED BY <1>2, <2>2, <3>1, <3>2 DEF TaskCurrent
  <2>4. u \in AllTasks /\ ~Publishing(u) /\ ~Collecting(u)
    BY <1>2, <2>2 DEF AllTasks, Publishing, Collecting
  <2> QED BY <1>1, <1>5, <2>2, <2>3, <2>4, TaskGoesOn DEF u, Inv, Shape, MsgsOK
<1> QED BY <1>3, <1>4, <1>5 DEF PutMPUPart

LEMMA ListExpirationInv == Inv /\ ListForExpiration /\ UNCHANGED unversioned => Inv'
<1> SUFFICES ASSUME Inv, ListForExpiration, UNCHANGED unversioned PROVE Inv'
  OBVIOUS
<1> DEFINE m == [type |-> "deleteObject", n |-> scans + 1, at |-> md.at]
<1>1. md # NoObject /\ UNCHANGED <<unversioned, md, data, clock, replaced, stale>>
  BY DEF ListForExpiration
<1>2. scans \in 0 .. MaxScans /\ scans < MaxScans /\ MaxScans \in Nat
  BY TransitionAssumption DEF Inv, Shape, StateOK, TransitionAssumption, ListForExpiration
<1>3. StateOK'
  <2>1. scans' \in 0 .. MaxScans
    BY <1>2 DEF ListForExpiration
  <2> QED BY <2>1 DEF Inv, Shape, StateOK, ListForExpiration, Metas, Written
<1>4. md.at \in Nat
  BY <1>1, MdSeen DEF Metas, Metadata
<1>5. m \in AllMsgs /\ m.type = "deleteObject" /\ m.at = md.at
  BY <1>2, <1>4 DEF AllMsgs, Expirations
<1>6. tasks' = tasks /\ msgs' = msgs \cup {m}
  BY DEF ListForExpiration
<1> HIDE DEF m
<1>7. ~Succeeded(m) /\ m.type # "deleteData" /\ MsgCurrent(m)
  BY <1>4, <1>5 DEF Succeeded, MsgCurrent
<1>8. MsgsOK' /\ TasksOK'
  BY <1>1, <1>5, <1>6, SameTypes DEF Inv, Shape, MsgsOK, TasksOK
<1> QED BY <1>1, <1>3, <1>6, <1>7, <1>8, Quiet

LEMMA CheckDateInv ==
    ASSUME Inv, NEW m \in msgs, CheckDate(m), UNCHANGED unversioned
    PROVE  Inv'
<1> DEFINE u == [kind |-> "delete", pc |-> "status", msg |-> m, seen |-> md]
<1>1. UNCHANGED <<unversioned, md, data, clock, replaced, stale>> /\ StateOK'
  BY SameState, AtHand DEF CheckDate, Done
<1>2. m \in Expirations /\ Idle(m) /\ m.type = "deleteObject"
  BY AtHand, Kinds DEF CheckDate
<1>3. CASE md # NoObject /\ UnmodifiedSince(m) /\ tasks' = tasks \cup {u} /\ msgs' = msgs
  <2>1. u \in Deletions
    BY <1>2, <1>3, MdSeen DEF Deletions
  <2>2. u.kind = "delete" /\ u.pc = "status" /\ u.msg = m /\ u.seen = md
    OBVIOUS
  <2> HIDE DEF u
  <2>3. ASSUME Alive PROVE TaskCurrent(u)
    <3>1. md.at \in Nat /\ m.at \in Nat
      BY <1>2, <1>3, MdSeen DEF Metas, Metadata, Expirations
    <3>2. m.at <= md.at /\ md.at <= m.at
      BY <1>2, <1>3, <2>3, AtHand DEF MsgCurrent, UnmodifiedSince
    <3>3. m.at = md.at
      BY <3>1, <3>2
    <3> QED BY <2>2, <3>3 DEF TaskCurrent
  <2>4. u \in AllTasks /\ ~Publishing(u) /\ ~Collecting(u)
    BY <2>1, <2>2 DEF AllTasks, Publishing, Collecting
  <2> QED BY <1>1, <1>2, <1>3, <2>2, <2>3, <2>4, TaskBegins
<1>4. CASE Done([msg |-> m], {})
  <2>1. [msg |-> m] \notin tasks
    BY AtHand, NotATask
  <2>2. tasks' = tasks /\ (msgs' = msgs \/ msgs' = msgs \ {m})
    BY <1>4, <2>1 DEF Done
  <2> QED BY <1>1, <1>2, <2>2, EntryEnds
<1> QED BY <1>3, <1>4 DEF CheckDate

LEMMA CheckReplicationStatusInv ==
    ASSUME Inv, NEW t \in tasks, CheckReplicationStatus(t), UNCHANGED unversioned
    PROVE  Inv'
<1> DEFINE u == [t EXCEPT !.pc = "delete"]
<1>1. UNCHANGED <<unversioned, md, data, clock, replaced, stale>> /\ StateOK'
  BY SameState, AtHand DEF CheckReplicationStatus, Done
<1>2. CASE md.repl = "COMPLETED" /\ tasks' = (tasks \ {t}) \cup {u} /\ msgs' = msgs
  <2>1. t \in Deletions
    BY AtHand, Kinds DEF CheckReplicationStatus
  <2>2. u \in Deletions /\ u.kind = "delete" /\ u.kind = t.kind /\ u.msg = t.msg /\ u.seen = t.seen
    BY <2>1 DEF Deletions
  <2> HIDE DEF u
  <2>3. ASSUME Alive PROVE TaskCurrent(u)
    <3>1. TaskCurrent(t) /\ t.kind = "delete"
      BY <2>1, <2>3, AtHand DEF Deletions
    <3> QED BY <1>2, <2>2, <3>1 DEF TaskCurrent
  <2>4. u \in AllTasks /\ ~Publishing(u) /\ ~Collecting(u)
    BY <2>2 DEF AllTasks, Publishing, Collecting
  <2> QED BY <1>1, <1>2, <2>2, <2>3, <2>4, TaskGoesOn DEF Inv, Shape, MsgsOK
<1>3. CASE Done(t, {})
  BY <1>1, <1>3, TaskEnds DEF Done
<1> QED BY <1>2, <1>3 DEF CheckReplicationStatus

(* Two copies at one location are one copy *)
LEMMA OneCopy ==
    ASSUME Inv
    PROVE  \A c, d \in Copies : c.loc = d.loc => c = d
BY DEF Inv, Shape, CopiesOK, Copies

LEMMA UpdateReadsInv ==
    ASSUME Inv, NEW m \in msgs, UpdateReads(m), UNCHANGED unversioned
    PROVE  Inv'
<1>1. UNCHANGED <<unversioned, md, data, clock, replaced, stale>> /\ StateOK'
  BY SameState, AtHand DEF UpdateReads, Done
<1>2. m \in Results /\ Idle(m) /\ m.type = "result"
  BY AtHand, Kinds DEF UpdateReads
<1>3. CASE Done([msg |-> m], {})
  <2>1. [msg |-> m] \notin tasks
    BY AtHand, NotATask
  <2>2. tasks' = tasks /\ (msgs' = msgs \/ msgs' = msgs \ {m})
    BY <1>3, <2>1 DEF Done
  <2> QED BY <1>1, <1>2, <2>2, EntryEnds
<1>4. CASE /\ md # NoObject /\ m.ok /\ ~WasObjectModified(m) /\ md.loc # m.loc
           /\ tasks' = tasks \cup {UpdateTask(m, "put", md, md.loc)} /\ msgs' = msgs
  <2> DEFINE u == UpdateTask(m, "put", md, md.loc)
  <2>1. md \in Metas /\ md.at = m.at /\ md.etag = m.etag
    BY <1>4, MdSeen DEF WasObjectModified
  <2>2. u \in Updates /\ u.kind = "update" /\ u.pc = "put" /\ u.msg = m
    BY <1>2, <1>4, <2>1 DEF Updates, UpdateTask, Metas
  <2> HIDE DEF u
  <2>3. u \in AllTasks /\ ~Publishing(u) /\ ~Collecting(u) /\ TaskCurrent(u)
    BY <2>2 DEF AllTasks, Publishing, Collecting, TaskCurrent
  <2> QED BY <1>1, <1>2, <1>4, <2>2, <2>3, TaskBegins DEF u
<1>5. CASE /\ md # NoObject /\ m.ok /\ WasObjectModified(m)
           /\ tasks' = tasks \cup {UpdateTask(m, "gc", NoObject, m.loc)} /\ msgs' = msgs
  <2> DEFINE u == UpdateTask(m, "gc", NoObject, m.loc)
             c == [at |-> m.at, etag |-> m.etag, loc |-> m.loc]
             del == [cond |-> m.cond, loc |-> m.loc]
  <2>0. m.loc \in Written /\ m.loc.store = "warm"
    BY <1>2, <1>5 DEF Results, Copied
  <2>1. u \in Updates /\ u.kind = "update" /\ u.pc = "gc" /\ u.msg = m /\ u.gc = m.loc
    BY <1>2, <1>5, <2>0 DEF Updates, UpdateTask
  <2>2. tasks' = tasks \cup {u}
    BY <1>5
  <2>3. c \in Copies /\ c.at = m.at /\ c.etag = m.etag /\ c.loc = m.loc
    BY <1>2, <1>5 DEF Copies, Succeeded
  <2>4. del.loc = m.loc
    OBVIOUS
  <2>5. Copies' = Copies /\ Deletes' = Deletes \cup {del}
    <3>1. \A t \in tasks' : Publishing(t) => t \in tasks
      BY <2>1, <2>2 DEF Publishing
    <3>2. Copies' = Copies
      BY <1>5, <3>1, <2>2 DEF Copies, Publishing, Succeeded
    <3>3. {x \in tasks' : Collecting(x)} = {x \in tasks : Collecting(x)} \cup {u}
      BY <2>1, <2>2 DEF Collecting
    <3>4. Deletes' = Deletes \cup {del}
      BY <1>5, <2>1, <3>3 DEF Deletes, Collecting
    <3> QED BY <3>2, <3>4
  <2> HIDE DEF u, c, del
  <2>6. u \in AllTasks /\ ~Publishing(u) /\ TaskCurrent(u)
    BY <2>1 DEF AllTasks, Publishing, TaskCurrent
  <2>7. Shape'
    <3>1. MsgsOK' /\ TasksOK'
      BY <1>1, <1>2, <1>5, <2>1, <2>2, <2>6, SameTypes DEF Inv, Shape, MsgsOK, TasksOK, Idle
    <3>2. CopiesOK'
      BY <1>5, <2>2, <2>6 DEF Inv, Shape, CopiesOK, Publishing, Succeeded
    <3>3. DataOK'
      BY <1>1, SameTypes DEF Inv, Shape, DataOK
    <3> QED BY <1>1, <3>1, <3>2, <3>3 DEF Shape
  <2>8. ASSUME Alive PROVE DeleteCurrent(del)
    <3>1. MsgCurrent(m) /\ CopyCurrent(c)
      BY <2>3, <2>8, AtHand DEF Inv, Current
    <3>2. m.at < md.at
      <4>1. m.at \in Nat /\ md.at \in Nat
        BY <1>2, <1>5, MdSeen DEF Results, Metas, Metadata
      <4>2. m.at <= md.at /\ (m.at = md.at => m.etag = md.etag)
        BY <1>2, <3>1 DEF MsgCurrent, Listed
      <4> QED BY <1>5, <4>1, <4>2 DEF WasObjectModified
    <3>3. md.at \in Nat /\ m.at \in Nat
      BY <1>2, <1>5, MdSeen DEF Results, Metas, Metadata
    <3>4. m.loc # md.loc
      BY <2>3, <3>1, <3>2, <3>3 DEF CopyCurrent
    <3>5. \A e \in Copies : e.loc = del.loc => e.at < md.at
      BY <2>3, <2>4, <3>2, OneCopy
    <3> QED BY <2>0, <2>4, <3>4, <3>5 DEF DeleteCurrent
  <2> QED BY <1>1, <1>5, <2>2, <2>5, <2>6, <2>7, <2>8, Kept
<1> QED BY <1>3, <1>4, <1>5 DEF UpdateReads

LEMMA PublishCopyLocationStatusInv ==
    ASSUME Inv, NEW t \in tasks, PublishCopyLocationStatus(t), UNCHANGED unversioned
    PROVE  Inv'
<1>1. UNCHANGED <<unversioned, md, data, clock, replaced, stale>> /\ StateOK'
  BY SameState, AtHand DEF PublishCopyLocationStatus, Done
<1>2. t \in Movers /\ t.msg \in Orders /\ t.kind = "mover" /\ t.msg.type = "copyLocation"
  BY AtHand, Kinds DEF PublishCopyLocationStatus, Orders
<1>3. msgs \subseteq AllMsgs
  BY DEF Inv, Shape, MsgsOK
<1>4. ASSUME NEW ok \in BOOLEAN, NEW loc \in IF ok THEN Copied ELSE {NoLoc}
      PROVE  LET m == Result(t.msg, ok, loc) IN
             m \in AllMsgs /\ m.type = "result" /\ m.ok = ok /\ m.loc = loc
             /\ m.at = t.msg.at /\ m.etag = t.msg.etag /\ (Alive => MsgCurrent(m))
  <2> DEFINE m == Result(t.msg, ok, loc)
  <2>1. m \in AllMsgs
    BY <1>2, <1>4 DEF AllMsgs, Orders, Results, Result
  <2>2. m.type = "result" /\ m.ok = ok /\ m.loc = loc
        /\ m.at = t.msg.at /\ m.etag = t.msg.etag /\ m.cond = t.msg.cond
    BY DEF Result
  <2> HIDE DEF m
  <2>3. Alive => MsgCurrent(m)
    BY <1>2, <2>2, AtHand DEF MsgCurrent
  <2> QED BY <2>1, <2>2, <2>3 DEF m
<1>5. CASE t.pc = "publish" /\ Done(t, {Result(t.msg, TRUE, t.loc)})
  <2> DEFINE m == Result(t.msg, TRUE, t.loc)
  <2>1. t.loc \in Copied /\ Publishing(t)
    BY <1>2, <1>5 DEF Movers, Publishing
  <2>2. m \in AllMsgs /\ Succeeded(m) /\ m.type # "deleteData" /\ m.loc = t.loc
        /\ m.at = t.msg.at /\ m.etag = t.msg.etag /\ (Alive => MsgCurrent(m))
    BY <1>4, <2>1 DEF Succeeded
  <2> HIDE DEF m
  <2>3. tasks' = tasks \ {t} /\ msgs' \subseteq msgs \cup {m} /\ msgs \ {t.msg} \subseteq msgs'
    BY <1>5 DEF Done, m
  <2>4. MsgsOK' /\ TasksOK'
    BY <1>1, <1>3, <2>2, <2>3, TaskGone
  <2>5. CopiesOK'
    BY <2>1, <2>2, <2>3 DEF Inv, Shape, CopiesOK, Publishing, Succeeded
  <2>6. Copies' \subseteq Copies
    <3>1. [at |-> t.msg.at, etag |-> t.msg.etag, loc |-> t.loc] \in Copies
      BY <2>1 DEF Copies
    <3>2. ASSUME NEW c \in Copies' PROVE c \in Copies
      <4>1. CASE \E x \in msgs' : Succeeded(x) /\ c = [at |-> x.at, etag |-> x.etag, loc |-> x.loc]
        BY <2>2, <2>3, <3>1, <4>1 DEF Copies
      <4>2. CASE \E x \in tasks' : Publishing(x)
                   /\ c = [at |-> x.msg.at, etag |-> x.msg.etag, loc |-> x.loc]
        BY <2>3, <4>2 DEF Copies
      <4> QED BY <3>2, <4>1, <4>2 DEF Copies, Succeeded, Publishing
    <3> QED BY <3>2
  <2>7. Deletes' \subseteq Deletes
    BY <2>2, <2>3 DEF Deletes, Collecting
  <2>8. DataOK'
    BY <1>1, SameTypes DEF Inv, Shape, DataOK
  <2> QED BY <1>1, <2>2, <2>3, <2>4, <2>5, <2>6, <2>7, <2>8, Kept DEF Shape
<1>6. CASE t.pc = "error" /\ Done(t, {Result(t.msg, FALSE, NoLoc)})
  <2> DEFINE m == Result(t.msg, FALSE, NoLoc)
  <2>2. m \in AllMsgs /\ ~Succeeded(m) /\ m.type # "deleteData" /\ (Alive => MsgCurrent(m))
    BY <1>4 DEF Succeeded
  <2> HIDE DEF m
  <2>3. tasks' = tasks \ {t} /\ msgs' \subseteq msgs \cup {m} /\ msgs \ {t.msg} \subseteq msgs'
    BY <1>6 DEF Done, m
  <2>4. MsgsOK' /\ TasksOK'
    BY <1>1, <1>3, <2>2, <2>3, TaskGone
  <2> QED BY <1>1, <2>2, <2>3, <2>4, Quiet
<1>7. CASE tasks' = tasks \ {t} /\ msgs' = msgs \ {t.msg}
  BY <1>1, <1>7, TaskEnds
<1> QED BY <1>5, <1>6, <1>7 DEF PublishCopyLocationStatus

LEMMA GarbageCollectLocationInv ==
    ASSUME Inv, NEW t \in tasks, GarbageCollectLocation(t), UNCHANGED unversioned
    PROVE  Inv'
<1>1. UNCHANGED <<unversioned, md, data, clock, replaced, stale>> /\ StateOK'
  BY SameState, AtHand DEF GarbageCollectLocation, Done
<1> DEFINE m == [type |-> "deleteData", n |-> t.msg.n, cond |-> t.msg.cond, loc |-> t.gc]
<1>2. t \in Updates /\ t.msg \in Results /\ Collecting(t)
  BY AtHand, Kinds DEF GarbageCollectLocation, Collecting
<1>3. msgs \subseteq AllMsgs
  BY DEF Inv, Shape, MsgsOK
<1>4. m \in AllMsgs /\ m.type = "deleteData" /\ m.cond = t.msg.cond /\ m.loc = t.gc
  BY <1>2 DEF Updates, Results, AllMsgs, Collections
<1>5. CASE tasks' = tasks \ {t} /\ msgs' = msgs \ {t.msg}
  BY <1>1, <1>5, TaskEnds
<1>6. CASE Done(t, {m})
  <2>1. tasks' = tasks \ {t} /\ msgs' \subseteq msgs \cup {m} /\ msgs \ {t.msg} \subseteq msgs'
    BY <1>6 DEF Done
  <2> HIDE DEF m
  <2>2. MsgsOK' /\ TasksOK'
    BY <1>1, <1>3, <1>4, <2>1, TaskGone
  <2>3. ~Succeeded(m) /\ MsgCurrent(m)
    BY <1>4 DEF Succeeded, MsgCurrent
  <2>4. CopiesOK' /\ Copies' \subseteq Copies
    BY <2>1, <2>3 DEF Inv, Shape, CopiesOK, Publishing, Succeeded, Copies
  <2>5. Deletes' \subseteq Deletes
    <3>1. [cond |-> t.msg.cond, loc |-> t.gc] \in Deletes
      BY <1>2 DEF Deletes
    <3> QED BY <1>4, <2>1, <3>1 DEF Deletes, Collecting
  <2>6. DataOK'
    BY <1>1, SameTypes DEF Inv, Shape, DataOK
  <2> QED BY <1>1, <2>1, <2>2, <2>3, <2>4, <2>5, <2>6, Kept DEF Shape
<1> QED BY <1>5, <1>6 DEF GarbageCollectLocation

-----------------------------------------------------------------------------
(* Steps that write the object *)

(* The metadata still describe the same data *)
LEMMA SameObject ==
    ASSUME Inv, UNCHANGED <<unversioned, data, clock, msgs, replaced>>, StateOK',
           tasks' \subseteq tasks,
           Alive' => /\ Alive /\ md'.at = md.at /\ md'.etag = md.etag
                     /\ md'.loc = md.loc /\ md'.store = md.store
                     /\ md.repl = "COMPLETED" => md'.repl = "COMPLETED"
    PROVE  Inv'
<1>1. Shape'
  <2>1. MsgsOK' /\ TasksOK'
    BY SameTypes DEF Inv, Shape, MsgsOK, TasksOK
  <2>2. CopiesOK'
    BY DEF Inv, Shape, CopiesOK, Publishing, Succeeded
  <2>3. DataOK'
    BY SameTypes DEF Inv, Shape, DataOK
  <2> QED BY <2>1, <2>2, <2>3 DEF Shape
<1> SUFFICES ASSUME Alive' PROVE Current'
  BY <1>1 DEF Inv
<1>2. Current
  BY DEF Inv
<1>3. Copies' \subseteq Copies /\ Deletes' \subseteq Deletes
  BY DEF Copies, Deletes, Publishing, Collecting, Succeeded
<1>4. \A m : MsgCurrent(m) => MsgCurrent(m)'
  BY DEF MsgCurrent, Listed
<1>5. \A t : TaskCurrent(t) => TaskCurrent(t)'
  BY DEF TaskCurrent, SeenCurrent, Listed
<1>6. \A c : CopyCurrent(c) => CopyCurrent(c)'
  BY DEF CopyCurrent
<1>7. \A del : DeleteCurrent(del) => DeleteCurrent(del)'
  BY <1>3 DEF DeleteCurrent
<1>8. ObjectData'
  BY <1>2 DEF ObjectData, Current
<1> QED BY <1>2, <1>3, <1>4, <1>5, <1>6, <1>7, <1>8 DEF Current

LEMMA ReplicationCompletedInv == Inv /\ ReplicationCompleted /\ UNCHANGED unversioned => Inv'
<1> SUFFICES ASSUME Inv, ReplicationCompleted, UNCHANGED unversioned PROVE Inv'
  OBVIOUS
<1>1. md \in Metas /\ md' = [md EXCEPT !.repl = "COMPLETED"]
  BY MdSeen DEF ReplicationCompleted
<1>2. md' \in Metas /\ md'.at = md.at /\ md'.etag = md.etag /\ md'.loc = md.loc
      /\ md'.store = md.store /\ md'.repl = "COMPLETED"
  BY <1>1 DEF Metas, Metadata
<1>3. StateOK'
  BY <1>2, SameTypes DEF ReplicationCompleted, Inv, Shape, StateOK
<1>4. Alive' => Alive
  BY DEF ReplicationCompleted, Alive
<1> QED BY <1>2, <1>3, <1>4, SameObject DEF ReplicationCompleted

LEMMA SetTransitionInProgressInv ==
    ASSUME Inv, NEW t \in tasks, SetTransitionInProgress(t), UNCHANGED unversioned
    PROVE  Inv'
<1>1. t \in Scans /\ t.seen \in Metas
  <2>1. t \in Scans
    BY AtHand, Kinds DEF SetTransitionInProgress
  <2> QED BY <2>1 DEF Scans, SetTransitionInProgress
<1>2. UNCHANGED <<unversioned, data, clock, msgs, replaced>> /\ tasks' \subseteq tasks
  BY DEF SetTransitionInProgress
<1> DEFINE new == [t.seen EXCEPT !.tip = TRUE]
<1>3. new \in Metas /\ new.at = t.seen.at /\ new.etag = t.seen.etag /\ new.loc = t.seen.loc
      /\ new.store = t.seen.store /\ new.repl = t.seen.repl
  BY <1>1 DEF Metas, Metadata
<1>4. CASE md # NoObject /\ PutMetadata(t.seen, new)
  <2> HIDE DEF new
  <2>1. StateOK'
    BY <1>2, <1>3, <1>4, SameTypes DEF SetTransitionInProgress, PutMetadata, Inv, Shape, StateOK
  <2>2. Alive' => Alive /\ md = t.seen
    BY <1>4 DEF Alive, PutMetadata
  <2> QED BY <1>2, <1>3, <1>4, <2>1, <2>2, SameObject DEF PutMetadata
<1>5. CASE md = NoObject /\ UNCHANGED <<md, stale>>
  <2>1. StateOK'
    BY <1>2, <1>5, SameTypes DEF SetTransitionInProgress, Inv, Shape, StateOK
  <2> QED BY <1>2, <1>5, <2>1, SameObject DEF Alive
<1> QED BY <1>4, <1>5 DEF SetTransitionInProgress

(* The object is gone *)
LEMMA ObjectGone ==
    ASSUME Inv, UNCHANGED <<unversioned, clock, replaced>>, StateOK', MsgsOK', TasksOK',
           data' \subseteq data, tasks' \subseteq tasks, msgs' \subseteq msgs, md' = NoObject
    PROVE  Inv'
<1>1. CopiesOK'
  BY DEF Inv, Shape, CopiesOK, Publishing, Succeeded
<1>2. DataOK'
  BY SameTypes DEF Inv, Shape, DataOK
<1> QED BY <1>1, <1>2 DEF Inv, Shape, Alive

LEMMA UserDeleteInv == Inv /\ UserDelete /\ UNCHANGED unversioned => Inv'
<1> SUFFICES ASSUME Inv, UserDelete, UNCHANGED unversioned PROVE Inv'
  OBVIOUS
<1>1. UNCHANGED <<clock, msgs, tasks, replaced>> /\ md' = NoObject /\ data' \subseteq data
  BY DEF UserDelete, RemoveObject, Without
<1>2. writes' \in 0 .. MaxWrites
  BY TransitionAssumption DEF UserDelete, Inv, Shape, StateOK, TransitionAssumption
<1>3. StateOK'
  BY <1>1, <1>2, SameTypes DEF UserDelete, Inv, Shape, StateOK
<1>4. MsgsOK' /\ TasksOK'
  BY <1>1, SameTypes DEF Inv, Shape, MsgsOK, TasksOK
<1> QED BY <1>1, <1>3, <1>4, ObjectGone

LEMMA ExecuteDeleteInv ==
    ASSUME Inv, NEW t \in tasks, ExecuteDelete(t), UNCHANGED unversioned
    PROVE  Inv'
<1>1. tasks' = tasks \ {t} /\ (msgs' = msgs \/ msgs' = msgs \ {t.msg})
      /\ (UNCHANGED faults \/ Fault)
  BY DEF ExecuteDelete, Done
<1>2. CASE md = NoObject /\ UNCHANGED <<md, data, stale>>
  BY <1>1, <1>2, AtHand, SameState, TaskEnds DEF ExecuteDelete
<1>3. CASE RemoveObject /\ stale' = (stale \/ md.at # t.seen.at)
  <2>1. md' = NoObject /\ data' \subseteq data
    BY <1>3 DEF RemoveObject, Without
  <2>2. faults' \in 0 .. MaxFaults
    BY <1>1, TransitionAssumption DEF Inv, Shape, StateOK, Fault, TransitionAssumption
  <2>3. StateOK'
    BY <1>3, <2>1, <2>2, SameTypes DEF ExecuteDelete, Inv, Shape, StateOK
  <2>4. msgs \ {t.msg} \subseteq msgs' /\ msgs' \subseteq AllMsgs
    BY <1>1 DEF Inv, Shape, MsgsOK
  <2>5. MsgsOK' /\ TasksOK'
    BY <1>1, <2>4, TaskGone DEF ExecuteDelete
  <2> QED BY <1>1, <2>1, <2>3, <2>5, ObjectGone DEF ExecuteDelete
<1> QED BY <1>2, <1>3 DEF ExecuteDelete

(* What the copies and the collections are made of *)
LEMMA CopyFacts ==
    ASSUME Inv, NEW c \in Copies
    PROVE  /\ c.loc \in Copied /\ c.at \in Nat /\ c.etag \in Contents
           /\ Alive => Listed(c.at, c.etag)
<1>1. CASE \E m \in msgs : Succeeded(m) /\ c = [at |-> m.at, etag |-> m.etag, loc |-> m.loc]
  <2>1. PICK m \in msgs : Succeeded(m) /\ c = [at |-> m.at, etag |-> m.etag, loc |-> m.loc]
    BY <1>1
  <2>2. m \in Results /\ m.ok /\ m.type = "result"
    BY <2>1, AtHand, Kinds DEF Succeeded
  <2>3. m.loc \in Copied /\ m.at \in Nat /\ m.etag \in Contents
    BY <2>2 DEF Results
  <2> QED BY <2>1, <2>2, <2>3, AtHand DEF MsgCurrent
<1>2. CASE \E t \in tasks : Publishing(t)
             /\ c = [at |-> t.msg.at, etag |-> t.msg.etag, loc |-> t.loc]
  <2>1. PICK t \in tasks : Publishing(t)
             /\ c = [at |-> t.msg.at, etag |-> t.msg.etag, loc |-> t.loc]
    BY <1>2
  <2>2. t \in Movers /\ t.msg \in Orders /\ t.pc = "publish" /\ t.msg \in msgs
    BY <2>1, AtHand, Kinds DEF Publishing
  <2>3. t.loc \in Copied /\ t.msg.at \in Nat /\ t.msg.etag \in Contents
        /\ t.msg.type = "copyLocation"
    BY <2>2 DEF Movers, Orders
  <2> QED BY <2>1, <2>2, <2>3, AtHand DEF MsgCurrent
<1> QED BY <1>1, <1>2 DEF Copies, Succeeded, Publishing

LEMMA DeleteFacts ==
    ASSUME Inv, NEW del \in Deletes
    PROVE  del.loc \in Written /\ del.cond \in Dates
<1>1. CASE \E m \in msgs : m.type = "deleteData" /\ del = [cond |-> m.cond, loc |-> m.loc]
  <2>1. PICK m \in msgs : m.type = "deleteData" /\ del = [cond |-> m.cond, loc |-> m.loc]
    BY <1>1
  <2>2. m \in Collections
    BY <2>1, AtHand, Kinds
  <2> QED BY <2>1, <2>2 DEF Collections
<1>2. CASE \E t \in tasks : Collecting(t) /\ del = [cond |-> t.msg.cond, loc |-> t.gc]
  <2>1. PICK t \in tasks : Collecting(t) /\ del = [cond |-> t.msg.cond, loc |-> t.gc]
    BY <1>2
  <2>2. t \in Updates /\ t.msg \in Results
    BY <2>1, AtHand, Kinds DEF Collecting
  <2>3. t.gc \in Written /\ t.msg.cond \in Dates
    BY <2>2 DEF Updates, Results
  <2> QED BY <2>1, <2>3
<1> QED BY <1>1, <1>2 DEF Deletes, Collecting

LEMMA UpdateMdWithTransitionInv ==
    ASSUME Inv, NEW t \in tasks, UpdateMdWithTransition(t), UNCHANGED unversioned
    PROVE  Inv'
<1>0. t \in Updates /\ t.msg \in Results /\ t.msg \in msgs /\ t.pc = "put" /\ t.kind = "update"
  BY AtHand, Kinds DEF UpdateMdWithTransition
<1>1. /\ t.msg.ok /\ t.seen \in Metas /\ t.seen.at = t.msg.at /\ t.seen.etag = t.msg.etag
      /\ t.gc = t.seen.loc /\ t.gc # t.msg.loc /\ t.gc \in Written /\ t.msg.loc \in Copied
      /\ t.msg.type = "result"
  <2>1. t.msg.ok /\ t.seen \in Metas /\ t.seen.at = t.msg.at /\ t.seen.etag = t.msg.etag
        /\ t.gc = t.seen.loc /\ t.gc # t.msg.loc /\ t.gc \in Written
    BY <1>0 DEF Updates
  <2> QED BY <1>0, <2>1 DEF Results
<1> DEFINE new == [t.seen EXCEPT !.loc = t.msg.loc, !.store = "warm", !.tip = FALSE]
           u == [t EXCEPT !.pc = "gc", !.seen = NoObject]
           c == [at |-> t.msg.at, etag |-> t.msg.etag, loc |-> t.msg.loc]
           del == [cond |-> t.msg.cond, loc |-> t.gc]
<1>2. CASE md = NoObject /\ Done(t, {}) /\ UNCHANGED <<md, replaced, stale>>
  BY <1>2, AtHand, SameState, TaskEnds DEF UpdateMdWithTransition, Done
<1>3. CASE /\ md # NoObject /\ md' = new
           /\ stale' = (stale \/ md # t.seen \/ new.loc \in replaced)
           /\ replaced' = replaced \cup {t.gc}
           /\ tasks' = (tasks \ {t}) \cup {u} /\ UNCHANGED <<msgs, faults>>
  <2>1. new \in Metas /\ new.at = t.seen.at /\ new.etag = t.seen.etag /\ new.loc = t.msg.loc
        /\ new.store = "warm" /\ new.repl = t.seen.repl
    BY <1>1 DEF Metas, Metadata, Copied, Locs, Written
  <2>2. u \in Updates /\ u.kind = "update" /\ u.pc = "gc" /\ u.msg = t.msg /\ u.gc = t.gc
    BY <1>0, <1>1 DEF Updates
  <2>3. c \in Copies /\ c.at = t.msg.at /\ c.etag = t.msg.etag /\ c.loc = t.msg.loc
    BY <1>0, <1>1 DEF Copies, Succeeded
  <2>4. del.loc = t.gc /\ del.cond = t.msg.cond
    OBVIOUS
  <2>5. Copies' = Copies /\ Deletes' = Deletes \cup {del}
    <3>1. Copies' = Copies
      BY <1>0, <1>3, <2>2 DEF Copies, Publishing, Succeeded
    <3>2. {x \in tasks' : Collecting(x)} = {x \in tasks : Collecting(x)} \cup {u}
      BY <1>0, <1>3, <2>2 DEF Collecting
    <3>3. Deletes' = Deletes \cup {del}
      <4>1. u.msg.cond = t.msg.cond
        BY <2>2
      <4> HIDE DEF u
      <4> QED BY <1>3, <2>2, <3>2, <4>1 DEF Deletes, Collecting
    <3> QED BY <3>1, <3>3
  <2> HIDE DEF new, u, c, del
  <2>6. UNCHANGED <<unversioned, data, clock, scans, writes, thrown>>
    BY DEF UpdateMdWithTransition
  <2>7. Shape'
    <3>1. StateOK'
      BY <1>1, <1>3, <2>1, <2>6, SameTypes DEF Inv, Shape, StateOK
    <3>2. MsgsOK' /\ TasksOK'
      BY <1>0, <1>3, <2>2, <2>6, SameTypes DEF Inv, Shape, MsgsOK, TasksOK, AllTasks
    <3>3. CopiesOK'
      BY <1>3, <2>2 DEF Inv, Shape, CopiesOK, Publishing, Succeeded
    <3>4. DataOK'
      BY <2>6, SameTypes DEF Inv, Shape, DataOK
    <3> QED BY <3>1, <3>2, <3>3, <3>4 DEF Shape
  <2> SUFFICES ASSUME Alive' PROVE Current'
    BY <2>7 DEF Inv
  <2>8. Alive /\ Current /\ md = t.seen /\ t.msg.loc \notin replaced
    BY <1>3, <2>1 DEF Inv, Alive
  <2>9. md'.at = md.at /\ md'.etag = md.etag /\ md'.loc = c.loc /\ md'.store = "warm"
        /\ md'.repl = md.repl
    BY <1>3, <2>1, <2>3, <2>8
  <2>10. \A m : MsgCurrent(m) => MsgCurrent(m)'
    BY <2>9 DEF MsgCurrent, Listed
  <2>11. ASSUME NEW v \in tasks' PROVE TaskCurrent(v)'
    <3>1. TaskCurrent(v)
      BY <1>3, <2>2, <2>8 DEF Current, TaskCurrent
    <3> QED BY <2>9, <3>1 DEF TaskCurrent, SeenCurrent, Listed
  <2>12. ASSUME NEW e \in Copies PROVE CopyCurrent(e)'
    <3>1. e.loc = md'.loc => e.at = md'.at
      BY <1>1, <2>3, <2>8, <2>9, OneCopy
    <3>2. CopyCurrent(e)
      BY <2>8 DEF Current
    <3> QED BY <1>3, <2>6, <2>9, <3>1, <3>2 DEF CopyCurrent
  <2>13. ASSUME NEW e \in Deletes' PROVE DeleteCurrent(e)'
    <3>1. ASSUME NEW d \in Copies, d.loc = e.loc PROVE d.loc \in replaced' \/ d.at < md'.at
      BY <1>3, <2>4, <2>5, <2>8, <2>9, <3>1 DEF Current, DeleteCurrent
    <3>2. e.loc # md'.loc
      <4>1. CASE e = del
        BY <1>1, <2>3, <2>4, <2>9, <4>1
      <4>2. CASE e \in Deletes
        <5>1. ASSUME e.loc = c.loc PROVE FALSE
          <6>1. c.at < md.at
            BY <2>3, <2>8, <4>2, <5>1 DEF Current, DeleteCurrent
          <6>2. c.at = md.at /\ md.at \in Nat
            BY <1>1, <2>3, <2>8, MdSeen DEF Metas, Metadata
          <6> QED BY <6>1, <6>2
        <5> QED BY <2>9, <5>1
      <4> QED BY <2>5, <4>1, <4>2
    <3>3. e.loc.store = "hot" /\ "hot" \in unversioned => e.cond # NoCond
      <4>1. CASE e = del
        <5>1. MsgCurrent(t.msg)
          BY <1>0, <2>8 DEF Current
        <5>2. md.store = t.gc.store
          BY <1>1, <2>8 DEF Metas
        <5> QED BY <1>1, <2>4, <2>8, <4>1, <5>1, <5>2 DEF MsgCurrent
      <4>2. CASE e \in Deletes
        BY <2>8, <4>2 DEF Current, DeleteCurrent
      <4> QED BY <2>5, <4>1, <4>2
    <3> QED BY <2>5, <2>6, <3>1, <3>2, <3>3 DEF DeleteCurrent
  <2>14. ObjectData'
    <3>1. CopyCurrent(c) /\ c.at = md.at /\ c.loc \notin replaced /\ c.etag = md.etag
      BY <1>1, <2>3, <2>8 DEF Current
    <3> QED BY <2>6, <2>9, <3>1 DEF CopyCurrent, ObjectData
  <2> QED BY <1>3, <2>5, <2>8, <2>10, <2>11, <2>12, <2>13, <2>14 DEF Current
<1> QED BY <1>2, <1>3 DEF UpdateMdWithTransition, PutMetadata

-----------------------------------------------------------------------------
(* Steps that write or delete data *)

LEMMA ExecuteDeleteDataInv ==
    ASSUME Inv, NEW m \in msgs, ExecuteDeleteData(m), UNCHANGED unversioned
    PROVE  Inv'
<1> DEFINE del == [cond |-> m.cond, loc |-> m.loc]
<1>1. m \in Collections /\ m.type = "deleteData"
  BY AtHand, Kinds DEF ExecuteDeleteData
<1>2. tasks' = tasks /\ (msgs' = msgs \/ msgs' = msgs \ {m})
  <2>1. [msg |-> m] \notin tasks
    BY AtHand, NotATask
  <2> QED BY <2>1 DEF ExecuteDeleteData, Done
<1>3. UNCHANGED <<unversioned, md, clock, replaced, stale>> /\ StateOK'
  BY SameState, AtHand DEF ExecuteDeleteData, Done
<1>4. del \in Deletes /\ del.cond = m.cond /\ del.loc = m.loc
  BY <1>1 DEF Deletes
<1> HIDE DEF del
<1>5. Shape'
  <2>1. \A t \in tasks : t.kind # "scan" => t.msg # m
    <3> SUFFICES ASSUME NEW t \in tasks, t.kind # "scan", t.msg = m PROVE FALSE
      OBVIOUS
    <3>1. t.msg \in Orders \cup Results \cup Expirations
      BY AtHand, Kinds DEF AllTasks, Scans, Movers, Updates, Deletions
    <3> QED BY <1>1, <3>1 DEF Orders, Results, Expirations
  <2>2. MsgsOK' /\ TasksOK'
    BY <1>2, <1>3, <2>1, SameTypes DEF Inv, Shape, MsgsOK, TasksOK
  <2>3. CopiesOK'
    BY <1>2 DEF Inv, Shape, CopiesOK, Publishing, Succeeded
  <2>4. DataOK'
    BY <1>3, SameTypes DEF ExecuteDeleteData, Without, Inv, Shape, DataOK
  <2> QED BY <1>3, <2>2, <2>3, <2>4 DEF Shape
<1> SUFFICES ASSUME Alive' PROVE Current'
  BY <1>5 DEF Inv
<1>6. Alive /\ Current
  BY <1>3 DEF Inv, Alive
<1>7. Copies' \subseteq Copies /\ Deletes' \subseteq Deletes
  BY <1>2 DEF Copies, Deletes, Publishing, Collecting, Succeeded
<1>8. CASE data' = data
  <2>1. Shape' /\ msgs' \subseteq msgs
    BY <1>2, <1>5
  <2> QED BY <1>2, <1>3, <1>7, <1>8, <2>1, Kept DEF Inv
<1>9. CASE data' = Without(m.loc) /\ SourceUnmodified(m)
  <2>1. m.loc # md.loc
    <3> SUFFICES ASSUME m.loc = md.loc PROVE FALSE
      OBVIOUS
    <3>1. md.store = "hot" /\ m.cond # NoCond /\ m.cond < md.at
      BY <1>4, <1>6 DEF Current, DeleteCurrent
    <3>2. PICK d \in data : d.loc = md.loc /\ d.at = md.at
      BY <1>6, <3>1 DEF Current, ObjectData
    <3>3. md \in Metas
      BY <1>6, MdSeen DEF Alive
    <3>4. d.loc.store = "hot"
      BY <3>1, <3>2, <3>3 DEF Metas
    <3>5. m.cond \in Int /\ md.at \in Nat
      BY <1>1, <3>3 DEF Collections, Dates, Metas, Metadata
    <3> QED BY <1>9, <3>1, <3>2, <3>4, <3>5 DEF SourceUnmodified
  <2>2. \A c \in Copies : c.at = md.at /\ c.loc \notin replaced => c.loc # m.loc
    <3> SUFFICES ASSUME NEW c \in Copies, c.at = md.at, c.loc \notin replaced, c.loc = m.loc
                 PROVE  FALSE
      OBVIOUS
    <3>1. c.at < md.at
      BY <1>4, <1>6 DEF Current, DeleteCurrent
    <3>2. md.at \in Nat
      BY <1>6, MdSeen DEF Alive, Metas, Metadata
    <3> QED BY <3>1, <3>2
  <2>3. \A x : MsgCurrent(x) => MsgCurrent(x)'
    BY <1>3 DEF MsgCurrent, Listed
  <2>4. \A x : TaskCurrent(x) => TaskCurrent(x)'
    BY <1>3 DEF TaskCurrent, SeenCurrent, Listed
  <2>5. ASSUME NEW c \in Copies PROVE CopyCurrent(c)'
    <3>1. CopyCurrent(c)
      BY <1>6 DEF Current
    <3> QED BY <1>3, <1>9, <2>2, <3>1 DEF CopyCurrent, Without
  <2>6. ASSUME NEW e \in Deletes PROVE DeleteCurrent(e)'
    <3>1. DeleteCurrent(e)
      BY <1>6 DEF Current
    <3> QED BY <1>3, <1>7, <3>1 DEF DeleteCurrent
  <2>7. ObjectData'
    <3>1. ObjectData
      BY <1>6 DEF Current
    <3> QED BY <1>3, <1>9, <2>1, <3>1 DEF ObjectData, Without
  <2> QED BY <1>2, <1>6, <1>7, <2>3, <2>4, <2>5, <2>6, <2>7 DEF Current
<1> QED BY <1>8, <1>9 DEF ExecuteDeleteData

(* The types grow with the clock *)
LEMMA TypesGrow ==
    ASSUME clock \in Nat, clock' = clock + 1
    PROVE  /\ Written \subseteq Written' /\ Copied \subseteq Copied' /\ Dates \subseteq Dates'
           /\ Metas \subseteq Metas' /\ Stored \subseteq Stored'
           /\ AllMsgs \subseteq AllMsgs' /\ AllTasks \subseteq AllTasks'
<1>1. Written \subseteq Written' /\ Dates \subseteq Dates'
  BY DEF Written, Dates
<1>2. Copied \subseteq Copied'
  BY <1>1 DEF Copied
<1>3. Metas \subseteq Metas'
  <2> SUFFICES ASSUME NEW m \in Metas PROVE m \in Metas'
    OBVIOUS
  <2>1. m.at \in Nat /\ m.at <= clock /\ m \in Metadata /\ m.loc \in Written /\ m.loc.store = m.store
    BY DEF Metas, Metadata
  <2>2. m.at <= clock + 1
    BY <2>1
  <2> QED BY <1>1, <2>1, <2>2 DEF Metas
<1>4. Stored \subseteq Stored'
  BY <1>1 DEF Stored
<1>5. Orders \subseteq Orders' /\ Results \subseteq Results' /\ Collections \subseteq Collections'
      /\ Expirations' = Expirations
  BY <1>1, <1>2 DEF Orders, Results, Collections, Expirations
<1>6. Scans \subseteq Scans' /\ Deletions \subseteq Deletions'
  BY <1>3, <1>5 DEF Scans, Deletions
<1>7. Movers \subseteq Movers'
  BY <1>2, <1>5 DEF Movers
<1>8. Updates \subseteq Updates'
  BY <1>1, <1>3, <1>5 DEF Updates
<1> QED BY <1>1, <1>2, <1>3, <1>4, <1>5, <1>6, <1>7, <1>8 DEF AllMsgs, AllTasks

(* The store that objects are moved to keeps every copy at a location of its  *)
(* own.  In an unversioned one the rollback of one copy deletes a later copy. *)
VersionedDestination == StoreModes \subseteq SUBSET {"hot"}

(* A copy is stored at a new location *)
LEMMA StoreCopyInv ==
    ASSUME Inv, VersionedDestination, NEW t \in tasks, t.kind = "mover",
           NEW etag \in Contents \cup {Mixed}, NEW next \in {"publish", "error"},
           Alive /\ t.msg.at = md.at => etag = t.msg.etag,
           StoreCopy(t, etag, next), UNCHANGED faults \/ Fault,
           UNCHANGED <<unversioned, md, msgs, scans, writes, replaced, stale, thrown>>
    PROVE  Inv'
<1> DEFINE loc == [store |-> "warm", id |-> clock + 1]
           u == [t EXCEPT !.pc = next, !.loc = loc, !.parts = {}]
           copy == [loc |-> loc, etag |-> etag, at |-> clock + 1]
           c == [at |-> t.msg.at, etag |-> t.msg.etag, loc |-> loc]
<1>0. clock \in Nat /\ data \subseteq Stored /\ unversioned \in SUBSET {"hot"}
  BY DEF Inv, Shape, StateOK, DataOK, VersionedDestination
<1>1. Loc("warm", clock + 1) = loc
  BY <1>0 DEF Loc
<1>2. loc \in Copied' /\ loc \notin Written /\ clock' = clock + 1
  BY <1>0 DEF Copied, Written, StoreCopy
<1>3. copy \in Stored'
  BY <1>0, <1>2 DEF Stored, Copied
<1>4. t \in Movers /\ t.msg \in Orders /\ t.msg \in msgs /\ t \in AllTasks
  BY AtHand, Kinds
<1>5. u \in Movers' /\ u.kind = "mover" /\ u.pc = next /\ u.msg = t.msg /\ u.loc = loc
      /\ u.parts = {}
  <2>1. t \in Movers'
    BY <1>0, <1>2, <1>4, TypesGrow DEF Movers, Orders, Dates
  <2> QED BY <1>2, <2>1 DEF Movers
<1>6. copy.loc = loc /\ copy.etag = etag /\ copy.at = clock + 1
  OBVIOUS
<1>7. c.loc = loc /\ c.at = t.msg.at /\ c.etag = t.msg.etag
  OBVIOUS
<1>8. tasks' = (tasks \ {t}) \cup {u}
  BY <1>1 DEF StoreCopy
<1>9. data' = data \cup {copy}
  <2>1. \A d \in data : d.loc # loc
    BY <1>0, <1>2 DEF Stored
  <2>2. Without(loc) = data
    BY <2>1 DEF Without
  <2> QED BY <1>1, <2>2 DEF StoreCopy, Copy
<1>10. Copies' \subseteq Copies \cup {c} /\ Deletes' \subseteq Deletes
  <2> HIDE DEF u, loc
  <2>1. \A x \in tasks' : Publishing(x) => x \in tasks \/ x = u
    BY <1>8
  <2>2. Copies' \subseteq Copies \cup {c}
    BY <1>5, <2>1 DEF Copies, Publishing, Succeeded
  <2>3. \A x \in tasks' : Collecting(x) => x \in tasks
    BY <1>5, <1>8 DEF Collecting
  <2>4. Deletes' \subseteq Deletes
    BY <2>3 DEF Deletes, Collecting
  <2> QED BY <2>2, <2>4
<1> HIDE DEF loc, u, copy, c
<1>11. Shape'
  <2>1. StateOK'
    <3>1. faults' \in 0 .. MaxFaults
      BY TransitionAssumption DEF Inv, Shape, StateOK, Fault, TransitionAssumption
    <3>2. md \in Metas' \cup {NoObject} /\ replaced \subseteq Written' /\ clock' \in Nat
      BY <1>0, <1>2, TypesGrow DEF Inv, Shape, StateOK
    <3> QED BY <3>1, <3>2 DEF Inv, Shape, StateOK
  <2>2. DataOK'
    <3>1. data' \subseteq Stored'
      BY <1>0, <1>2, <1>3, <1>9, TypesGrow
    <3>2. \A d \in data : d.loc # loc
      BY <1>0, <1>2 DEF Stored
    <3> QED BY <1>6, <1>9, <3>1, <3>2 DEF Inv, Shape, DataOK
  <2>3. MsgsOK' /\ TasksOK'
    <3>1. u \in AllTasks'
      BY <1>5 DEF AllTasks
    <3>2. tasks' \subseteq AllTasks' /\ msgs \subseteq AllMsgs'
      BY <1>0, <1>2, <1>8, <3>1, TypesGrow DEF Inv, Shape, TasksOK, MsgsOK
    <3> QED BY <1>4, <1>5, <1>8, <3>2 DEF Inv, Shape, TasksOK, MsgsOK
  <2>4. CopiesOK'
    <3>1. \A m \in msgs : Succeeded(m) => m.loc \in Written
      BY AtHand, Kinds DEF Succeeded, Results, Copied
    <3>2. \A x \in tasks : Publishing(x) => x.loc \in Written
      BY AtHand, Kinds DEF Publishing, Movers, Copied
    <3>3. \A x \in tasks' : x = u \/ x \in tasks
      BY <1>8
    <3> QED BY <1>2, <1>5, <3>1, <3>2, <3>3 DEF Inv, Shape, CopiesOK, Publishing, Succeeded
  <2> QED BY <2>1, <2>2, <2>3, <2>4 DEF Shape
<1> SUFFICES ASSUME Alive' PROVE Current'
  BY <1>11 DEF Inv
<1>12. Alive /\ Current /\ md \in Metas
  BY MdSeen DEF Inv, Alive
<1>13. \A x : MsgCurrent(x) => MsgCurrent(x)'
  BY DEF MsgCurrent, Listed
<1>14. ASSUME NEW x \in tasks' PROVE TaskCurrent(x)'
  <2>1. TaskCurrent(x)
    BY <1>5, <1>8, <1>12 DEF Current, TaskCurrent
  <2> QED BY <2>1 DEF TaskCurrent, SeenCurrent, Listed
<1>15. md.loc # loc
  BY <1>2, <1>12 DEF Metas
<1>16. ASSUME NEW e \in Copies' PROVE CopyCurrent(e)'
  <2>1. CASE e \in Copies
    <3>1. CopyCurrent(e)
      BY <1>12, <2>1 DEF Current
    <3> QED BY <1>9, <3>1 DEF CopyCurrent
  <2>2. CASE e = c
    <3>1. e.loc # md.loc
      BY <1>7, <1>15, <2>2
    <3>2. e.at = md.at => copy.loc = e.loc /\ copy.etag = e.etag
      BY <1>6, <1>7, <1>12, <2>2
    <3> QED BY <1>9, <3>1, <3>2 DEF CopyCurrent
  <2> QED BY <1>10, <2>1, <2>2
<1>17. ASSUME NEW e \in Deletes' PROVE DeleteCurrent(e)'
  <2>1. e \in Deletes
    BY <1>10
  <2>2. e.loc # loc
    BY <1>2, <2>1, DeleteFacts
  <2>3. DeleteCurrent(e)
    BY <1>12, <2>1 DEF Current
  <2> QED BY <1>7, <1>10, <2>2, <2>3 DEF DeleteCurrent
<1>18. ObjectData'
  BY <1>9, <1>12 DEF Current, ObjectData
<1> QED BY <1>12, <1>13, <1>14, <1>16, <1>17, <1>18 DEF Current

LEMMA GetAndPutObjectInv ==
    ASSUME Inv, VersionedDestination, NEW t \in tasks, GetAndPutObject(t), UNCHANGED unversioned
    PROVE  Inv'
<1>1. t \in Movers /\ t.msg \in Orders /\ t.kind = "mover"
  BY AtHand, Kinds DEF GetAndPutObject
<1>2. CASE UNCHANGED <<data, clock, faults>> /\ tasks' = (tasks \ {t}) \cup {MoverFailed(t)}
  <2> DEFINE u == MoverFailed(t)
  <2>1. u \in Movers /\ u.kind = t.kind /\ u.msg = t.msg /\ u.pc = "error" /\ u.parts = {}
    BY <1>1 DEF Movers, MoverFailed
  <2> HIDE DEF u
  <2>2. u \in AllTasks /\ ~Publishing(u) /\ ~Collecting(u) /\ TaskCurrent(u)
    BY <1>1, <2>1 DEF AllTasks, Publishing, Collecting, TaskCurrent
  <2>3. UNCHANGED <<unversioned, md, data, clock, replaced, stale>> /\ StateOK' /\ msgs' = msgs
    BY <1>2, SameState, AtHand DEF GetAndPutObject
  <2> QED BY <1>2, <2>1, <2>2, <2>3, TaskGoesOn DEF u, Inv, Shape, MsgsOK
<1>3. CASE \E next \in {"publish", "error"} :
             StoreCopy(t, t.msg.etag, next) /\ (UNCHANGED faults \/ Fault)
  <2>1. PICK next \in {"publish", "error"} :
             StoreCopy(t, t.msg.etag, next) /\ (UNCHANGED faults \/ Fault)
    BY <1>3
  <2>2. t.msg.etag \in Contents \cup {Mixed}
    BY <1>1 DEF Orders
  <2>3. UNCHANGED <<unversioned, md, msgs, scans, writes, replaced, stale, thrown>>
    BY DEF GetAndPutObject
  <2> QED BY <1>1, <2>1, <2>2, <2>3, StoreCopyInv
<1> QED BY <1>2, <1>3 DEF GetAndPutObject

(* Parts that cover the object and all have its contents are the object *)
LEMMA AssembledContents ==
    ASSUME Inv, NEW t \in tasks, t.kind = "mover", t.parts # {}
    PROVE  /\ Assembled(t) \in Contents \cup {Mixed}
           /\ Alive /\ t.msg.at = md.at => Assembled(t) = t.msg.etag
<1> DEFINE etags == {p.etag : p \in t.parts}
           whole == Tile(Ranges(t), Length[t.msg.etag])
<1>1. t \in Movers /\ t.msg \in Orders
  BY AtHand, Kinds
<1>2. t.parts \subseteq Parts /\ t.msg.etag \in Contents
      /\ (Length[t.msg.etag] = 0 => t.parts = {})
  BY <1>1 DEF Movers, Orders
<1>3. etags \subseteq Contents \cup {Mixed}
  BY <1>2 DEF Parts
<1>4. Assembled(t) = IF Cardinality(etags) = 1 /\ whole THEN CHOOSE e \in etags : TRUE ELSE Mixed
  BY DEF Assembled
<1>5. etags # {}
  OBVIOUS
<1>6. ASSUME Alive, t.msg.at = md.at
      PROVE  Cardinality(etags) = 1 /\ whole /\ (CHOOSE e \in etags : TRUE) = t.msg.etag
  <2>1. \A p \in t.parts : p.etag = t.msg.etag
    BY <1>6, AtHand DEF TaskCurrent
  <2>2. etags = {t.msg.etag}
    BY <1>5, <2>1
  <2>3. Cardinality(etags) = 1
    BY <2>2, FS_Singleton
  <2>4. whole
    <3>1. Length[t.msg.etag] \in Nat \ {0}
      BY <1>2, TransitionAssumption DEF TransitionAssumption
    <3>2. Ranges(t) = GetRanges(Length[t.msg.etag], FALSE)
      BY DEF Ranges
    <3> QED BY <3>1, <3>2, RangesOfEveryLength
  <2>5. (CHOOSE e \in etags : TRUE) = t.msg.etag
    BY <2>2
  <2> QED BY <2>3, <2>4, <2>5
<1> HIDE DEF etags, whole
<1>7. Assembled(t) \in Contents \cup {Mixed}
  BY <1>3, <1>4, <1>5
<1> QED BY <1>4, <1>6, <1>7

LEMMA CompleteMPUInv ==
    ASSUME Inv, VersionedDestination, NEW t \in tasks, CompleteMPU(t), UNCHANGED unversioned
    PROVE  Inv'
<1>1. t \in Movers /\ t.msg \in Orders /\ t.kind = "mover"
  BY AtHand, Kinds DEF CompleteMPU
<1>2. CASE UNCHANGED <<data, clock>> /\ tasks' = (tasks \ {t}) \cup {MoverFailed(t)} /\ Fault
  <2> DEFINE u == MoverFailed(t)
  <2>1. u \in Movers /\ u.kind = t.kind /\ u.msg = t.msg /\ u.pc = "error" /\ u.parts = {}
    BY <1>1 DEF Movers, MoverFailed
  <2> HIDE DEF u
  <2>2. u \in AllTasks /\ ~Publishing(u) /\ ~Collecting(u) /\ TaskCurrent(u)
    BY <1>1, <2>1 DEF AllTasks, Publishing, Collecting, TaskCurrent
  <2>3. UNCHANGED <<unversioned, md, data, clock, replaced, stale>> /\ StateOK' /\ msgs' = msgs
    BY <1>2, SameState, AtHand DEF CompleteMPU
  <2> QED BY <1>2, <2>1, <2>2, <2>3, TaskGoesOn DEF u, Inv, Shape, MsgsOK
<1>3. CASE \E next \in {"publish", "error"} :
             StoreCopy(t, Assembled(t), next) /\ (UNCHANGED faults \/ Fault)
  <2>1. PICK next \in {"publish", "error"} :
             StoreCopy(t, Assembled(t), next) /\ (UNCHANGED faults \/ Fault)
    BY <1>3
  <2>2. t.parts # {}
    <3>1. Length[t.msg.etag] \in Nat
      BY <1>1, TransitionAssumption DEF Orders, TransitionAssumption
    <3>2. Len(Ranges(t)) \in Nat \ {0}
      <4>1. CASE Length[t.msg.etag] = 0
        BY <4>1 DEF Ranges, GetRanges
      <4>2. CASE Length[t.msg.etag] # 0
        BY <3>1, <4>2, RangesOfEveryLength DEF Ranges
      <4> QED BY <4>1, <4>2
    <3>3. 1 \in {p.i : p \in t.parts}
      BY <3>2 DEF CompleteMPU
    <3> QED BY <3>3
  <2>3. UNCHANGED <<unversioned, md, msgs, scans, writes, replaced, stale, thrown>>
    BY DEF CompleteMPU
  <2> DEFINE etag == Assembled(t)
  <2>4. /\ etag \in Contents \cup {Mixed}
        /\ Alive /\ t.msg.at = md.at => etag = t.msg.etag
        /\ StoreCopy(t, etag, next) /\ (UNCHANGED faults \/ Fault)
    BY <1>1, <2>1, <2>2, AssembledContents
  <2> HIDE DEF etag
  <2> QED BY <1>1, <2>3, <2>4, StoreCopyInv
<1> QED BY <1>2, <1>3 DEF CompleteMPU

(* A user's write is later than all that was listed, and at a location that no *)
(* copy has; a collection of the location it overwrites is too old for it.     *)
LEMMA UserPutInv ==
    ASSUME Inv, NEW x \in Contents, UserPut(x), UNCHANGED unversioned
    PROVE  Inv'
<1> DEFINE loc == Loc("hot", clock + 1)
           copy == [loc |-> loc, etag |-> x, at |-> clock + 1]
           new == [etag |-> x, at |-> clock + 1, loc |-> loc, store |-> "hot",
                   tip |-> FALSE, repl |-> "COMPLETED"]
<1>0. clock \in Nat /\ data \subseteq Stored /\ md \in Metas /\ clock' = clock + 1
  BY MdSeen DEF Inv, Shape, StateOK, DataOK, UserPut
<1>1. /\ loc \in Written' /\ loc.store = "hot" /\ loc \in Locs
      /\ loc.id = IF "hot" \in unversioned THEN 0 ELSE clock + 1
  BY <1>0 DEF Loc, Written, Locs
<1>2. copy.loc = loc /\ copy.etag = x /\ copy.at = clock + 1
  OBVIOUS
<1>3. new.at = clock + 1 /\ new.etag = x /\ new.loc = loc /\ new.store = "hot"
      /\ new.repl = "COMPLETED"
  OBVIOUS
<1> HIDE DEF loc
<1>4. copy \in Stored'
  BY <1>0, <1>1 DEF Stored
<1>5. new \in Metas'
  <2>1. new \in Metadata
    BY <1>0, <1>1 DEF Metadata
  <2> QED BY <1>0, <1>1, <1>3, <2>1 DEF Metas
<1> HIDE DEF copy, new
<1>6. /\ md' = new /\ data' = {d \in Without(md.loc) : d.loc # loc} \cup {copy}
      /\ UNCHANGED <<unversioned, msgs, tasks, replaced, stale, scans, faults, thrown>>
  BY <1>0 DEF UserPut, Copy, loc, copy, new
<1>7. Shape'
  <2>1. StateOK'
    <3>1. writes' \in 0 .. MaxWrites
      BY TransitionAssumption DEF UserPut, Inv, Shape, StateOK, TransitionAssumption
    <3>2. replaced \subseteq Written' /\ clock' \in Nat
      BY <1>0, TypesGrow DEF Inv, Shape, StateOK
    <3> QED BY <1>5, <1>6, <3>1, <3>2 DEF Inv, Shape, StateOK
  <2>2. DataOK'
    <3>1. data' \subseteq Stored'
      BY <1>0, <1>4, <1>6, TypesGrow DEF Without
    <3> QED BY <1>2, <1>6, <3>1 DEF Inv, Shape, DataOK, Without
  <2>3. MsgsOK' /\ TasksOK'
    <3>1. tasks \subseteq AllTasks' /\ msgs \subseteq AllMsgs'
      BY <1>0, TypesGrow DEF Inv, Shape, TasksOK, MsgsOK
    <3> QED BY <1>6, <3>1 DEF Inv, Shape, TasksOK, MsgsOK
  <2>4. CopiesOK'
    BY <1>6 DEF Inv, Shape, CopiesOK
  <2> QED BY <2>1, <2>2, <2>3, <2>4 DEF Shape
<1> SUFFICES ASSUME Alive' PROVE Current'
  BY <1>7 DEF Inv
<1>8. Alive /\ Current
  BY <1>0, <1>6, MetaIsObject DEF Inv, Alive
<1>9. md.at \in Nat /\ md.at <= clock /\ md'.at = clock + 1
  BY <1>0, <1>3, <1>6 DEF Metas, Metadata
<1>10. \A at \in Nat : \A etag : Listed(at, etag) => at < md'.at /\ Listed(at, etag)'
  BY <1>0, <1>9 DEF Listed
<1>11. ASSUME NEW m \in msgs' PROVE MsgCurrent(m)'
  <2>1. MsgCurrent(m) /\ m \in AllMsgs
    BY <1>6, <1>8, AtHand
  <2>2. m.type \in {"copyLocation", "result", "deleteObject"} => m.at \in Nat
    BY <2>1, Kinds DEF Orders, Results, Expirations
  <2>3. CASE m.type \in {"copyLocation", "result"}
    <3>1. m.at < md'.at /\ Listed(m.at, m.etag)' /\ md'.at \in Nat
      BY <1>0, <1>9, <1>10, <2>1, <2>2, <2>3 DEF MsgCurrent
    <3> QED BY <2>2, <2>3, <3>1 DEF MsgCurrent
  <2>4. CASE m.type = "deleteObject"
    <3>1. m.at <= md'.at
      BY <1>0, <1>9, <2>1, <2>2, <2>4 DEF MsgCurrent
    <3> QED BY <2>4, <3>1 DEF MsgCurrent
  <2> QED BY <2>3, <2>4 DEF MsgCurrent
<1>12. ASSUME NEW t \in tasks' PROVE TaskCurrent(t)'
  <2>1. TaskCurrent(t) /\ t \in AllTasks
    BY <1>6, <1>8, AtHand
  <2>2. CASE t.kind = "scan"
    <3>1. t.at \in Nat /\ (t.seen \in Metas \/ t.seen = NoObject)
      BY <2>1, <2>2, Kinds DEF Scans
    <3>2. Listed(t.at, t.etag)'
      BY <1>10, <2>1, <2>2, <3>1 DEF TaskCurrent
    <3>3. ASSUME t.seen # NoObject PROVE t.at <= t.seen.at /\ SeenCurrent(t.seen)'
      <4>1. t.seen.at \in Nat
        BY <3>1, <3>3 DEF Metas, Metadata
      <4>2. t.at <= t.seen.at /\ Listed(t.seen.at, t.seen.etag)
        BY <2>1, <2>2, <3>3 DEF TaskCurrent, SeenCurrent
      <4>3. t.seen.at < md'.at /\ Listed(t.seen.at, t.seen.etag)' /\ md'.at \in Nat
        BY <1>0, <1>9, <1>10, <4>1, <4>2
      <4> QED BY <4>1, <4>2, <4>3 DEF SeenCurrent
    <3> QED BY <2>2, <3>2, <3>3 DEF TaskCurrent
  <2>3. CASE t.kind = "mover"
    <3>1. t.msg \in Orders /\ t.msg \in msgs
      BY <1>6, <2>1, <2>3, Kinds, AtHand
    <3>2. t.msg.at \in Nat /\ Listed(t.msg.at, t.msg.etag)
      BY <1>8, <3>1, AtHand DEF Orders, MsgCurrent
    <3>3. t.msg.at < md'.at /\ md'.at \in Nat
      BY <1>0, <1>9, <1>10, <3>2
    <3> QED BY <2>3, <3>2, <3>3 DEF TaskCurrent
  <2>4. CASE t.kind = "delete"
    BY <1>3, <1>6, <2>1, <2>4 DEF TaskCurrent
  <2> QED BY <2>2, <2>3, <2>4 DEF TaskCurrent
<1>13. Copies' = Copies /\ Deletes' = Deletes
  BY <1>6 DEF Copies, Deletes, Publishing, Collecting, Succeeded
<1>14. \A c \in Copies : c.at < md'.at
  BY <1>8, <1>10, CopyFacts
<1>15. ASSUME NEW c \in Copies PROVE CopyCurrent(c)'
  <2>1. c.loc.store = "warm" /\ c.at \in Nat /\ c.at < md'.at /\ md'.at \in Nat
    BY <1>0, <1>9, <1>14, CopyFacts DEF Copied
  <2>2. c.loc # md'.loc
    BY <1>1, <1>3, <1>6, <2>1
  <2> QED BY <2>1, <2>2 DEF CopyCurrent
<1>16. ASSUME NEW del \in Deletes PROVE DeleteCurrent(del)'
  <2>1. del.loc \in Written /\ del.cond \in Int /\ del.cond <= clock
    BY DeleteFacts DEF Dates
  <2>2. del.loc.store = "hot" /\ "hot" \in unversioned => del.cond # NoCond
    BY <1>8 DEF Current, DeleteCurrent
  <2>3. ASSUME del.loc = md'.loc
        PROVE  md'.store = "hot" /\ del.cond # NoCond /\ del.cond < md'.at
    <3>1. del.loc = loc
      BY <1>3, <1>6, <2>3
    <3>2. "hot" \in unversioned
      BY <1>0, <1>1, <2>1, <3>1 DEF Written
    <3>3. del.cond < md'.at
      BY <1>0, <1>9, <2>1
    <3> QED BY <1>1, <1>3, <1>6, <2>2, <3>1, <3>2, <3>3
  <2> QED BY <1>6, <1>13, <1>14, <2>2, <2>3 DEF DeleteCurrent
<1>17. ObjectData'
  <2>1. copy \in data' /\ copy.loc = md'.loc /\ copy.etag = md'.etag /\ copy.at = md'.at
    BY <1>2, <1>3, <1>6
  <2> QED BY <2>1 DEF ObjectData
<1> QED BY <1>11, <1>12, <1>13, <1>15, <1>16, <1>17 DEF Current

-----------------------------------------------------------------------------
(* The theorems *)

LEMMA InitInv == Init => Inv
<1> SUFFICES ASSUME Init PROVE Inv
  OBVIOUS
<1> DEFINE loc == Loc("hot", 1)
<1>1. loc \in Written /\ loc \in Locs /\ loc.store = "hot" /\ clock = 1
  BY DEF Init, Loc, Written, Locs
<1>2. md.loc = loc /\ md.at = 1 /\ md.etag = InitialContents /\ md.store = "hot"
  BY DEF Init
<1> HIDE DEF loc
<1>3. md = [etag |-> InitialContents, at |-> 1, loc |-> loc, store |-> "hot",
            tip |-> FALSE, repl |-> "PENDING"]
      /\ data = {[loc |-> loc, etag |-> InitialContents, at |-> 1]}
  BY DEF Init, loc
<1>4. InitialContents \in Contents /\ MaxScans \in Nat /\ MaxWrites \in Nat /\ MaxFaults \in Nat
  BY TransitionAssumption DEF TransitionAssumption
<1>5. StateOK
  <2>1. md \in Metadata
    BY <1>1, <1>3, <1>4 DEF Metadata
  <2>2. md \in Metas
    BY <1>1, <1>2, <2>1 DEF Metas
  <2>3. /\ scans = 0 /\ writes = 0 /\ faults = 0 /\ replaced = {}
        /\ stale = FALSE /\ thrown = FALSE /\ unversioned \in StoreModes
    BY DEF Init
  <2>4. 0 \in 0 .. MaxScans /\ 0 \in 0 .. MaxWrites /\ 0 \in 0 .. MaxFaults
    BY <1>4
  <2> QED BY <1>1, <2>2, <2>3, <2>4 DEF StateOK
<1>6. DataOK
  BY <1>1, <1>3, <1>4 DEF DataOK, Stored
<1>7. MsgsOK /\ TasksOK /\ CopiesOK
  BY DEF Init, MsgsOK, TasksOK, CopiesOK
<1>8. Copies = {} /\ Deletes = {}
  BY DEF Init, Copies, Deletes
<1>9. ObjectData
  BY <1>2, <1>3 DEF ObjectData
<1>10. Current
  BY <1>8, <1>9 DEF Init, Current
<1> QED BY <1>5, <1>6, <1>7, <1>10 DEF Inv, Shape

LEMMA NextInv ==
    ASSUME VersionedDestination, Inv, [Next]_vars
    PROVE  Inv'
<1>1. CASE UNCHANGED vars
  <2>1. StateOK' /\ MsgsOK' /\ TasksOK'
    BY <1>1, SameTypes DEF vars, Inv, Shape, StateOK, MsgsOK, TasksOK
  <2> QED BY <1>1, <2>1, Quiet DEF vars
<1>2. CASE Next
  <2>0. UNCHANGED unversioned /\ Step
    BY <1>2 DEF Next
  <2>1. CASE \E c \in Contents : UserPut(c)
    BY <2>0, <2>1, UserPutInv
  <2>2. CASE UserDelete \/ ReplicationCompleted \/ ListForTransition \/ ListForExpiration
    BY <2>0, <2>2, UserDeleteInv, ReplicationCompletedInv, ListTransitionInv, ListExpirationInv
  <2>3. CASE \E t \in tasks :
               \/ CheckObjectMD(t) \/ SendDataMoverAction(t) \/ RefreshObjectMD(t)
               \/ SetTransitionInProgress(t)
    BY <2>0, <2>3, CheckObjectMDInv, SendDataMoverActionInv, RefreshObjectMDInv,
       SetTransitionInProgressInv
  <2>4. CASE \E t \in tasks :
               \/ GetAndPutObject(t) \/ CompleteMPU(t) \/ PublishCopyLocationStatus(t)
               \/ \E i \in 1 .. HardPartLimit : PutMPUPart(t, i)
    BY <2>0, <2>4, GetAndPutObjectInv, CompleteMPUInv, PublishCopyLocationStatusInv,
       PutMPUPartInv
  <2>5. CASE \E t \in tasks :
               \/ UpdateMdWithTransition(t) \/ GarbageCollectLocation(t)
               \/ CheckReplicationStatus(t) \/ ExecuteDelete(t)
               \/ TaskFails(t)
    BY <2>0, <2>5, UpdateMdWithTransitionInv, GarbageCollectLocationInv,
       CheckReplicationStatusInv, ExecuteDeleteInv, TaskFailsInv
  <2>6. CASE \E m \in msgs :
               \/ MoverReadsSource(m) \/ UpdateReads(m) \/ ExecuteDeleteData(m) \/ CheckDate(m)
    BY <2>0, <2>6, MoverReadsSourceInv, UpdateReadsInv, ExecuteDeleteDataInv, CheckDateInv
  <2> QED BY <2>0, <2>1, <2>2, <2>3, <2>4, <2>5, <2>6 DEF Step
<1> QED BY <1>1, <1>2

(* The invariant holds in every reachable state: what every entry and task   *)
(* says of the object is what it is or was, each copy under way has a        *)
(* location of its own, and no collection is of the object's data            *)
(* (LifecycleTask, CopyLocationTask, LifecycleUpdateTransitionTask,          *)
(* GarbageCollectorTask, LifecycleDeleteObjectTask).                         *)
THEOREM Invariance ==
    ASSUME VersionedDestination
    PROVE  Spec => []Inv
<1>1. Init => Inv
  BY InitInv
<1>2. Inv /\ [Next]_vars => Inv'
  BY NextInv
<1> QED BY <1>1, <1>2, PTL DEF Spec

(* The types of the state *)
THEOREM TypeCorrect ==
    ASSUME VersionedDestination
    PROVE  Spec => []TypeOK
<1>1. Inv => TypeOK
  <2> SUFFICES ASSUME Inv PROVE TypeOK
    OBVIOUS
  <2>1. Metas \subseteq Metadata /\ Written \subseteq Locs /\ Dates \subseteq Int
        /\ Copied \subseteq Locs
    BY DEF Metas, Written, Locs, Dates, Copied
  <2>2. AllMsgs \subseteq Messages
    <3>1. NoLoc \in Locs
      BY DEF Locs
    <3> QED BY <2>1, <3>1 DEF AllMsgs, Orders, Results, Collections, Expirations, Messages
  <2>3. \A t \in AllTasks : t.kind \in {"scan", "mover", "update", "delete"}
                            /\ t.seen \in Metadata \cup {NoObject}
    <3> SUFFICES ASSUME NEW t \in AllTasks
                 PROVE  t.kind \in {"scan", "mover", "update", "delete"}
                        /\ t.seen \in Metas \cup {NoObject}
      BY <2>1
    <3>1. CASE t \in Scans
      BY <3>1 DEF Scans
    <3>2. CASE t \in Movers
      BY <3>2 DEF Movers
    <3>3. CASE t \in Updates
      BY <3>3 DEF Updates
    <3>4. CASE t \in Deletions
      BY <3>4 DEF Deletions
    <3> QED BY <3>1, <3>2, <3>3, <3>4 DEF AllTasks
  <2>4. \A d \in data : d.loc \in Locs /\ d.at \in 1 .. clock /\ d.etag \in Contents \cup {Mixed}
    BY <2>1 DEF Inv, Shape, DataOK, Stored
  <2> QED BY <2>1, <2>2, <2>3, <2>4 DEF Inv, Shape, StateOK, MsgsOK, TasksOK, TypeOK
<1> QED BY <1>1, Invariance, PTL

(* No crash, repeated or reordered entry, overwrite or late collection takes *)
(* the data of a live object whose metadata no task wrote over               *)
(* (LifecycleUpdateTransitionTask.processActionEntry,                        *)
(* GarbageCollectorTask._executeDeleteData, CopyLocationTask).               *)
THEOREM DataStaysAvailable ==
    ASSUME VersionedDestination
    PROVE  Spec => []DataAvailable
<1>1. Inv => DataAvailable
  BY DEF Inv, Alive, Current, ObjectData, DataAvailable
<1> QED BY <1>1, Invariance, PTL

(* Expiration deletes the object that was listed, once it is replicated      *)
(* (LifecycleDeleteObjectTask.processActionEntry).                           *)
THEOREM ExpirationDeletesListed ==
    ASSUME VersionedDestination
    PROVE  Spec => ExpiresListedObject
<1> DEFINE DeletesListed(t) ==
             t.kind = "delete" /\ t.pc = "delete" /\ t \notin tasks' /\ md # NoObject
             /\ md' = NoObject /\ ~stale' /\ writes' = writes =>
                md.at = t.msg.at /\ md.repl = "COMPLETED"
<1>1. ASSUME Inv, [Next]_vars
      PROVE  [\A t \in tasks : DeletesListed(t)]_vars
  <2> SUFFICES ASSUME Next, NEW t \in tasks, t.kind = "delete", t.pc = "delete", t \notin tasks',
                      md # NoObject, md' = NoObject, ~stale', writes' = writes
               PROVE  md.at = t.msg.at /\ md.repl = "COMPLETED"
    BY <1>1
  <2>1. CASE \E u \in tasks : ExecuteDelete(u)
    <3>1. PICK u \in tasks : ExecuteDelete(u)
      BY <2>1
    <3>2. u = t /\ stale' = (stale \/ md.at # t.seen.at)
      BY <3>1 DEF ExecuteDelete, Done
    <3>3. Alive /\ md.at = t.seen.at
      BY <3>2 DEF Alive
    <3>4. TaskCurrent(t)
      BY <1>1, <3>3, AtHand
    <3> QED BY <3>3, <3>4 DEF TaskCurrent
  <2>2. CASE UserDelete
    <3>1. writes \in Nat /\ writes' = writes + 1
      BY <1>1, <2>2 DEF UserDelete, Inv, Shape, StateOK
    <3> QED BY <3>1
  <2>3. CASE \E u \in tasks : SetTransitionInProgress(u)
    <3>1. PICK u \in tasks : SetTransitionInProgress(u)
      BY <2>3
    <3>2. u \in Scans /\ u.seen \in Metas
      BY <1>1, <3>1, AtHand, Kinds DEF SetTransitionInProgress, Scans
    <3>3. [u.seen EXCEPT !.tip = TRUE] \in Metas
      BY <3>2 DEF Metas, Metadata
    <3>4. md' = [u.seen EXCEPT !.tip = TRUE]
      BY <3>1 DEF SetTransitionInProgress, PutMetadata
    <3> QED BY <3>3, <3>4, MetaIsObject
  <2>4. CASE \E u \in tasks : UpdateMdWithTransition(u)
    <3>1. PICK u \in tasks : UpdateMdWithTransition(u)
      BY <2>4
    <3>2. u \in Updates /\ u.pc = "put" /\ u.msg \in Results
      BY <1>1, <3>1, AtHand, Kinds DEF UpdateMdWithTransition
    <3>3. u.seen \in Metas /\ u.msg.loc \in Copied
      BY <3>2 DEF Updates, Results
    <3> DEFINE new == [u.seen EXCEPT !.loc = u.msg.loc, !.store = "warm", !.tip = FALSE]
    <3>4. new \in Metas
      BY <3>3 DEF Metas, Metadata, Copied, Locs, Written
    <3>5. md' = new
      BY <3>1 DEF UpdateMdWithTransition, PutMetadata
    <3> HIDE DEF new
    <3> QED BY <3>4, <3>5, MetaIsObject
  <2>5. CASE \E c \in Contents : UserPut(c)
    <3>1. "at" \in DOMAIN md'
      BY <2>5 DEF UserPut
    <3> QED BY <3>1 DEF NoObject
  <2>6. CASE ReplicationCompleted
    <3>1. [md EXCEPT !.repl = "COMPLETED"] \in Metas /\ md' = [md EXCEPT !.repl = "COMPLETED"]
      BY <1>1, <2>6, MdSeen DEF ReplicationCompleted, Metas, Metadata
    <3> QED BY <3>1, MetaIsObject
  <2>7. CASE UNCHANGED md
    BY <2>7
  <2> QED
    BY <2>1, <2>2, <2>3, <2>4, <2>5, <2>6, <2>7
    DEF Next, Step, ListForTransition, ListForExpiration, CheckObjectMD, SendDataMoverAction,
        RefreshObjectMD, GetAndPutObject, CompleteMPU, PublishCopyLocationStatus, PutMPUPart,
        GarbageCollectLocation, CheckReplicationStatus, TaskFails, MoverReadsSource,
        UpdateReads, ExecuteDeleteData, CheckDate
<1>2. Inv /\ [Next]_vars => [\A t \in tasks : DeletesListed(t)]_vars
  BY <1>1
<1> QED BY <1>2, Invariance, PTL DEF Spec, ExpiresListedObject

-----------------------------------------------------------------------------
(* Nothing is left behind *)

LEMMA NoCondsNext ==
    ASSUME Inv, NoConds, [Next]_vars
    PROVE  NoConds'
<1> SUFFICES ASSUME unversioned = {}, unversioned' = {},
                    NEW m \in msgs', m \notin msgs,
                    m.type \in {"copyLocation", "result", "deleteData"}
             PROVE  m.cond = NoCond
  BY DEF NoConds, Next, vars
<1>1. ASSUME NEW t \in tasks, SendDataMoverAction(t)
      PROVE  m.cond = NoCond
  <2>1. m.cond = SourceDate(t.seen)
    BY <1>1 DEF SendDataMoverAction
  <2> QED BY <2>1 DEF SourceDate
<1>2. ASSUME NEW t \in tasks, PublishCopyLocationStatus(t)
      PROVE  m.cond = NoCond
  <2>1. t.msg \in Orders /\ t.msg \in msgs
    BY <1>2, AtHand, Kinds DEF PublishCopyLocationStatus
  <2>2. m.cond = t.msg.cond
    BY <1>2 DEF PublishCopyLocationStatus, Done, Result
  <2> QED BY <2>1, <2>2 DEF NoConds, Orders
<1>3. ASSUME NEW t \in tasks, GarbageCollectLocation(t)
      PROVE  m.cond = NoCond
  <2>1. t.msg \in Results /\ t.msg \in msgs
    BY <1>3, AtHand, Kinds DEF GarbageCollectLocation
  <2>2. m.cond = t.msg.cond
    BY <1>3 DEF GarbageCollectLocation, Done
  <2> QED BY <2>1, <2>2 DEF NoConds, Results
<1>4. CASE ListForExpiration
  BY <1>4 DEF ListForExpiration
<1>5. CASE msgs' \subseteq msgs
  BY <1>5
<1> QED
  BY <1>1, <1>2, <1>3, <1>4, <1>5
  DEF vars, Next, Step, UserPut, UserDelete, ReplicationCompleted, ListForTransition,
      CheckObjectMD, RefreshObjectMD, SetTransitionInProgress, GetAndPutObject, CompleteMPU,
      PutMPUPart, UpdateMdWithTransition, CheckReplicationStatus, ExecuteDelete, TaskFails,
      MoverReadsSource, UpdateReads, ExecuteDeleteData, CheckDate, Done

(* Steps that neither store data nor take it out of the hands it is in *)
LEMMA OrphansQuiet ==
    ASSUME NoOrphans, unversioned' = unversioned,
           NoFailure' =>
             /\ NoFailure /\ md'.loc = md.loc /\ data' \subseteq data
             /\ \A t \in tasks : Publishing(t) \/ Collecting(t) => t \in tasks'
             /\ \A t \in tasks' : Collecting(t) => t \in tasks
             /\ \A m \in msgs : Succeeded(m) \/ m.type = "deleteData" => m \in msgs'
    PROVE  NoOrphans'
<1> SUFFICES ASSUME NoFailure', NEW d \in data' PROVE Accounted(d.loc)'
  BY DEF NoOrphans
<1>1. PICK k : k = d.loc
  OBVIOUS
<1>2. Accounted(k)
  BY <1>1 DEF NoOrphans
<1>3. CASE k = md.loc
  BY <1>1, <1>3 DEF Accounted
<1>4. CASE \E t \in tasks : Publishing(t) /\ t.loc = k
  BY <1>1, <1>4 DEF Accounted
<1>5. CASE \E m \in msgs : Succeeded(m) /\ m.loc = k
             /\ \A t \in tasks : Collecting(t) => t.msg # m
  BY <1>1, <1>5 DEF Accounted
<1>6. CASE \E del \in Deletes : del.loc = k
  <2>1. Deletes \subseteq Deletes'
    BY DEF Deletes, Collecting
  <2> QED BY <1>1, <1>6, <2>1 DEF Accounted
<1> QED BY <1>2, <1>3, <1>4, <1>5, <1>6 DEF Accounted

LEMMA FaultCounts ==
    ASSUME Inv, UNCHANGED faults \/ Fault, faults' = 0
    PROVE  ~Fault /\ faults = 0
BY DEF Inv, Shape, StateOK, Fault

LEMMA OrphansKept ==
    ASSUME Inv, NoOrphans, UNCHANGED <<unversioned, md, stale>>, UNCHANGED faults \/ Fault,
           thrown' = FALSE => thrown = FALSE, thrown \in BOOLEAN, thrown' \in BOOLEAN,
           NoFailure' /\ ~Fault =>
             /\ data' \subseteq data
             /\ \A t \in tasks : Publishing(t) \/ Collecting(t) => t \in tasks'
             /\ \A t \in tasks' : Collecting(t) => t \in tasks
             /\ \A m \in msgs : Succeeded(m) \/ m.type = "deleteData" => m \in msgs'
    PROVE  NoOrphans'
<1>1. NoFailure' => NoFailure /\ ~Fault
  BY FaultCounts DEF NoFailure, Alive
<1> QED BY <1>1, OrphansQuiet

(* Scans, expirations, and entries that only begin a task *)
LEMMA OrphansOther ==
    ASSUME Inv, NoOrphans, UNCHANGED unversioned,
           \/ ListForTransition \/ ListForExpiration
           \/ \E t \in tasks : \/ CheckObjectMD(t) \/ SendDataMoverAction(t)
                               \/ RefreshObjectMD(t) \/ CheckReplicationStatus(t)
                               \/ TaskFails(t)
                               \/ \E i \in 1 .. HardPartLimit : PutMPUPart(t, i)
           \/ \E m \in msgs : MoverReadsSource(m) \/ CheckDate(m)
    PROVE  NoOrphans'
<1>0. thrown \in BOOLEAN
  BY AtHand
<1>1. CASE ListForTransition
  <2>1. \A t \in tasks' : t \in tasks \/ ~Collecting(t)
    BY <1>1 DEF ListForTransition, Collecting
  <2> QED BY <1>0, <1>1, <2>1, OrphansKept DEF ListForTransition
<1>2. CASE ListForExpiration
  BY <1>0, <1>2, OrphansKept DEF ListForExpiration
<1>3. ASSUME NEW t \in tasks, CheckObjectMD(t) \/ SendDataMoverAction(t) \/ RefreshObjectMD(t)
      PROVE  NoOrphans'
  <2>1. t \in Scans /\ t.kind = "scan"
    BY <1>3, AtHand, Kinds DEF CheckObjectMD, SendDataMoverAction, RefreshObjectMD
  <2>2. \A pc, seen : [t EXCEPT !.pc = pc, !.seen = seen].kind = "scan"
    BY <2>1 DEF Scans
  <2>3. PICK pc, seen : tasks' = tasks \ {t} \/ tasks' = (tasks \ {t}) \cup {[t EXCEPT !.pc = pc, !.seen = seen]}
    BY <1>3 DEF CheckObjectMD, SendDataMoverAction, RefreshObjectMD
  <2>4. ~Publishing(t) /\ ~Collecting(t)
        /\ \A u \in tasks' : u \in tasks \/ ~Collecting(u)
    BY <2>1, <2>2, <2>3 DEF Publishing, Collecting
  <2>5. \A u \in tasks : u = t \/ u \in tasks'
    BY <2>3
  <2>6. UNCHANGED <<md, data, stale, faults, thrown>> /\ msgs \subseteq msgs'
    BY <1>3 DEF CheckObjectMD, SendDataMoverAction, RefreshObjectMD
  <2> QED BY <1>0, <2>4, <2>5, <2>6, OrphansKept
<1>4. ASSUME NEW t \in tasks, CheckReplicationStatus(t)
      PROVE  NoOrphans'
  <2>1. t \in Deletions /\ t.kind = "delete" /\ t.msg \in Expirations
    BY <1>4, AtHand, Kinds DEF CheckReplicationStatus
  <2>2. [t EXCEPT !.pc = "delete"].kind = "delete"
    BY <2>1 DEF Deletions
  <2>3. ~Publishing(t) /\ ~Collecting(t)
        /\ \A u \in tasks' : u \in tasks \/ ~Collecting(u)
    BY <1>4, <2>1, <2>2 DEF Publishing, Collecting, CheckReplicationStatus, Done
  <2>4. \A u \in tasks : u = t \/ u \in tasks'
    BY <1>4 DEF CheckReplicationStatus, Done
  <2>5. UNCHANGED <<md, data, stale, thrown>> /\ (UNCHANGED faults \/ Fault)
        /\ \A m \in msgs : m \in msgs' \/ m = t.msg
    BY <1>4 DEF CheckReplicationStatus, Done
  <2>6. ~Succeeded(t.msg) /\ t.msg.type # "deleteData"
    BY <2>1 DEF Expirations, Succeeded
  <2> QED BY <1>0, <2>3, <2>4, <2>5, <2>6, OrphansKept
<1>5. ASSUME NEW t \in tasks, TaskFails(t)
      PROVE  NoOrphans'
  BY <1>0, <1>5, OrphansKept DEF TaskFails
<1>6. ASSUME NEW t \in tasks, NEW i \in 1 .. HardPartLimit, PutMPUPart(t, i)
      PROVE  NoOrphans'
  <2>1. t \in Movers /\ t.kind = "mover" /\ t.pc = "parts"
    BY <1>6, AtHand, Kinds DEF PutMPUPart
  <2>2. /\ UNCHANGED <<md, data, stale, faults, msgs>>
        /\ thrown' \in BOOLEAN /\ (thrown' = FALSE => thrown = FALSE)
    BY <1>0, <1>6 DEF PutMPUPart
  <2>3. ASSUME NoFailure'
        PROVE  \E u : tasks' = (tasks \ {t}) \cup {u} /\ u.kind = "mover"
    <3>1. ~thrown'
      BY <2>3 DEF NoFailure
    <3>2. MoverFailed(t).kind = "mover"
      BY <2>1 DEF MoverFailed, Movers
    <3>3. [t EXCEPT !.parts = @ \cup {[i |-> i, etag |-> CurrentContents]}].kind = "mover"
      BY <2>1 DEF Movers
    <3> QED BY <1>6, <3>1, <3>2, <3>3 DEF PutMPUPart
  <2>4. NoFailure' =>
             /\ \A u \in tasks : Publishing(u) \/ Collecting(u) => u \in tasks'
             /\ \A u \in tasks' : Collecting(u) => u \in tasks
    BY <2>1, <2>3 DEF Publishing, Collecting
  <2> QED BY <1>0, <2>2, <2>4, OrphansKept
<1>7. ASSUME NEW m \in msgs, MoverReadsSource(m)
      PROVE  NoOrphans'
  <2>1. \A u \in tasks' : u \in tasks \/ ~Collecting(u)
    BY <1>7 DEF MoverReadsSource, MoverTask, Collecting
  <2> QED BY <1>0, <1>7, <2>1, OrphansKept DEF MoverReadsSource
<1>8. ASSUME NEW m \in msgs, CheckDate(m)
      PROVE  NoOrphans'
  <2>1. [msg |-> m] \notin tasks
    BY AtHand, NotATask
  <2>2. tasks \subseteq tasks' /\ (\A u \in tasks' : u \in tasks \/ ~Collecting(u))
    BY <1>8, <2>1 DEF CheckDate, Collecting, Done
  <2>3. ~Succeeded(m) /\ m.type # "deleteData" /\ (\A n \in msgs : n = m \/ n \in msgs')
        /\ UNCHANGED <<md, data, stale, thrown>> /\ (UNCHANGED faults \/ Fault)
    BY <1>8 DEF CheckDate, Succeeded, Done
  <2> QED BY <1>0, <2>2, <2>3, OrphansKept
<1> QED BY <1>1, <1>2, <1>3, <1>4, <1>5, <1>6, <1>7, <1>8

(* Steps that write the metadata *)
LEMMA OrphansMetadata ==
    ASSUME Inv, NoOrphans, UNCHANGED unversioned,
           \/ UserDelete \/ ReplicationCompleted
           \/ \E t \in tasks : SetTransitionInProgress(t) \/ ExecuteDelete(t)
    PROVE  NoOrphans'
<1>1. CASE UserDelete
  <2>1. ~NoFailure'
    BY <1>1 DEF UserDelete, RemoveObject, NoFailure, Alive
  <2> QED BY <2>1 DEF NoOrphans
<1>2. CASE ReplicationCompleted
  <2>1. md \in Metas /\ md' = [md EXCEPT !.repl = "COMPLETED"]
        /\ UNCHANGED <<data, msgs, tasks, faults, stale, thrown>> /\ md # NoObject
    BY <1>2, MdSeen DEF ReplicationCompleted
  <2>2. md'.loc = md.loc
    BY <2>1 DEF Metas, Metadata
  <2>3. NoFailure' => NoFailure
    BY <2>1 DEF NoFailure, Alive
  <2> QED BY <2>1, <2>2, <2>3, OrphansQuiet
<1>3. ASSUME NEW t \in tasks, SetTransitionInProgress(t)
      PROVE  NoOrphans'
  <2>1. t \in Scans /\ t.kind = "scan" /\ t.seen \in Metas
    BY <1>3, AtHand, Kinds DEF SetTransitionInProgress, Scans
  <2>2. UNCHANGED <<data, msgs, faults, thrown>> /\ tasks' = tasks \ {t}
    BY <1>3 DEF SetTransitionInProgress
  <2>3. [t.seen EXCEPT !.tip = TRUE].loc = t.seen.loc
    BY <2>1 DEF Metas, Metadata
  <2>4. NoFailure' => NoFailure /\ md'.loc = md.loc
    <3>1. CASE md = NoObject /\ UNCHANGED <<md, stale>>
      BY <3>1 DEF NoFailure, Alive
    <3>2. CASE md # NoObject /\ PutMetadata(t.seen, [t.seen EXCEPT !.tip = TRUE])
      BY <2>2, <2>3, <3>2 DEF NoFailure, Alive, PutMetadata
    <3> QED BY <1>3, <3>1, <3>2 DEF SetTransitionInProgress
  <2>5. ~Publishing(t) /\ ~Collecting(t)
    BY <2>1 DEF Publishing, Collecting
  <2> QED BY <2>2, <2>4, <2>5, OrphansQuiet
<1>4. ASSUME NEW t \in tasks, ExecuteDelete(t)
      PROVE  NoOrphans'
  <2>1. ~NoFailure'
    BY <1>4 DEF ExecuteDelete, RemoveObject, NoFailure, Alive
  <2> QED BY <2>1 DEF NoOrphans
<1> QED BY <1>1, <1>2, <1>3, <1>4

(* The old data is deleted with the write of the new data *)
LEMMA OrphansUserPut ==
    ASSUME Inv, NoOrphans, UNCHANGED unversioned, NEW x \in Contents, UserPut(x)
    PROVE  NoOrphans'
<1> SUFFICES ASSUME NoFailure', NEW d \in data' PROVE Accounted(d.loc)'
  BY DEF NoOrphans
<1>1. PICK k : k = d.loc
  OBVIOUS
<1>2. UNCHANGED <<msgs, tasks>> /\ NoFailure
  BY DEF UserPut, NoFailure, Alive
<1>3. CASE k = md'.loc
  BY <1>1, <1>3 DEF Accounted
<1>4. CASE k # md'.loc
  <2>1. md'.loc = Loc("hot", clock + 1) /\ data' =
          {e \in Without(md.loc) : e.loc # Loc("hot", clock + 1)} \cup {Copy(Loc("hot", clock + 1), x)}
    BY DEF UserPut
  <2>2. Copy(Loc("hot", clock + 1), x).loc = Loc("hot", clock + 1)
    BY DEF Copy
  <2>3. d \in data /\ k # md.loc
    BY <1>1, <1>4, <2>1, <2>2 DEF Without
  <2>4. Accounted(k)
    BY <1>1, <1>2, <2>3 DEF NoOrphans
  <2>5. Deletes' = Deletes
    BY <1>2 DEF Deletes, Collecting
  <2> QED BY <1>1, <1>2, <2>3, <2>4, <2>5 DEF Accounted
<1> QED BY <1>3, <1>4

(* A new copy is in the hands of the mover that stored it *)
LEMMA OrphansStore ==
    ASSUME Inv, NoOrphans, UNCHANGED unversioned, NEW t \in tasks,
           GetAndPutObject(t) \/ CompleteMPU(t)
    PROVE  NoOrphans'
<1>0. thrown \in BOOLEAN /\ t \in Movers /\ t.kind = "mover" /\ t.pc # "publish"
      /\ ~Publishing(t) /\ ~Collecting(t)
  BY AtHand, Kinds DEF GetAndPutObject, CompleteMPU, Publishing, Collecting
<1>1. UNCHANGED <<md, msgs, stale, thrown>> /\ (UNCHANGED faults \/ Fault)
  BY DEF GetAndPutObject, CompleteMPU
<1>2. CASE Fault
  BY <1>0, <1>1, <1>2, OrphansKept
<1>3. CASE tasks' = (tasks \ {t}) \cup {MoverFailed(t)} /\ UNCHANGED data
  <2>1. MoverFailed(t).kind = "mover"
    BY <1>0 DEF MoverFailed, Movers
  <2>2. \A u \in tasks' : u \in tasks \/ ~Collecting(u)
    BY <1>3, <2>1 DEF Collecting
  <2> QED BY <1>0, <1>1, <1>3, <2>2, OrphansKept
<1>4. ASSUME NEW etag, StoreCopy(t, etag, "publish"), UNCHANGED faults
      PROVE  NoOrphans'
  <2> SUFFICES ASSUME NoFailure', NEW d \in data' PROVE Accounted(d.loc)'
    BY DEF NoOrphans
  <2>1. PICK k : k = d.loc
    OBVIOUS
  <2> DEFINE loc == Loc("warm", clock + 1)
             u == [t EXCEPT !.pc = "publish", !.loc = loc, !.parts = {}]
  <2>2. u.kind = "mover" /\ u.pc = "publish" /\ u.loc = loc
    BY <1>0 DEF Movers
  <2>3. data' = Without(loc) \cup {Copy(loc, etag)} /\ tasks' = (tasks \ {t}) \cup {u}
        /\ Copy(loc, etag).loc = loc
    BY <1>4 DEF StoreCopy, Copy
  <2> HIDE DEF loc, u
  <2>4. Publishing(u) /\ ~Collecting(u)
    BY <2>2 DEF Publishing, Collecting
  <2>5. CASE k = loc
    BY <2>1, <2>2, <2>3, <2>4, <2>5 DEF Accounted
  <2>6. CASE k # loc
    <3>1. d \in data /\ NoFailure
      BY <1>1, <1>4, <2>1, <2>3, <2>6 DEF Without, NoFailure, Alive
    <3>2. Accounted(k)
      BY <2>1, <3>1 DEF NoOrphans
    <3>3. Deletes \subseteq Deletes'
      BY <1>0, <1>1, <2>3 DEF Deletes, Collecting
    <3>4. /\ \A v \in tasks : Publishing(v) => v \in tasks'
          /\ \A v \in tasks' : Collecting(v) => v \in tasks
      BY <1>0, <2>3, <2>4
    <3> QED BY <1>1, <2>1, <3>2, <3>3, <3>4 DEF Accounted
  <2> QED BY <2>5, <2>6
<1> QED BY <1>2, <1>3, <1>4 DEF GetAndPutObject, CompleteMPU

(* The copy passes from the mover to the outcome it publishes *)
LEMMA OrphansPublish ==
    ASSUME Inv, NoOrphans, UNCHANGED unversioned, NEW t \in tasks, PublishCopyLocationStatus(t)
    PROVE  NoOrphans'
<1>0. thrown \in BOOLEAN /\ t \in Movers /\ t.msg \in Orders /\ t.kind = "mover" /\ ~Collecting(t)
  BY AtHand, Kinds DEF PublishCopyLocationStatus, Collecting
<1>1. UNCHANGED <<md, data, stale, thrown>> /\ (UNCHANGED faults \/ Fault) /\ tasks' = tasks \ {t}
  BY DEF PublishCopyLocationStatus, Done
<1>2. CASE Fault
  BY <1>0, <1>1, <1>2, OrphansKept
<1>3. ~Succeeded(t.msg) /\ t.msg.type # "deleteData"
  BY <1>0 DEF Orders, Succeeded
<1>4. CASE t.pc = "error" /\ msgs' = (msgs \ {t.msg}) \cup {Result(t.msg, FALSE, NoLoc)}
  <2>1. ~Publishing(t)
    BY <1>4 DEF Publishing
  <2> QED BY <1>0, <1>1, <1>3, <1>4, <2>1, OrphansKept
<1>5. CASE ~Fault /\ t.pc = "publish" /\ msgs' = (msgs \ {t.msg}) \cup {Result(t.msg, TRUE, t.loc)}
  <2> SUFFICES ASSUME NoFailure', NEW d \in data' PROVE Accounted(d.loc)'
    BY DEF NoOrphans
  <2>1. PICK k : k = d.loc
    OBVIOUS
  <2> DEFINE m == Result(t.msg, TRUE, t.loc)
  <2>2. Succeeded(m) /\ m.loc = t.loc /\ m \in msgs'
    BY <1>5 DEF Result, Succeeded
  <2> HIDE DEF m
  <2>3. m \notin msgs
    BY <1>0, <1>5, <2>2 DEF Inv, Shape, CopiesOK, Publishing
  <2>4. Accounted(k)
    <3>1. NoFailure
      BY <1>1, <1>5 DEF NoFailure, Alive
    <3> QED BY <1>1, <2>1, <3>1 DEF NoOrphans
  <2>5. CASE k = t.loc
    <3>1. \A u \in tasks' : Collecting(u) => u.msg # m
      <4> SUFFICES ASSUME NEW u \in tasks', Collecting(u) PROVE u.msg \in msgs
        BY <2>3
      <4> QED BY <1>1, AtHand DEF Collecting
    <3> QED BY <2>1, <2>2, <2>5, <3>1 DEF Accounted
  <2>6. CASE k # t.loc
    <3>1. \A n \in msgs : Succeeded(n) \/ n.type = "deleteData" => n \in msgs'
      BY <1>3, <1>5
    <3>2. Deletes \subseteq Deletes'
      BY <1>0, <1>1, <3>1 DEF Deletes, Collecting
    <3> QED BY <1>1, <2>1, <2>4, <2>6, <3>1, <3>2 DEF Accounted
  <2> QED BY <2>5, <2>6
<1> QED BY <1>2, <1>4, <1>5 DEF PublishCopyLocationStatus, Done

(* The outcome of a copy is dropped when its location is the object's, and   *)
(* the copy passes to a collection when the object was modified              *)
LEMMA OrphansUpdateReads ==
    ASSUME Inv, NoOrphans, UNCHANGED unversioned, NEW m \in msgs, UpdateReads(m)
    PROVE  NoOrphans'
<1>0. thrown \in BOOLEAN /\ m.type = "result"
  BY AtHand DEF UpdateReads
<1>1. UNCHANGED <<md, data, stale, thrown>> /\ (UNCHANGED faults \/ Fault)
  BY DEF UpdateReads, Done
<1>2. CASE Fault
  BY <1>0, <1>1, <1>2, OrphansKept
<1> SUFFICES ASSUME ~Fault, NoFailure', NEW d \in data' PROVE Accounted(d.loc)'
  BY <1>2 DEF NoOrphans
<1>3. NoFailure /\ d \in data
  BY <1>1 DEF NoFailure, Alive
<1>4. PICK k : k = d.loc
  OBVIOUS
<1>5. Accounted(k)
  BY <1>3, <1>4 DEF NoOrphans
<1>6. CASE Done([msg |-> m], {}) /\ (~m.ok \/ md.loc = m.loc)
  <2>1. [msg |-> m] \notin tasks
    BY AtHand, NotATask
  <2>2. tasks' = tasks /\ msgs' = msgs \ {m}
    BY <1>6, <2>1 DEF Done
  <2>3. Deletes \subseteq Deletes'
    BY <1>0, <2>2 DEF Deletes, Collecting
  <2>4. CASE k = md.loc
    BY <1>1, <1>4, <2>4 DEF Accounted
  <2>5. CASE k # md.loc
    BY <1>1, <1>4, <1>5, <1>6, <2>2, <2>3, <2>5 DEF Accounted, Succeeded
  <2> QED BY <2>4, <2>5
<1>7. CASE msgs' = msgs /\ tasks' = tasks \cup {UpdateTask(m, "put", md, md.loc)}
  <2>1. ~Collecting(UpdateTask(m, "put", md, md.loc))
    BY DEF UpdateTask, Collecting
  <2>2. Deletes \subseteq Deletes'
    BY <1>7 DEF Deletes, Collecting
  <2> QED BY <1>1, <1>4, <1>5, <1>7, <2>1, <2>2 DEF Accounted
<1>8. CASE msgs' = msgs /\ tasks' = tasks \cup {UpdateTask(m, "gc", NoObject, m.loc)}
  <2> DEFINE u == UpdateTask(m, "gc", NoObject, m.loc)
  <2>1. Collecting(u) /\ u.msg = m /\ u.gc = m.loc
    BY DEF UpdateTask, Collecting
  <2> HIDE DEF u
  <2>2. tasks' = tasks \cup {u}
    BY <1>8 DEF u
  <2>3. Deletes \subseteq Deletes'
    BY <1>8, <2>2 DEF Deletes, Collecting
  <2>4. CASE k = m.loc
    <3>1. [cond |-> u.msg.cond, loc |-> u.gc] \in Deletes'
      BY <2>1, <2>2 DEF Deletes, Collecting
    <3>2. [cond |-> u.msg.cond, loc |-> u.gc].loc = k
      BY <2>1, <2>4
    <3> QED BY <1>4, <3>1, <3>2 DEF Accounted
  <2>5. CASE k # m.loc
    BY <1>1, <1>4, <1>5, <1>8, <2>1, <2>2, <2>3, <2>5 DEF Accounted
  <2> QED BY <2>4, <2>5
<1> QED BY <1>3, <1>6, <1>7, <1>8 DEF UpdateReads, NoFailure, Alive

(* The old location passes to a collection when the new one is the object's *)
LEMMA OrphansUpdateMd ==
    ASSUME Inv, NoOrphans, UNCHANGED unversioned, NEW t \in tasks, UpdateMdWithTransition(t)
    PROVE  NoOrphans'
<1> SUFFICES ASSUME NoFailure', NEW d \in data' PROVE Accounted(d.loc)'
  BY DEF NoOrphans
<1> DEFINE new == [t.seen EXCEPT !.loc = t.msg.loc, !.store = "warm", !.tip = FALSE]
           u == [t EXCEPT !.pc = "gc", !.seen = NoObject]
<1>1. t \in Updates /\ t.kind = "update" /\ t.pc = "put" /\ t.seen \in Metas
  BY AtHand, Kinds DEF UpdateMdWithTransition, Updates
<1>2. t.gc = t.seen.loc
  BY <1>1 DEF Updates
<1>3. new.loc = t.msg.loc
  BY <1>1 DEF Metas, Metadata
<1>4. u.kind = "update" /\ u.pc = "gc" /\ u.msg = t.msg /\ u.gc = t.gc
  BY <1>1 DEF Updates
<1>5. md # NoObject
  BY DEF UpdateMdWithTransition, NoFailure, Alive
<1>6. md' = new /\ stale' = (stale \/ md # t.seen \/ new.loc \in replaced)
      /\ tasks' = (tasks \ {t}) \cup {u} /\ UNCHANGED <<msgs, faults, data, thrown>>
  BY <1>5 DEF UpdateMdWithTransition, PutMetadata
<1> HIDE DEF new, u
<1>7. NoFailure /\ md.loc = t.gc /\ md'.loc = t.msg.loc
  BY <1>2, <1>3, <1>5, <1>6 DEF NoFailure, Alive
<1>8. PICK k : k = d.loc
  OBVIOUS
<1>9. Accounted(k)
  BY <1>6, <1>7, <1>8 DEF NoOrphans
<1>10. Collecting(u) /\ ~Publishing(t) /\ ~Collecting(t)
  BY <1>1, <1>4 DEF Collecting, Publishing
<1>11. Deletes \subseteq Deletes'
  BY <1>6, <1>10 DEF Deletes, Collecting
<1>12. CASE k = t.gc
  <2>1. [cond |-> u.msg.cond, loc |-> u.gc] \in Deletes'
    BY <1>6, <1>10 DEF Deletes, Collecting
  <2>2. [cond |-> u.msg.cond, loc |-> u.gc].loc = k
    BY <1>4, <1>12
  <2> QED BY <1>8, <2>1, <2>2 DEF Accounted
<1>13. CASE k = t.msg.loc
  BY <1>7, <1>8, <1>13 DEF Accounted
<1>14. CASE k # t.gc /\ k # t.msg.loc
  BY <1>4, <1>6, <1>7, <1>8, <1>9, <1>10, <1>11, <1>14 DEF Accounted
<1> QED BY <1>12, <1>13, <1>14

(* The collection passes from the task to the entry it sends *)
LEMMA OrphansGarbageCollect ==
    ASSUME Inv, NoOrphans, UNCHANGED unversioned, NEW t \in tasks, GarbageCollectLocation(t)
    PROVE  NoOrphans'
<1>0. thrown \in BOOLEAN /\ Collecting(t) /\ ~Publishing(t) /\ t.msg \in Results
  BY AtHand, Kinds DEF GarbageCollectLocation, Collecting, Publishing
<1>1. UNCHANGED <<md, data, stale, thrown>> /\ (UNCHANGED faults \/ Fault) /\ tasks' = tasks \ {t}
  BY DEF GarbageCollectLocation, Done
<1>2. CASE Fault
  BY <1>0, <1>1, <1>2, OrphansKept
<1> SUFFICES ASSUME ~Fault, NoFailure', NEW d \in data' PROVE Accounted(d.loc)'
  BY <1>2 DEF NoOrphans
<1>3. NoFailure /\ d \in data
  BY <1>1 DEF NoFailure, Alive
<1>4. PICK k : k = d.loc
  OBVIOUS
<1>5. Accounted(k)
  BY <1>3, <1>4 DEF NoOrphans
<1> DEFINE m == [type |-> "deleteData", n |-> t.msg.n, cond |-> t.msg.cond, loc |-> t.gc]
<1>6. m.type = "deleteData" /\ m.cond = t.msg.cond /\ m.loc = t.gc
      /\ msgs' = (msgs \ {t.msg}) \cup {m}
  BY DEF GarbageCollectLocation, Done
<1> HIDE DEF m
<1>7. Deletes \subseteq Deletes'
  <2>1. [cond |-> m.cond, loc |-> m.loc] \in Deletes'
    BY <1>6 DEF Deletes
  <2>2. t.msg.type # "deleteData"
    BY <1>0 DEF Results
  <2> QED BY <1>0, <1>1, <1>6, <2>1, <2>2 DEF Deletes, Collecting
<1> QED BY <1>0, <1>1, <1>4, <1>5, <1>6, <1>7 DEF Accounted

(* A collection deletes what it is for *)
LEMMA OrphansDeleteData ==
    ASSUME Inv, NoConds, NoOrphans, UNCHANGED unversioned, NEW m \in msgs, ExecuteDeleteData(m)
    PROVE  NoOrphans'
<1>0. thrown \in BOOLEAN /\ m.type = "deleteData" /\ [msg |-> m] \notin tasks
  BY AtHand, NotATask DEF ExecuteDeleteData
<1>1. UNCHANGED <<md, stale, thrown>> /\ (UNCHANGED faults \/ Fault) /\ tasks' = tasks
  BY <1>0 DEF ExecuteDeleteData, Done
<1> SUFFICES ASSUME NoFailure', NEW d \in data' PROVE Accounted(d.loc)'
  BY DEF NoOrphans
<1>2. ~Fault /\ NoFailure
  BY <1>1, FaultCounts DEF NoFailure, Alive
<1>3. data' = Without(m.loc) /\ msgs' = msgs \ {m}
  BY <1>0, <1>2 DEF ExecuteDeleteData, Done, NoConds, NoFailure, SourceUnmodified
<1>4. PICK k : k = d.loc
  OBVIOUS
<1>5. k # m.loc /\ Accounted(k)
  BY <1>2, <1>3, <1>4 DEF NoOrphans, Without
<1>6. \A del \in Deletes : del.loc # m.loc => del \in Deletes'
  <2> SUFFICES ASSUME NEW del \in Deletes, del.loc # m.loc PROVE del \in Deletes'
    OBVIOUS
  <2>1. CASE \E n \in msgs : n.type = "deleteData" /\ del = [cond |-> n.cond, loc |-> n.loc]
    BY <1>3, <2>1 DEF Deletes
  <2>2. CASE \E t \in tasks : Collecting(t) /\ del = [cond |-> t.msg.cond, loc |-> t.gc]
    BY <1>1, <2>2 DEF Deletes, Collecting
  <2> QED BY <2>1, <2>2 DEF Deletes, Collecting
<1> QED BY <1>0, <1>1, <1>3, <1>4, <1>5, <1>6 DEF Accounted, Succeeded

LEMMA NoOrphansNext ==
    ASSUME Inv, NoConds, NoOrphans, [Next]_vars
    PROVE  NoOrphans'
<1>1. CASE UNCHANGED vars
  BY <1>1, OrphansQuiet DEF vars, NoFailure, Alive
<1>2. CASE Next
  BY <1>2, OrphansOther, OrphansMetadata, OrphansUserPut, OrphansStore, OrphansPublish,
     OrphansUpdateReads, OrphansUpdateMd, OrphansGarbageCollect, OrphansDeleteData
  DEF Next, Step
<1> QED BY <1>1, <1>2

(* Where every store is versioned and nothing fails, what is stored at rest  *)
(* while the object lives is its data alone: each copy and each replaced     *)
(* location is the object's or in the hands of one entry or task             *)
(* (CopyLocationTask, LifecycleUpdateTransitionTask._garbageCollectLocation, *)
(* GarbageCollectorTask._executeDeleteData).                                 *)
THEOREM NothingLeftBehind ==
    ASSUME VersionedDestination
    PROVE  Spec => []NoOrphanCopies
<1>1. Init => NoConds /\ NoOrphans
  BY DEF Init, NoConds, NoOrphans, Accounted
<1>2. Inv /\ NoConds /\ NoOrphans /\ [Next]_vars => (NoConds /\ NoOrphans)'
  BY NoCondsNext, NoOrphansNext
<1>3. NoConds /\ NoOrphans => NoOrphanCopies
  <2> SUFFICES ASSUME NoOrphans, md # NoObject, ~stale, faults = 0, ~thrown, tasks = {},
                      msgs = {}, unversioned = {}, NEW d \in data
               PROVE  d.loc = md.loc
    BY DEF NoOrphanCopies
  <2>1. Accounted(d.loc)
    BY DEF NoOrphans, NoFailure, Alive
  <2>2. Deletes = {}
    BY DEF Deletes
  <2> QED BY <2>1, <2>2 DEF Accounted
<1> QED BY <1>1, <1>2, <1>3, Invariance, PTL DEF Spec
=============================================================================
