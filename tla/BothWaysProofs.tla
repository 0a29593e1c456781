---------------------------- MODULE BothWaysProofs ----------------------------
(***************************************************************************)
(* What holds of every unit read in either form, for units, sizes and      *)
(* options of any value: of framing's functions; of a stream, its types,   *)
(* the numbers of its blocks, what is carried between them and where it    *)
(* stops, and that what it delivers is what UnitRecords promises; of a     *)
(* slice, the sizes of its chunks, that reckoning them cannot overflow,    *)
(* and that it delivers the records the stream does.                       *)
(***************************************************************************)
EXTENDS BothWays, TLAPS, FiniteSetTheorems, SequenceTheorems

(***************************************************************************)
(* framing.rs                                                              *)
(***************************************************************************)

(* bytes[from..to] has to - from bytes, the p-th of which is bytes[from+p]. *)
LEMMA SliceType ==
    ASSUME NEW S, NEW s \in Seq(S), NEW a \in Nat, NEW b \in Nat,
           a <= b, b <= Len(s)
    PROVE  /\ Slice(s, a, b) \in Seq(S)
           /\ Len(Slice(s, a, b)) = b - a
           /\ \A i \in 1 .. b - a : Slice(s, a, b)[i] = s[a + i]
<1>1. \A i \in a + 1 .. b : s[i] \in S
  OBVIOUS
<1>2. /\ SubSeq(s, a + 1, b) \in Seq(S)
      /\ Len(SubSeq(s, a + 1, b)) = IF a + 1 <= b THEN b - (a + 1) + 1 ELSE 0
      /\ \A i \in 1 .. b - (a + 1) + 1 : SubSeq(s, a + 1, b)[i] = s[(a + 1) + i - 1]
  BY <1>1, SubSeqProperties
<1> QED
  BY <1>2 DEF Slice

(* A slice of a slice is a slice.                                           *)
LEMMA SliceOfSlice ==
    ASSUME NEW S, NEW s \in Seq(S), NEW a \in Nat, NEW b \in Nat,
           a <= b, b <= Len(s),
           NEW c \in Nat, NEW d \in Nat, c <= d, d <= b - a
    PROVE  Slice(Slice(s, a, b), c, d) = Slice(s, a + c, a + d)
<1> DEFINE t == Slice(s, a, b)
<1>1. /\ t \in Seq(S)
      /\ Len(t) = b - a
      /\ \A i \in 1 .. b - a : t[i] = s[a + i]
  BY SliceType
<1>2. /\ Slice(t, c, d) \in Seq(S)
      /\ Len(Slice(t, c, d)) = d - c
      /\ \A i \in 1 .. d - c : Slice(t, c, d)[i] = t[c + i]
  <2> HIDE DEF t
  <2>1. t \in Seq(S) /\ d <= Len(t)
    BY <1>1
  <2> QED BY <2>1, SliceType, Zenon
<1>3. /\ Slice(s, a + c, a + d) \in Seq(S)
      /\ Len(Slice(s, a + c, a + d)) = d - c
      /\ \A i \in 1 .. d - c : Slice(s, a + c, a + d)[i] = s[(a + c) + i]
  <2>1. /\ a + c \in Nat /\ a + d \in Nat /\ a + c <= a + d /\ a + d <= Len(s)
        /\ (a + d) - (a + c) = d - c
    OBVIOUS
  <2>2. /\ Slice(s, a + c, a + d) \in Seq(S)
        /\ Len(Slice(s, a + c, a + d)) = (a + d) - (a + c)
        /\ \A i \in 1 .. (a + d) - (a + c) :
               Slice(s, a + c, a + d)[i] = s[(a + c) + i]
    BY <2>1, SliceType, Zenon
  <2> QED BY <2>1, <2>2
<1>4. \A i \in 1 .. d - c : Slice(t, c, d)[i] = Slice(s, a + c, a + d)[i]
  <2> HIDE DEF t
  <2> QED BY <1>1, <1>2, <1>3
<1> HIDE DEF t
<1>5. Slice(t, c, d) = Slice(s, a + c, a + d)
  BY <1>2, <1>3, <1>4, SeqEqual
<1> QED
  BY <1>5 DEF t

(* Two adjacent slices make one.                                            *)
LEMMA AdjacentSlices ==
    ASSUME NEW S, NEW s \in Seq(S), NEW a \in Nat, NEW b \in Nat, NEW c \in Nat,
           a <= b, b <= c, c <= Len(s)
    PROVE  Slice(s, a, b) \o Slice(s, b, c) = Slice(s, a, c)
<1>1. /\ a + 1 \in 1 .. Len(s) + 1
      /\ b \in (a + 1) - 1 .. Len(s)
      /\ c \in b .. Len(s)
  OBVIOUS
<1> QED
  BY <1>1, ConcatAdjacentSubSeq DEF Slice

------------------------------------------------------------------------------
(* lines() of any bytes yields finitely many lines.                         *)
LEMMA LineCountType ==
    ASSUME NEW S, NEW s \in Seq(S)
    PROVE  IsFiniteSet(LineStarts(s)) /\ LineCount(s) \in Nat
<1>1. IsFiniteSet(0 .. Len(s) - 1)
  BY FS_Interval, LenProperties
<1>2. LineStarts(s) \in SUBSET (0 .. Len(s) - 1)
  BY DEF LineStarts
<1>3. IsFiniteSet(LineStarts(s))
  BY <1>1, <1>2, FS_Subset
<1> QED
  BY <1>3, FS_CardinalityType DEF LineCount

(* Cutting bytes after a line ending cuts no line in two: the lines before  *)
(* the cut and the lines after it are all the lines.                        *)
LEMMA LineCountAtCut ==
    ASSUME NEW S, NEW s \in Seq(S), NEW a \in Nat, NEW b \in Nat,
           a <= b, b <= Len(s), a = 0 \/ s[a] = LF
    PROVE  LineCount(Slice(s, 0, b))
               = LineCount(Slice(s, 0, a)) + LineCount(Slice(s, a, b))
<1> DEFINE whole  == LineStarts(Slice(s, 0, b))
           before == LineStarts(Slice(s, 0, a))
           after  == LineStarts(Slice(s, a, b))
           moved  == {p \in a .. b - 1 : p = a \/ s[p] = LF}
<1>1. whole = {p \in 0 .. b - 1 : p = 0 \/ s[p] = LF}
  <2>1. 0 \in Nat /\ 0 <= b /\ b <= Len(s)
    BY LenProperties
  <2>2. /\ Len(Slice(s, 0, b)) = b - 0
        /\ \A i \in 1 .. b - 0 : Slice(s, 0, b)[i] = s[0 + i]
    BY <2>1, SliceType, Zenon
  <2> QED BY <2>2 DEF LineStarts
<1>2. before = {p \in 0 .. a - 1 : p = 0 \/ s[p] = LF}
  <2>1. 0 \in Nat /\ 0 <= a /\ a <= Len(s)
    BY LenProperties
  <2>2. /\ Len(Slice(s, 0, a)) = a - 0
        /\ \A i \in 1 .. a - 0 : Slice(s, 0, a)[i] = s[0 + i]
    BY <2>1, SliceType, Zenon
  <2> QED BY <2>2 DEF LineStarts
<1>3. after = {q \in 0 .. (b - a) - 1 : q = 0 \/ s[a + q] = LF}
  <2>1. /\ Len(Slice(s, a, b)) = b - a
        /\ \A i \in 1 .. b - a : Slice(s, a, b)[i] = s[a + i]
    BY SliceType
  <2> QED BY <2>1 DEF LineStarts
<1>4. /\ IsFiniteSet(before) /\ Cardinality(before) \in Nat
      /\ IsFiniteSet(after) /\ Cardinality(after) \in Nat
  <2>1. 0 \in Nat /\ 0 <= a /\ a <= Len(s)
    BY LenProperties
  <2>2. Slice(s, 0, a) \in Seq(S) /\ Slice(s, a, b) \in Seq(S)
    BY <2>1, SliceType, Zenon
  <2> QED BY <2>2, LineCountType DEF LineCount
<1>5. IsFiniteSet(moved) /\ Cardinality(moved) = Cardinality(after)
  <2> DEFINE shift == [q \in after |-> a + q]
  <2>1. shift \in Bijection(after, moved)
    <3>1. shift \in [after -> moved]
      BY <1>3
    <3>2. \A p, q \in after : shift[p] = shift[q] => p = q
      BY <1>3
    <3>3. \A p \in moved : \E q \in after : shift[q] = p
      <4> SUFFICES ASSUME NEW p \in moved
                   PROVE  p - a \in after /\ a + (p - a) = p
        OBVIOUS
      <4> QED BY <1>3
    <3> HIDE DEF shift, moved, after
    <3> QED BY <3>1, <3>2, <3>3 DEF Bijection, Injection, Surjection, IsInjective
  <2> HIDE DEF shift, moved, after
  <2> QED BY <2>1, <1>4, FS_Bijection DEF ExistsBijection
<1>6. whole = before \cup moved
  BY <1>1, <1>2
<1>7. before \cap moved = {}
  BY <1>2
<1> HIDE DEF whole, before, after, moved
<1>8. Cardinality(whole) = Cardinality(before) + Cardinality(moved) - Cardinality({})
  BY <1>4, <1>5, <1>6, <1>7, FS_Union
<1>9. Cardinality(whole) = Cardinality(before) + Cardinality(after)
  BY <1>4, <1>5, <1>8, FS_EmptySet
<1> QED
  BY <1>9 DEF whole, before, after, LineCount
------------------------------------------------------------------------------
(* A set of naturals has a least member, ...                                *)
LEMMA LeastOf ==
    ASSUME NEW S \in SUBSET Nat, S # {}
    PROVE  \E m \in S : \A n \in S : m <= n
<1> DEFINE less == OpToRel(<, Nat)
<1>1. \A m, n \in Nat : m < n => <<m, n>> \in less
  BY DEF OpToRel
<1>2. \E m \in S : \A n \in S : ~ (<<n, m>> \in less)
  <2> HIDE DEF less
  <2>1. IsWellFoundedOn(less, Nat)
    BY NatLessThanWellFounded DEF less
  <2> QED BY <2>1, WFMin, Zenon
<1> HIDE DEF less
<1>3. PICK m \in S : \A n \in S : ~ (n < m)
  BY <1>1, <1>2
<1> QED
  BY <1>3

(* ... and a greatest, if they have a bound.                                *)
LEMMA GreatestOf ==
    ASSUME NEW S \in SUBSET Nat, S # {}, NEW b \in Nat, \A n \in S : n <= b
    PROVE  \E m \in S : \A n \in S : n <= m
<1> DEFINE back == {b - n : n \in S}
<1>1. back \in SUBSET Nat /\ back # {}
  <2>1. \A n \in S : b - n \in Nat
    OBVIOUS
  <2> QED BY <2>1, Zenon
<1>2. PICK l \in back : \A k \in back : l <= k
  <2> HIDE DEF back
  <2> QED BY <1>1, LeastOf
<1>3. PICK m \in S : l = b - m
  BY <1>2
<1>4. \A n \in S : n <= m
  <2> SUFFICES ASSUME NEW n \in S PROVE n <= m
    OBVIOUS
  <2>1. b - n \in back
    OBVIOUS
  <2>2. l <= b - n
    BY <1>2, <2>1
  <2> QED BY <1>3, <2>2
<1> QED
  BY <1>4

(* memrchr finds the last line ending of bytes that have one.               *)
LEMMA LastLineEndIsLast ==
    ASSUME NEW S, NEW s \in Seq(S), LineEnds(s) # {}
    PROVE  /\ LastLineEnd(s) \in LineEnds(s)
           /\ \A f \in LineEnds(s) : f <= LastLineEnd(s)
<1>1. Len(s) \in Nat /\ LineEnds(s) \in SUBSET Nat /\ \A e \in LineEnds(s) : e <= Len(s)
  BY LenProperties DEF LineEnds
<1>2. \E e \in LineEnds(s) : \A f \in LineEnds(s) : f <= e
  BY <1>1, GreatestOf
<1> QED
  BY <1>2 DEF LastLineEnd

(* memchr finds the first line feed past an offset that has one.            *)
LEMMA NextLineFeedIsNext ==
    ASSUME NEW S, NEW s \in Seq(S), NEW from \in Nat, LineFeeds(s, from) # {}
    PROVE  /\ NextLineFeed(s, from) \in LineFeeds(s, from)
           /\ \A q \in LineFeeds(s, from) : NextLineFeed(s, from) <= q
<1>1. LineFeeds(s, from) \in SUBSET Nat
  BY LenProperties DEF LineFeeds
<1>2. \E p \in LineFeeds(s, from) : \A q \in LineFeeds(s, from) : p <= q
  BY <1>1, LeastOf
<1> QED
  BY <1>2 DEF NextLineFeed

(* There is a line for every number up to the count, with one line fewer    *)
(* before it.                                                               *)
LEMMA NthLineStart ==
    ASSUME NEW S, NEW s \in Seq(S), NEW n \in Nat, n < LineCount(s)
    PROVE  /\ LineStart(s, n + 1) \in LineStarts(s)
           /\ Cardinality({q \in LineStarts(s) : q < LineStart(s, n + 1)}) = n
<1> DEFINE starts == LineStarts(s)
           Before(p) == {q \in starts : q < p}
           late == {p \in starts : Cardinality(Before(p)) >= n}
<1>1. /\ IsFiniteSet(starts) /\ Cardinality(starts) \in Nat /\ n < Cardinality(starts)
      /\ starts \in SUBSET Nat /\ Len(s) \in Nat /\ \A p \in starts : p <= Len(s)
  BY LineCountType, LenProperties DEF LineCount, LineStarts
<1>2. \A p, q : q \in Before(p) <=> q \in starts /\ q < p
  OBVIOUS
<1>3. \A p : p \in late <=> p \in starts /\ Cardinality(Before(p)) >= n
  OBVIOUS
<1> HIDE DEF starts, Before, late
<1>4. ASSUME NEW p \in starts
      PROVE  /\ IsFiniteSet(Before(p)) /\ Cardinality(Before(p)) \in Nat
             /\ Before(p) \in SUBSET Nat /\ \A q \in Before(p) : q <= Len(s)
  <2>1. Before(p) \in SUBSET starts
    BY <1>2
  <2>2. IsFiniteSet(Before(p))
    BY <1>1, <2>1, FS_Subset
  <2> QED BY <1>1, <2>1, <2>2, FS_CardinalityType
<1>5. ASSUME NEW r \in starts, NEW S1 \in SUBSET starts,
             IsFiniteSet(S1), r \in S1, \A q : q \in S1 => q <= r,
             \A q \in starts : q < r => q \in S1
      PROVE  Cardinality(Before(r)) = Cardinality(S1) - 1
  <2>1. Before(r) = S1 \ {r}
    <3>1. \A q : q \in Before(r) <=> q \in S1 /\ q # r
      <4> TAKE q
      <4>1. q \in Before(r) <=> q \in starts /\ q < r
        BY <1>2
      <4>2. q \in starts => q \in Nat /\ r \in Nat
        BY <1>1
      <4>3. /\ q \in S1 => q \in starts /\ q <= r
            /\ q \in starts /\ q < r => q \in S1
        BY <1>5
      <4>4. q \in Nat /\ r \in Nat => (q < r <=> q <= r /\ q # r)
        OBVIOUS
      <4> QED BY <4>1, <4>2, <4>3, <4>4, Zenon
    <3> QED BY <3>1
  <2> QED BY <1>5, <2>1, FS_RemoveElement
<1>6. PICK g \in starts : \A q \in starts : q <= g
  <2>1. starts # {}
    BY <1>1, FS_EmptySet
  <2> QED BY <1>1, <2>1, GreatestOf
<1>7. g \in late
  <2>1. Cardinality(Before(g)) = Cardinality(starts) - 1
    BY <1>1, <1>5, <1>6
  <2> QED BY <1>1, <1>3, <2>1
<1>8. PICK p \in late : \A q \in late : p <= q
  <2>1. late \in SUBSET Nat /\ late # {}
    BY <1>1, <1>3, <1>7
  <2> QED BY <2>1, LeastOf
<1>9. p \in starts /\ p \in Nat /\ Cardinality(Before(p)) >= n
  BY <1>1, <1>3, <1>8
<1>10. Cardinality(Before(p)) = n
  <2> SUFFICES ASSUME Cardinality(Before(p)) > n PROVE FALSE
    BY <1>4, <1>9
  <2>1. Before(p) # {}
    <3>1. Cardinality({}) = 0
      BY FS_EmptySet
    <3>2. Cardinality(Before(p)) # 0
      BY <1>4, <1>9
    <3> QED BY <3>1, <3>2
  <2>2. PICK r \in Before(p) : \A q \in Before(p) : q <= r
    BY <1>1, <1>4, <1>9, <2>1, GreatestOf
  <2>3. r \in starts /\ r < p /\ r \in Nat
    BY <1>1, <1>2, <2>2
  <2>4. Cardinality(Before(r)) = Cardinality(Before(p)) - 1
    <3>1. Before(p) \in SUBSET starts /\ IsFiniteSet(Before(p))
      BY <1>2, <1>4, <1>9
    <3>2. \A q \in starts : q < r => q \in Before(p)
      BY <1>1, <1>2, <1>9, <2>3
    <3> QED BY <1>5, <1>9, <2>2, <2>3, <3>1, <3>2
  <2>5. r \in late
    BY <1>3, <1>4, <1>9, <2>3, <2>4
  <2> QED BY <1>8, <1>9, <2>3, <2>5
<1>11. \E q \in starts : Cardinality(Before(q)) = n
  BY <1>9, <1>10
<1>12. LineStart(s, n + 1) = CHOOSE q \in starts : Cardinality(Before(q)) = n
  <2>1. (n + 1) - 1 = n
    OBVIOUS
  <2> QED BY <2>1 DEF LineStart, starts, Before
<1>13. LineStart(s, n + 1) \in starts /\ Cardinality(Before(LineStart(s, n + 1))) = n
  BY <1>11, <1>12
<1> QED
  BY <1>13 DEF starts, Before

(* after_lines stays within the bytes.                                      *)
LEMMA AfterLinesType ==
    ASSUME NEW S, NEW s \in Seq(S), NEW n \in Nat
    PROVE  AfterLines(s, n) \in 0 .. Len(s)
<1>1. CASE n < LineCount(s)
  <2>1. LineStart(s, n + 1) \in LineStarts(s)
    BY <1>1, NthLineStart
  <2> QED BY <1>1, <2>1, LenProperties DEF AfterLines, LineStarts
<1>2. CASE ~(n < LineCount(s))
  BY <1>2, LenProperties DEF AfterLines
<1> QED
  BY <1>1, <1>2

------------------------------------------------------------------------------
(* A chunk ends past its size-th byte, unless the unit ends before it, and  *)
(* with the first line that does.                                           *)
LEMMA ChunkEndFacts ==
    ASSUME NEW S, NEW s \in Seq(S), NEW a \in Nat, a < Len(s),
           NEW z \in Nat, z > 0
    PROVE  /\ ChunkEnd(s, a, z) \in Nat
           /\ a < ChunkEnd(s, a, z) /\ ChunkEnd(s, a, z) <= Len(s)
           /\ ChunkEnd(s, a, z) >= a + z \/ ChunkEnd(s, a, z) = Len(s)
           /\ \A p \in Nat : p >= a + z /\ p < ChunkEnd(s, a, z) => s[p] # LF
<1> DEFINE from == Lesser(a + z - 1, Len(s))
           next == NextLineFeed(s, from)
<1>1. Len(s) \in Nat /\ from \in Nat /\ a <= from
      /\ (from = a + z - 1 \/ from = Len(s)) /\ from <= a + z - 1
  BY LenProperties DEF Lesser
<1> HIDE DEF from
<1>2. ASSUME NEW p \in Nat, p >= a + z, p <= Len(s), s[p] = LF
      PROVE  p - 1 \in LineFeeds(s, from)
  BY <1>1, <1>2 DEF LineFeeds
<1>3. CASE LineFeeds(s, from) = {}
  <2>1. ChunkEnd(s, a, z) = Len(s)
    BY <1>3 DEF ChunkEnd, from
  <2> QED BY <1>1, <1>2, <1>3, <2>1
<1>4. CASE LineFeeds(s, from) # {}
  <2>1. ChunkEnd(s, a, z) = next + 1
    BY <1>4 DEF ChunkEnd, from
  <2>2. next \in LineFeeds(s, from) /\ \A q \in LineFeeds(s, from) : next <= q
    BY <1>1, <1>4, NextLineFeedIsNext, Zenon
  <2> HIDE DEF next
  <2>3. next \in from .. Len(s) - 1
    BY <2>2 DEF LineFeeds
  <2> QED BY <1>1, <1>2, <2>1, <2>2, <2>3
<1> QED
  BY <1>3, <1>4

(* A chunk ends where a line does.                                          *)
LEMMA ChunkEndsALine ==
    ASSUME NEW S, NEW s \in Seq(S), NEW a \in Nat, a < Len(s),
           NEW z \in Nat, z > 0
    PROVE  ChunkEnd(s, a, z) = Len(s) \/ s[ChunkEnd(s, a, z)] = LF
<1> DEFINE from == Lesser(a + z - 1, Len(s))
<1>1. Len(s) \in Nat /\ from \in Nat
  BY LenProperties DEF Lesser
<1> HIDE DEF from
<1>2. CASE LineFeeds(s, from) = {}
  BY <1>2 DEF ChunkEnd, from
<1>3. CASE LineFeeds(s, from) # {}
  <2>1. NextLineFeed(s, from) \in LineFeeds(s, from)
    BY <1>1, <1>3, NextLineFeedIsNext, Zenon
  <2>2. ChunkEnd(s, a, z) = NextLineFeed(s, from) + 1
    BY <1>3 DEF ChunkEnd, from
  <2> QED BY <2>1, <2>2 DEF LineFeeds
<1> QED
  BY <1>2, <1>3

------------------------------------------------------------------------------
(* The lines that start before p are those of the first p bytes.            *)
LEMMA StartsBefore ==
    ASSUME NEW S, NEW s \in Seq(S), NEW p \in Nat, p <= Len(s)
    PROVE  /\ {q \in LineStarts(s) : q < p} = LineStarts(Slice(s, 0, p))
           /\ Cardinality({q \in LineStarts(s) : q < p}) = LineCount(Slice(s, 0, p))
<1> DEFINE part == Slice(s, 0, p)
<1>1. Len(part) = p /\ (\A i \in 1 .. p : part[i] = s[i]) /\ Len(s) \in Nat
  <2>0. 0 \in Nat /\ 0 <= p
    OBVIOUS
  <2>1. /\ Len(part) = p - 0 /\ (\A i \in 1 .. p - 0 : part[i] = s[0 + i])
    BY <2>0, SliceType, Zenon
  <2> HIDE DEF part
  <2> QED BY <2>1, LenProperties
<1> HIDE DEF part
<1>2. {q \in LineStarts(s) : q < p} = LineStarts(part)
  BY <1>1 DEF LineStarts
<1> QED
  BY <1>2 DEF LineCount, part

(* As many lines before one start as before another: the same start.        *)
LEMMA OneNthStart ==
    ASSUME NEW S, NEW s \in Seq(S), NEW p \in LineStarts(s), NEW q \in LineStarts(s),
           Cardinality({x \in LineStarts(s) : x < p})
               = Cardinality({x \in LineStarts(s) : x < q})
    PROVE  p = q
<1> DEFINE Before(x) == {y \in LineStarts(s) : y < x}
<1>1. LineStarts(s) \subseteq Nat /\ IsFiniteSet(LineStarts(s))
  BY LineCountType DEF LineStarts
<1>2. ASSUME NEW x \in LineStarts(s), NEW y \in LineStarts(s), x < y
      PROVE  Cardinality(Before(x)) # Cardinality(Before(y))
  <2>1. Before(x) \subseteq Before(y) /\ x \in Before(y) /\ x \notin Before(x)
    BY <1>1, <1>2
  <2>2. IsFiniteSet(Before(y))
    BY <1>1, FS_Subset, Before(y) \subseteq LineStarts(s)
  <2> HIDE DEF Before
  <2>3. Before(x) # Before(y)
    BY <2>1
  <2> QED
    BY <2>1, <2>2, <2>3, FS_Subset
<1>3. Cardinality(Before(p)) = Cardinality(Before(q))
  OBVIOUS
<1> HIDE DEF Before
<1>4. p \in Nat /\ q \in Nat
  BY <1>1
<1> QED
  BY <1>2, <1>3, <1>4

(* A line's text is a copy of the bytes from where it starts.               *)
LEMMA LineTextType ==
    ASSUME NEW S, NEW s \in Seq(S), NEW a \in Nat, a <= Len(s)
    PROVE  /\ LineText(s, a) \in Seq(S)
           /\ a + Len(LineText(s, a)) <= Len(s)
           /\ \A q \in 1 .. Len(LineText(s, a)) : LineText(s, a)[q] = s[a + q]
<1> DEFINE e == IF LineFeeds(s, a) = {} THEN Len(s) ELSE NextLineFeed(s, a)
           line == Slice(s, a, e)
           part == Slice(line, 0, Len(line) - 1)
<1>1. e \in Nat /\ a <= e /\ e <= Len(s) /\ Len(s) \in Nat
  <2>1. CASE LineFeeds(s, a) = {}
    BY <2>1, LenProperties
  <2>2. CASE LineFeeds(s, a) # {}
    <3>1. NextLineFeed(s, a) \in LineFeeds(s, a)
      BY <2>2, NextLineFeedIsNext
    <3> QED BY <2>2, <3>1, LenProperties DEF LineFeeds
  <2> QED BY <2>1, <2>2
<1>2. LineText(s, a) = IF line # <<>> /\ line[Len(line)] = CR THEN part ELSE line
  BY DEF LineText
<1> HIDE DEF e
<1>3. /\ line \in Seq(S) /\ Len(line) = e - a
      /\ \A q \in 1 .. e - a : line[q] = s[a + q]
  BY <1>1, SliceType
<1> HIDE DEF line
<1>4. CASE line # <<>> /\ line[Len(line)] = CR
  <2> DEFINE n == Len(line) - 1
  <2>1. n \in Nat /\ n <= Len(line) /\ Len(line) = n + 1
    BY <1>3, <1>4, LenProperties, EmptySeq
  <2> HIDE DEF n
  <2>2. /\ Slice(line, 0, n) \in Seq(S) /\ Len(Slice(line, 0, n)) = n - 0
        /\ \A q \in 1 .. n - 0 : Slice(line, 0, n)[q] = line[0 + q]
    <3>1. 0 \in Nat /\ 0 <= n /\ n \in Nat /\ n <= Len(line) /\ line \in Seq(S)
      BY <1>3, <2>1
    <3>2. Slice(line, 0, n) \in Seq(S)
      BY <3>1, SliceType
    <3>3. Len(Slice(line, 0, n)) = n - 0
      BY <3>1, SliceType
    <3>4. \A q \in 1 .. n - 0 : Slice(line, 0, n)[q] = line[0 + q]
      BY <3>1, SliceType
    <3> QED BY <3>2, <3>3, <3>4
  <2>3. LineText(s, a) = Slice(line, 0, n)
    BY <1>2, <1>4 DEF n
  <2>4. /\ n - 0 = n /\ a + n <= Len(s)
        /\ \A q \in 1 .. n : 0 + q = q /\ q \in 1 .. e - a
    BY <1>1, <1>3, <2>1
  <2> QED
    BY <1>3, <2>2, <2>3, <2>4
<1>5. CASE ~(line # <<>> /\ line[Len(line)] = CR)
  <2>1. LineText(s, a) = line
    BY <1>2, <1>5
  <2>2. a + (e - a) <= Len(s)
    BY <1>1
  <2> QED
    BY <1>3, <2>1, <2>2
<1> QED
  BY <1>4, <1>5

(* A part that begins and ends with a line has the whole's lines from there *)
(* on, each with the same text.                                             *)
LEMMA LineOfPart ==
    ASSUME NEW S, NEW s \in Seq(S), NEW a \in Nat, NEW b \in Nat, a <= b, b <= Len(s),
           a = 0 \/ s[a] = LF, b = Len(s) \/ s[b] = LF,
           NEW l \in 1 .. LineCount(Slice(s, a, b))
    PROVE  /\ LineCount(Slice(s, 0, a)) \in Nat
           /\ LineCount(Slice(s, 0, a)) + l \in 1 .. LineCount(s)
           /\ LineStart(s, LineCount(Slice(s, 0, a)) + l)
                  = a + LineStart(Slice(s, a, b), l)
           /\ LineText(s, a + LineStart(Slice(s, a, b), l))
                  = LineText(Slice(s, a, b), LineStart(Slice(s, a, b), l))
           /\ LineStart(Slice(s, a, b), l) \in 0 .. b - a - 1
<1> DEFINE t == Slice(s, a, b)
           p == LineStart(t, l)
           R == LineCount(Slice(s, 0, a))
<1>1. /\ t \in Seq(S) /\ Len(t) = b - a /\ Len(s) \in Nat
      /\ \A i \in 1 .. b - a : t[i] = s[a + i]
  BY SliceType, LenProperties
<1>2. /\ Slice(s, 0, a) \in Seq(S) /\ Slice(s, 0, b) \in Seq(S)
  <2>1. 0 \in Nat /\ 0 <= a /\ 0 <= b /\ a <= Len(s)
    BY <1>1
  <2> QED BY <2>1, SliceType, Zenon
<1>3. R \in Nat /\ LineCount(t) \in Nat /\ LineCount(s) \in Nat
  BY <1>1, <1>2, LineCountType
<1>4. \A c, d \in Nat : c <= d /\ d <= b - a => Slice(t, c, d) = Slice(s, a + c, a + d)
  BY SliceOfSlice
<1>5. /\ l - 1 \in Nat /\ l - 1 < LineCount(t) /\ (l - 1) + 1 = l
  BY <1>3
<1>6. p \in LineStarts(t) /\ Cardinality({q \in LineStarts(t) : q < p}) = l - 1
  <2>1. LineStart(t, (l - 1) + 1) \in LineStarts(t)
        /\ Cardinality({q \in LineStarts(t) : q < LineStart(t, (l - 1) + 1)}) = l - 1
    BY <1>1, <1>5, NthLineStart
  <2> QED BY <1>5, <2>1
<1> HIDE DEF p
<1>7. p \in Nat /\ p <= b - a - 1 /\ (p = 0 \/ t[p] = LF)
  BY <1>1, <1>6 DEF LineStarts
<1>8. a + p \in LineStarts(s)
  <2>1. a + p \in 0 .. Len(s) - 1
    BY <1>1, <1>7
  <2>2. CASE p = 0
    BY <2>1, <2>2 DEF LineStarts
  <2>3. CASE p # 0
    <3>1. p \in 1 .. b - a
      BY <1>7, <2>3
    <3>2. s[a + p] = LF
      BY <1>1, <1>7, <2>3, <3>1
    <3> QED BY <2>1, <3>2 DEF LineStarts
  <2> QED BY <2>2, <2>3
<1>9. Cardinality({q \in LineStarts(s) : q < a + p}) = R + (l - 1)
  <2>1. Cardinality({q \in LineStarts(s) : q < a + p}) = LineCount(Slice(s, 0, a + p))
    <3>1. a + p \in Nat /\ a + p <= Len(s)
      BY <1>1, <1>7
    <3> QED BY <3>1, StartsBefore, Zenon
  <2>2. LineCount(Slice(s, 0, a + p)) = R + LineCount(Slice(s, a, a + p))
    <3>1. a + p \in Nat /\ a <= a + p /\ a + p <= Len(s)
      BY <1>1, <1>7
    <3> QED BY <3>1, LineCountAtCut, Zenon
  <2>3. Slice(s, a, a + p) = Slice(t, 0, p)
    <3>1. 0 \in Nat /\ 0 <= p /\ p <= b - a /\ a + 0 = a
      BY <1>7
    <3>2. Slice(t, 0, p) = Slice(s, a + 0, a + p)
      BY <1>4, <1>7, <3>1, Zenon
    <3> QED BY <3>1, <3>2
  <2>4. LineCount(Slice(t, 0, p)) = l - 1
    <3>1. p <= Len(t)
      BY <1>1, <1>7
    <3> QED BY <1>1, <1>6, <1>7, <3>1, StartsBefore, Zenon
  <2> HIDE DEF t, R
  <2> QED BY <2>1, <2>2, <2>3, <2>4
<1>10. R + l \in 1 .. LineCount(s)
  <2>1. LineCount(Slice(s, 0, b)) = R + LineCount(t)
    BY LineCountAtCut
  <2>2. Cardinality({q \in LineStarts(s) : q < b}) = LineCount(Slice(s, 0, b))
    BY StartsBefore
  <2>3. Cardinality({q \in LineStarts(s) : q < b}) <= LineCount(s)
    <3>1. {q \in LineStarts(s) : q < b} \subseteq LineStarts(s)
      OBVIOUS
    <3> QED BY <3>1, LineCountType, FS_Subset DEF LineCount
  <2> HIDE DEF t, R
  <2> QED BY <1>3, <1>5, <2>1, <2>2, <2>3
<1>11. LineStart(s, R + l) = a + p
  <2>1. /\ R + l - 1 \in Nat /\ R + l - 1 < LineCount(s)
        /\ (R + l - 1) + 1 = R + l /\ R + (l - 1) = R + l - 1
    <3> HIDE DEF R
    <3> QED BY <1>3, <1>10
  <2>2. LineStart(s, (R + l - 1) + 1) \in LineStarts(s)
        /\ Cardinality({q \in LineStarts(s) : q < LineStart(s, (R + l - 1) + 1)})
               = R + l - 1
    BY <2>1, NthLineStart, Zenon
  <2> HIDE DEF R
  <2> QED BY <1>8, <1>9, <2>1, <2>2, OneNthStart
<1>12. LineText(s, a + p) = LineText(t, p)
  <2>1. \A x \in p .. b - a - 1 :
            x \in LineFeeds(t, p) <=> a + x \in LineFeeds(s, a + p)
    <3> TAKE x \in p .. b - a - 1
    <3>1. /\ x + 1 \in 1 .. b - a /\ a + x \in a + p .. Len(s) - 1
          /\ a + (x + 1) = (a + x) + 1 /\ x \in p .. Len(t) - 1
      BY <1>1, <1>7
    <3>2. t[x + 1] = s[(a + x) + 1]
      BY <1>1, <3>1
    <3> HIDE DEF t
    <3> QED BY <3>1, <3>2 DEF LineFeeds
  <2>2. /\ LineFeeds(t, p) \subseteq p .. b - a - 1
        /\ LineFeeds(s, a + p) \subseteq a + p .. Len(s) - 1
    BY <1>1 DEF LineFeeds
  <2> DEFINE e == IF LineFeeds(t, p) = {} THEN Len(t) ELSE NextLineFeed(t, p)
             f == IF LineFeeds(s, a + p) = {} THEN Len(s) ELSE NextLineFeed(s, a + p)
  <2>3. f = a + e /\ e \in Nat /\ p <= e /\ e <= b - a
    <3>1. CASE LineFeeds(t, p) = {}
      <4>1. b = Len(s)
        <5> SUFFICES ASSUME b # Len(s) PROVE FALSE
          OBVIOUS
        <5>1. s[b] = LF /\ b - a - 1 \in p .. b - a - 1 /\ a + (b - a - 1) = b - 1
          BY <1>7
        <5>2. b - 1 \in LineFeeds(s, a + p)
          BY <1>1, <1>7, <5>1 DEF LineFeeds
        <5> QED BY <2>1, <3>1, <5>1, <5>2
      <4>2. LineFeeds(s, a + p) = {}
        <5> SUFFICES ASSUME NEW y \in LineFeeds(s, a + p) PROVE FALSE
          OBVIOUS
        <5>1. y - a \in p .. b - a - 1 /\ a + (y - a) = y
          BY <1>1, <1>7, <2>2, <4>1
        <5> QED BY <2>1, <3>1, <5>1
      <4> HIDE DEF t
      <4> QED BY <1>1, <1>7, <3>1, <4>1, <4>2
    <3>2. CASE LineFeeds(t, p) # {}
      <4>1. /\ NextLineFeed(t, p) \in LineFeeds(t, p)
            /\ \A q \in LineFeeds(t, p) : NextLineFeed(t, p) <= q
        BY <1>1, <1>7, <3>2, NextLineFeedIsNext, Zenon
      <4> DEFINE x == NextLineFeed(t, p)
      <4>2. x \in p .. b - a - 1 /\ a + x \in LineFeeds(s, a + p)
        BY <2>1, <2>2, <4>1
      <4>3. a + p \in Nat
        BY <1>7
      <4>4. /\ NextLineFeed(s, a + p) \in LineFeeds(s, a + p)
            /\ \A q \in LineFeeds(s, a + p) : NextLineFeed(s, a + p) <= q
        BY <4>2, <4>3, NextLineFeedIsNext, Zenon
      <4> DEFINE y == NextLineFeed(s, a + p)
      <4>5. y \in a + p .. Len(s) - 1 /\ y <= a + x
        BY <2>2, <4>2, <4>4
      <4>6. y - a \in p .. b - a - 1 /\ a + (y - a) = y
        <5> HIDE DEF x, y
        <5> QED BY <1>1, <1>7, <4>2, <4>5
      <4>7. y - a \in LineFeeds(t, p)
        BY <2>1, <4>4, <4>6
      <4>8. x <= y - a
        BY <4>1, <4>7
      <4>9. e = x /\ f = y
        BY <3>2, <4>2
      <4> HIDE DEF x, y, e, f
      <4> QED BY <1>7, <4>2, <4>5, <4>6, <4>8, <4>9
    <3> QED BY <3>1, <3>2
  <2>4. Slice(t, p, e) = Slice(s, a + p, a + e)
    <3> HIDE DEF e, t
    <3> QED BY <1>4, <1>7, <2>3
  <2>5. Slice(s, a + p, f) = Slice(t, p, e)
    BY <2>3, <2>4
  <2> HIDE DEF t
  <2> QED BY <2>5, Zenon DEF LineText
<1> QED
  BY <1>3, <1>7, <1>10, <1>11, <1>12 DEF p

------------------------------------------------------------------------------
(* No bytes, no line.                                                       *)
LEMMA NoLines == LineCount(<<>>) = 0
<1>1. LineStarts(<<>>) = {}
  BY DEF LineStarts
<1> QED
  BY <1>1, FS_EmptySet DEF LineCount

(* No bytes hold more lines than bytes.                                     *)
LEMMA CountAtMost ==
    ASSUME NEW S, NEW s \in Seq(S)
    PROVE  LineCount(s) <= Len(s)
<1>1. Len(s) \in Nat
  BY LenProperties
<1>2. IsFiniteSet(0 .. Len(s) - 1) /\ Cardinality(0 .. Len(s) - 1) = Len(s)
  <2>1. 0 \in Int /\ Len(s) - 1 \in Int
    BY <1>1
  <2>2. /\ IsFiniteSet(0 .. Len(s) - 1)
        /\ Cardinality(0 .. Len(s) - 1)
               = IF 0 > Len(s) - 1 THEN 0 ELSE (Len(s) - 1) - 0 + 1
    BY <2>1, FS_Interval, Zenon
  <2> QED BY <1>1, <2>2
<1>3. LineStarts(s) \in SUBSET (0 .. Len(s) - 1)
  BY DEF LineStarts
<1> QED
  BY <1>2, <1>3, FS_Subset DEF LineCount

(* All of the bytes are a slice of them.                                    *)
LEMMA WholeSlice ==
    ASSUME NEW S, NEW s \in Seq(S)
    PROVE  Slice(s, 0, Len(s)) = s
<1>1. Len(s) \in Nat /\ 0 \in Nat /\ 0 <= Len(s) /\ Len(s) <= Len(s)
  BY LenProperties
<1>2. /\ Slice(s, 0, Len(s)) \in Seq(S)
      /\ Len(Slice(s, 0, Len(s))) = Len(s) - 0
      /\ \A i \in 1 .. Len(s) - 0 : Slice(s, 0, Len(s))[i] = s[0 + i]
  BY <1>1, SliceType
<1> QED
  BY <1>1, <1>2, SeqEqual

(* Offset b is at the end of the bytes or of a line of them, or at 0.       *)
AtCut(s, b) == b = 0 \/ b = Len(s) \/ s[b] = LF

(* after_lines cuts the bytes after as many lines as asked for, or all.     *)
LEMMA CutAfterLines ==
    ASSUME NEW S, NEW s \in Seq(S), NEW n \in Nat
    PROVE  /\ AtCut(s, AfterLines(s, n))
           /\ LineCount(Slice(s, 0, AfterLines(s, n))) = Lesser(n, LineCount(s))
<1>1. Len(s) \in Nat /\ LineCount(s) \in Nat
  BY LenProperties, LineCountType
<1>2. CASE n < LineCount(s)
  <2> DEFINE p == LineStart(s, n + 1)
  <2>1. p \in LineStarts(s) /\ Cardinality({q \in LineStarts(s) : q < p}) = n
    BY <1>2, NthLineStart
  <2>2. AfterLines(s, n) = p /\ Lesser(n, LineCount(s)) = n
    BY <1>1, <1>2 DEF AfterLines, Lesser
  <2> HIDE DEF p
  <2>3. p \in Nat /\ p <= Len(s) /\ (p = 0 \/ s[p] = LF)
    BY <1>1, <2>1 DEF LineStarts
  <2>4. Cardinality({q \in LineStarts(s) : q < p}) = LineCount(Slice(s, 0, p))
    BY <2>3, StartsBefore, Zenon
  <2> QED BY <2>1, <2>2, <2>3, <2>4 DEF AtCut
<1>3. CASE ~(n < LineCount(s))
  <2>1. AfterLines(s, n) = Len(s) /\ Lesser(n, LineCount(s)) = LineCount(s)
    BY <1>1, <1>3 DEF AfterLines, Lesser
  <2> QED BY <2>1, WholeSlice DEF AtCut
<1> QED
  BY <1>2, <1>3

------------------------------------------------------------------------------
(* The r-th line as a record, and the n records past the r-th.              *)
RecordAt(s, r) ==
    [record |-> r, byte |-> LineStart(s, r), text |-> LineText(s, LineStart(s, r))]

RecordsFrom(s, r, n) == [i \in 1 .. n |-> RecordAt(s, r + i)]

RecordsOf(s) == {RecordAt(s, r) : r \in Nat}

(* They are as many as asked for, and the unit's.                           *)
LEMMA RecordsFromType ==
    ASSUME NEW s, NEW r \in Nat, NEW n \in Nat
    PROVE  /\ RecordsFrom(s, r, n) \in Seq(RecordsOf(s))
           /\ Len(RecordsFrom(s, r, n)) = n
           /\ \A i \in 1 .. n : RecordsFrom(s, r, n)[i] = RecordAt(s, r + i)
<1> DEFINE f == RecordsFrom(s, r, n)
<1>1. \A i \in 1 .. n : f[i] = RecordAt(s, r + i) /\ r + i \in Nat
  BY DEF RecordsFrom
<1>2. \A i \in 1 .. n : f[i] \in RecordsOf(s)
  BY <1>1, Zenon DEF RecordsOf
<1>3. f \in [1 .. n -> RecordsOf(s)]
  <2>1. f = [i \in 1 .. n |-> f[i]]
    BY DEF RecordsFrom
  <2> HIDE DEF f
  <2> QED BY <1>2, <2>1
<1> HIDE DEF f
<1>4. f \in Seq(RecordsOf(s)) /\ Len(f) = n
  BY <1>3, SeqDef, LenProperties
<1> QED
  BY <1>1, <1>4 DEF f

(* Records and the records past them.                                       *)
LEMMA RecordsFromAppend ==
    ASSUME NEW s, NEW r \in Nat, NEW m \in Nat, NEW n \in Nat
    PROVE  RecordsFrom(s, r, m) \o RecordsFrom(s, r + m, n) = RecordsFrom(s, r, m + n)
<1> DEFINE f == RecordsFrom(s, r, m)
           g == RecordsFrom(s, r + m, n)
           h == RecordsFrom(s, r, m + n)
<1>1. /\ f \in Seq(RecordsOf(s)) /\ Len(f) = m
      /\ \A i \in 1 .. m : f[i] = RecordAt(s, r + i)
  BY RecordsFromType
<1>2. /\ g \in Seq(RecordsOf(s)) /\ Len(g) = n
      /\ \A i \in 1 .. n : g[i] = RecordAt(s, (r + m) + i)
  <2>1. r + m \in Nat
    OBVIOUS
  <2> QED BY <2>1, RecordsFromType
<1>3. /\ h \in Seq(RecordsOf(s)) /\ Len(h) = m + n
      /\ \A i \in 1 .. m + n : h[i] = RecordAt(s, r + i)
  <2>1. m + n \in Nat
    OBVIOUS
  <2> QED BY <2>1, RecordsFromType
<1> HIDE DEF f, g, h
<1>4. /\ f \o g \in Seq(RecordsOf(s)) /\ Len(f \o g) = m + n
      /\ \A i \in 1 .. m + n : (f \o g)[i] = IF i <= m THEN f[i] ELSE g[i - m]
  BY <1>1, <1>2, ConcatProperties
<1>5. \A i \in 1 .. m + n : (f \o g)[i] = h[i]
  <2> TAKE i \in 1 .. m + n
  <2>1. CASE i <= m
    <3>1. i \in 1 .. m
      BY <2>1
    <3> QED BY <1>1, <1>3, <1>4, <2>1, <3>1
  <2>2. CASE ~(i <= m)
    <3>1. i - m \in 1 .. n /\ (r + m) + (i - m) = r + i /\ ~(i <= m)
      BY <2>2
    <3>2. g[i - m] = RecordAt(s, (r + m) + (i - m))
      BY <1>2, <3>1
    <3>3. (f \o g)[i] = g[i - m]
      BY <1>4, <3>1
    <3>4. RecordAt(s, (r + m) + (i - m)) = RecordAt(s, r + i)
      BY <3>1
    <3> QED BY <1>3, <3>2, <3>3, <3>4
  <2> QED BY <2>1, <2>2
<1>6. f \o g = h
  BY <1>3, <1>4, <1>5, SeqEqual
<1> QED
  BY <1>6 DEF f, g, h

(* The first of some records.                                               *)
LEMMA RecordsFromPrefix ==
    ASSUME NEW s, NEW r \in Nat, NEW m \in Nat, NEW n \in Nat, m <= n
    PROVE  SubSeq(RecordsFrom(s, r, n), 1, m) = RecordsFrom(s, r, m)
<1> DEFINE f == RecordsFrom(s, r, n)
           g == RecordsFrom(s, r, m)
<1>1. /\ f \in Seq(RecordsOf(s)) /\ Len(f) = n
      /\ \A i \in 1 .. n : f[i] = RecordAt(s, r + i)
  BY RecordsFromType
<1>2. /\ g \in Seq(RecordsOf(s)) /\ Len(g) = m
      /\ \A i \in 1 .. m : g[i] = RecordAt(s, r + i)
  BY RecordsFromType
<1> HIDE DEF f, g
<1>3. /\ Slice(f, 0, m) \in Seq(RecordsOf(s)) /\ Len(Slice(f, 0, m)) = m - 0
      /\ \A i \in 1 .. m - 0 : Slice(f, 0, m)[i] = f[0 + i]
  <2>1. 0 \in Nat /\ 0 <= m /\ m <= Len(f)
    BY <1>1
  <2> QED BY <1>1, <2>1, SliceType, Zenon
<1>4. \A i \in 1 .. m : Slice(f, 0, m)[i] = g[i]
  BY <1>1, <1>2, <1>3
<1>5. Slice(f, 0, m) = g
  BY <1>2, <1>3, <1>4, SeqEqual
<1>6. Slice(f, 0, m) = SubSeq(f, 1, m)
  BY DEF Slice
<1> QED
  BY <1>5, <1>6 DEF f, g

------------------------------------------------------------------------------
(* n lines of the part s[a..b], past the k-th, numbered and placed as the   *)
(* whole's.                                                                 *)
RecordsOfPart(s, a, b, k, n) ==
    [i \in 1 .. n |->
        [record |-> LineCount(Slice(s, 0, a)) + k + i,
         byte   |-> a + Lines(Slice(s, a, b))[k + i].at,
         text   |-> Lines(Slice(s, a, b))[k + i].text]]

(* They are the whole's, from as many more as came before the part.         *)
LEMMA PartRecords ==
    ASSUME NEW S, NEW s \in Seq(S), NEW a \in Nat, NEW b \in Nat, a <= b, b <= Len(s),
           a = 0 \/ s[a] = LF, AtCut(s, b),
           NEW k \in Nat, NEW n \in Nat, k + n <= LineCount(Slice(s, a, b))
    PROVE  RecordsOfPart(s, a, b, k, n)
               = RecordsFrom(s, LineCount(Slice(s, 0, a)) + k, n)
<1> DEFINE t == Slice(s, a, b)
           R == LineCount(Slice(s, 0, a))
<1>1. t \in Seq(S) /\ Len(t) = b - a
  BY SliceType
<1>2. LineCount(t) \in Nat /\ LineCount(t) <= b - a
  BY <1>1, LineCountType, CountAtMost
<1>3. ASSUME NEW i \in 1 .. n
      PROVE  [record |-> R + k + i,
              byte   |-> a + Lines(t)[k + i].at,
              text   |-> Lines(t)[k + i].text] = RecordAt(s, R + k + i)
  <2>1. k + i \in 1 .. LineCount(t)
    BY <1>2
  <2>2. b = Len(s) \/ s[b] = LF
    BY <1>2, <2>1 DEF AtCut
  <2> DEFINE l == k + i
  <2>3. /\ R \in Nat
        /\ LineStart(s, R + l) = a + LineStart(t, l)
        /\ LineText(s, a + LineStart(t, l)) = LineText(t, LineStart(t, l))
    <3> HIDE DEF l
    <3>1. l \in 1 .. LineCount(Slice(s, a, b))
      BY <2>1 DEF l
    <3> QED BY <2>2, <3>1, LineOfPart
  <2>4. /\ Lines(t)[l].at = LineStart(t, l)
        /\ Lines(t)[l].text = LineText(t, LineStart(t, l))
    BY <2>1 DEF Lines
  <2>5. R + k + i = R + l
    BY <2>3
  <2> HIDE DEF l, t, R
  <2>6. RecordAt(s, R + l) = [record |-> R + l, byte |-> a + LineStart(t, l),
                              text |-> LineText(t, LineStart(t, l))]
    BY <2>3 DEF RecordAt
  <2> QED BY <2>4, <2>5, <2>6 DEF l
<1> HIDE DEF t, R
<1>4. [i \in 1 .. n |-> [record |-> R + k + i, byte |-> a + Lines(t)[k + i].at,
                         text |-> Lines(t)[k + i].text]]
          = [i \in 1 .. n |-> RecordAt(s, R + k + i)]
  BY <1>3
<1>5. RecordsFrom(s, R + k, n) = [i \in 1 .. n |-> RecordAt(s, R + k + i)]
  BY DEF RecordsFrom
<1> QED
  BY <1>4, <1>5 DEF t, R, RecordsOfPart

(* The marker is cut off what is left past a line ending just as it is off  *)
(* the whole.                                                               *)
LEMMA StripPart ==
    ASSUME NEW S, NEW s \in Seq(S), NEW a \in Nat, a <= Len(s), a = 0 \/ s[a] = LF
    PROVE  \E m \in Nat :
               /\ a <= m /\ m <= Len(s) /\ AtCut(s, m)
               /\ StripEofMarker(s, FALSE) = Slice(s, 0, m)
               /\ StripEofMarker(Slice(s, a, Len(s)), a > 0) = Slice(s, a, m)
               /\ m = Len(s) \/ (m + 1 = Len(s) /\ m > 0 /\ s[m + 1] = SUB)
<1> DEFINE n == Len(s)
           t == Slice(s, a, n)
           marked == n > 1 /\ s[n] = SUB /\ s[n - 1] = LF
<1>1. n \in Nat /\ a <= n
  BY LenProperties
<1>2. /\ t \in Seq(S) /\ Len(t) = n - a
      /\ \A i \in 1 .. n - a : t[i] = s[a + i]
  <2>1. n <= Len(s)
    BY <1>1
  <2> QED BY <1>1, <2>1, SliceType, Zenon
<1>3. StripEofMarker(s, FALSE) = IF marked THEN Slice(s, 0, n - 1) ELSE s
  <2>1. CASE n = 0
    BY <2>1 DEF StripEofMarker
  <2>2. CASE n = 1
    BY <2>2 DEF StripEofMarker
  <2>3. CASE n > 1
    BY <2>3 DEF StripEofMarker
  <2> HIDE DEF n, marked
  <2>4. n = 0 \/ n = 1 \/ n > 1
    BY <1>1
  <2> QED BY <2>1, <2>2, <2>3, <2>4
<1>4. a < n => s[n] = t[n - a]
  BY <1>1, <1>2
<1>5. a + 1 < n => s[n - 1] = t[n - a - 1]
  BY <1>1, <1>2
<1> HIDE DEF t
<1>6. marked => a < n
  BY <1>1, MarkersDiffer
<1>7. StripEofMarker(t, a > 0) = IF marked THEN Slice(t, 0, n - a - 1) ELSE t
  <2>1. CASE a = n
    BY <1>2, <1>6, <2>1 DEF StripEofMarker
  <2>2. CASE a + 1 = n
    BY <1>1, <1>2, <1>4, <2>2 DEF StripEofMarker
  <2>3. CASE a + 1 < n
    BY <1>1, <1>2, <1>4, <1>5, <2>3 DEF StripEofMarker
  <2> QED BY <1>1, <2>1, <2>2, <2>3
<1>8. CASE marked
  <2> DEFINE m == n - 1
  <2>1. m \in Nat /\ a <= m /\ m <= Len(s) /\ m + 1 = Len(s) /\ m > 0
        /\ s[m] = LF /\ s[m + 1] = SUB
    BY <1>1, <1>6, <1>8
  <2>2. Slice(t, 0, n - a - 1) = Slice(s, a, m)
    <3>1. /\ 0 \in Nat /\ n - a - 1 \in Nat /\ 0 <= n - a - 1 /\ n - a - 1 <= n - a
          /\ a + 0 = a /\ a + (n - a - 1) = m /\ n <= Len(s)
      BY <1>1, <2>1
    <3>2. Slice(Slice(s, a, n), 0, n - a - 1) = Slice(s, a + 0, a + (n - a - 1))
      BY <1>1, <3>1, SliceOfSlice, SMTT(30)
    <3> QED BY <3>1, <3>2 DEF t
  <2>3. /\ StripEofMarker(s, FALSE) = Slice(s, 0, m)
        /\ StripEofMarker(t, a > 0) = Slice(s, a, m)
    BY <1>3, <1>7, <1>8, <2>2
  <2> HIDE DEF marked, m
  <2> QED BY <2>1, <2>3 DEF AtCut, t
<1>9. CASE ~marked
  <2>1. Slice(s, 0, n) = s
    BY WholeSlice
  <2>2. /\ StripEofMarker(s, FALSE) = Slice(s, 0, n)
        /\ StripEofMarker(t, a > 0) = Slice(s, a, n)
    BY <1>3, <1>7, <1>9, <2>1 DEF t
  <2>3. n \in Nat /\ a <= n /\ n <= Len(s) /\ AtCut(s, n) /\ n = Len(s)
    BY <1>1 DEF AtCut
  <2> HIDE DEF marked, n
  <2> QED BY <2>2, <2>3 DEF t
<1> QED
  BY <1>8, <1>9

(***************************************************************************)
(* Sequences one after another                                             *)
(***************************************************************************)

(* The first sequences one after another, of as many as there are: what     *)
(* FlattenSeq takes the last of.                                            *)
Flattening(s, f) ==
    f = [i \in 1 .. Len(s) |-> IF i = 1 THEN s[i] ELSE f[i - 1] \o s[i]]

LEMMA OneFlattening ==
    ASSUME NEW S, NEW s \in Seq(S), NEW f, NEW g, Flattening(s, f), Flattening(s, g)
    PROVE  f = g
<1>1. /\ DOMAIN f = 1 .. Len(s) /\ DOMAIN g = 1 .. Len(s)
      /\ f = [i \in 1 .. Len(s) |-> f[i]] /\ g = [i \in 1 .. Len(s) |-> g[i]]
      /\ \A i \in 1 .. Len(s) : /\ f[i] = IF i = 1 THEN s[i] ELSE f[i - 1] \o s[i]
                                /\ g[i] = IF i = 1 THEN s[i] ELSE g[i - 1] \o s[i]
  BY DEF Flattening
<1> DEFINE odd == {i \in 1 .. Len(s) : f[i] # g[i]}
<1>2. odd = {}
  <2> SUFFICES ASSUME odd # {} PROVE FALSE
    OBVIOUS
  <2>1. odd \in SUBSET Nat
    BY LenProperties
  <2>2. PICK m \in odd : \A n \in odd : m <= n
    <3> HIDE DEF odd
    <3> QED BY <2>1, LeastOf
  <2>3. m \in 1 .. Len(s) /\ f[m] # g[m] /\ Len(s) \in Nat
    BY <2>2, LenProperties
  <2>4. m # 1
    BY <1>1, <2>3
  <2>5. m - 1 \in 1 .. Len(s) /\ ~(m <= m - 1)
    BY <2>3, <2>4
  <2>6. f[m - 1] = g[m - 1]
    BY <2>2, <2>5
  <2>7. f[m] = f[m - 1] \o s[m] /\ g[m] = g[m - 1] \o s[m]
    BY <1>1, <2>3, <2>4
  <2> QED
    BY <2>3, <2>6, <2>7
<1>3. \A i \in 1 .. Len(s) : f[i] = g[i]
  BY <1>2
<1> QED
  BY <1>1, <1>3

LEMMA FlattenIs ==
    ASSUME NEW S, NEW s \in Seq(S), NEW f, Flattening(s, f)
    PROVE  FlattenSeq(s) = IF Len(s) = 0 THEN <<>> ELSE f[Len(s)]
<1>1. CASE Len(s) = 0
  BY <1>1, EmptySeq DEF FlattenSeq
<1>2. CASE Len(s) # 0
  <2> DEFINE c == CHOOSE g : Flattening(s, g)
  <2>1. Flattening(s, c)
    OBVIOUS
  <2>2. FlattenSeq(s) = c[Len(s)]
    BY <1>2, Zenon DEF FlattenSeq, Flattening
  <2> HIDE DEF c
  <2> QED BY <1>2, <2>1, <2>2, OneFlattening
<1> QED
  BY <1>1, <1>2

(* One more.                                                                *)
LEMMA FlatteningExtends ==
    ASSUME NEW S, NEW s \in Seq(S), NEW e \in S, NEW f, Flattening(s, f)
    PROVE  LET n == Len(s) + 1
           IN  Flattening(Append(s, e),
                   [i \in 1 .. n |-> IF i < n THEN f[i]
                                     ELSE IF n = 1 THEN e ELSE f[n - 1] \o e])
<1> DEFINE n == Len(s) + 1
           t == Append(s, e)
           last == IF n = 1 THEN e ELSE f[n - 1] \o e
           g == [i \in 1 .. n |-> IF i < n THEN f[i] ELSE last]
<1>1. /\ Len(s) \in Nat /\ Len(t) = n /\ t[n] = e
      /\ \A i \in 1 .. Len(s) : t[i] = s[i]
  BY LenProperties
<1>2. \A i \in 1 .. Len(s) : f[i] = IF i = 1 THEN s[i] ELSE f[i - 1] \o s[i]
  BY DEF Flattening
<1>3. /\ \A i \in 1 .. Len(s) : g[i] = f[i]
      /\ g[n] = last
  BY <1>1
<1> HIDE DEF t, g
<1>4. ASSUME NEW i \in 1 .. n
      PROVE  g[i] = IF i = 1 THEN t[i] ELSE g[i - 1] \o t[i]
  <2>1. CASE i < n
    <3>1. i \in 1 .. Len(s) /\ (i # 1 => i - 1 \in 1 .. Len(s))
      BY <1>1, <2>1
    <3> QED
      BY <1>1, <1>2, <1>3, <3>1
  <2>2. CASE ~(i < n)
    <3>1. i = n /\ (i # 1 => i - 1 \in 1 .. Len(s))
      BY <1>1, <2>2
    <3> QED
      BY <1>1, <1>3, <3>1
  <2> QED BY <2>1, <2>2
<1>5. g = [i \in 1 .. Len(t) |-> IF i = 1 THEN t[i] ELSE g[i - 1] \o t[i]]
  <2>1. g = [i \in 1 .. n |-> g[i]]
    BY DEF g
  <2> HIDE DEF last, n
  <2> QED BY <1>1, <1>4, <2>1
<1> QED
  BY <1>5 DEF Flattening, t, g

(* The last element of a sequence and what is before it.                    *)
LEMMA AppendedTo ==
    ASSUME NEW S, NEW s \in Seq(S), s # <<>>
    PROVE  \E r \in Seq(S), e \in S : s = Append(r, e) /\ Len(r) = Len(s) - 1
<1> DEFINE r == SubSeq(s, 1, Len(s) - 1)
<1>1. Len(s) \in Nat /\ Len(s) # 0
  BY LenProperties, EmptySeq
<1>2. r \in Seq(S) /\ Len(r) = Len(s) - 1 /\ \A i \in 1 .. Len(s) - 1 : r[i] = s[i]
  <2>1. Slice(s, 0, Len(s) - 1) = SubSeq(s, 1, Len(s) - 1)
    BY DEF Slice
  <2>2. 0 \in Nat /\ Len(s) - 1 \in Nat /\ 0 <= Len(s) - 1 /\ Len(s) - 1 <= Len(s)
    BY <1>1
  <2>3. /\ Slice(s, 0, Len(s) - 1) \in Seq(S)
        /\ Len(Slice(s, 0, Len(s) - 1)) = Len(s) - 1 - 0
        /\ \A i \in 1 .. Len(s) - 1 - 0 : Slice(s, 0, Len(s) - 1)[i] = s[0 + i]
    BY <2>2, SliceType, Zenon
  <2>4. \A i \in 1 .. Len(s) - 1 : 0 + i = i
    BY <1>1
  <2> QED
    BY <1>1, <2>1, <2>3, <2>4
<1>3. s[Len(s)] \in S
  BY <1>1
<1> HIDE DEF r
<1>4. s = Append(r, s[Len(s)])
  <2>1. Append(r, s[Len(s)]) \in Seq(S) /\ Len(Append(r, s[Len(s)])) = Len(s)
    BY <1>1, <1>2, <1>3
  <2>2. \A i \in 1 .. Len(s) : Append(r, s[Len(s)])[i] = s[i]
    BY <1>1, <1>2, <1>3
  <2> QED
    BY <2>1, <2>2, SeqEqual
<1> QED
  BY <1>2, <1>3, <1>4

LEMMA FlatteningExists ==
    ASSUME NEW S
    PROVE  \A s \in Seq(S) : \E f : Flattening(s, f)
<1> DEFINE odd == {n \in Nat : \E s \in Seq(S) : Len(s) = n /\ \A f : ~Flattening(s, f)}
<1>1. odd = {}
  <2> SUFFICES ASSUME odd # {} PROVE FALSE
    OBVIOUS
  <2>1. PICK m \in odd : \A n \in odd : m <= n
    <3>1. odd \in SUBSET Nat
      OBVIOUS
    <3> HIDE DEF odd
    <3> QED BY <3>1, LeastOf
  <2>2. PICK s \in Seq(S) : Len(s) = m /\ \A f : ~Flattening(s, f)
    BY <2>1
  <2>3. CASE s = <<>>
    <3>1. Flattening(s, [i \in {} |-> 0])
      BY <2>3 DEF Flattening
    <3> QED BY <2>2, <3>1
  <2>4. CASE s # <<>>
    <3>1. PICK r \in Seq(S), e \in S : s = Append(r, e) /\ Len(r) = Len(s) - 1
      BY <2>4, AppendedTo
    <3>2. Len(r) \in Nat /\ ~(m <= Len(r))
      BY <2>2, <3>1, LenProperties
    <3>3. PICK f : Flattening(r, f)
      BY <2>1, <3>2
    <3>4. \E g : Flattening(s, g)
      BY <3>1, <3>3, FlatteningExtends
    <3> QED BY <2>2, <3>4
  <2> QED BY <2>3, <2>4
<1> QED
  BY <1>1, LenProperties

(* FlattenSeq's result, element after element.                              *)
LEMMA FlattenEmpty == FlattenSeq(<<>>) = <<>>
BY DEF FlattenSeq

LEMMA FlattenAppend ==
    ASSUME NEW S, NEW s \in Seq(Seq(S)), NEW e \in Seq(S)
    PROVE  FlattenSeq(Append(s, e)) = FlattenSeq(s) \o e
<1>1. PICK f : Flattening(s, f)
  BY FlatteningExists
<1> DEFINE n == Len(s) + 1
           t == Append(s, e)
           g == [i \in 1 .. n |-> IF i < n THEN f[i]
                                  ELSE IF n = 1 THEN e ELSE f[n - 1] \o e]
<1>2. Len(s) \in Nat /\ t \in Seq(Seq(S)) /\ Len(t) = n
  BY LenProperties
<1>3. Flattening(t, g)
  BY <1>1, FlatteningExtends, Zenon
<1>4. FlattenSeq(t) = g[n]
  <2> HIDE DEF g, t
  <2>1. FlattenSeq(t) = IF Len(t) = 0 THEN <<>> ELSE g[Len(t)]
    BY <1>2, <1>3, FlattenIs
  <2> QED BY <1>2, <2>1
<1>5. g[n] = IF n = 1 THEN e ELSE f[n - 1] \o e
  BY <1>2
<1>6. FlattenSeq(s) = IF Len(s) = 0 THEN <<>> ELSE f[Len(s)]
  BY <1>1, FlattenIs
<1>7. <<>> \o e = e
  BY ConcatEmptySeq
<1> HIDE DEF t, g
<1>8. n - 1 = Len(s) /\ (n = 1 <=> Len(s) = 0)
  BY <1>2
<1> HIDE DEF n
<1> QED
  BY <1>4, <1>5, <1>6, <1>7, <1>8 DEF t

LEMMA FlattenType ==
    ASSUME NEW S
    PROVE  \A s \in Seq(Seq(S)) : FlattenSeq(s) \in Seq(S)
<1> DEFINE odd == {n \in Nat : \E s \in Seq(Seq(S)) :
                       Len(s) = n /\ FlattenSeq(s) \notin Seq(S)}
<1>1. odd = {}
  <2> SUFFICES ASSUME odd # {} PROVE FALSE
    OBVIOUS
  <2>1. PICK m \in odd : \A n \in odd : m <= n
    <3>1. odd \in SUBSET Nat
      OBVIOUS
    <3> HIDE DEF odd
    <3> QED BY <3>1, LeastOf
  <2>2. PICK s \in Seq(Seq(S)) : Len(s) = m /\ FlattenSeq(s) \notin Seq(S)
    BY <2>1
  <2>3. CASE s = <<>>
    BY <2>2, <2>3, FlattenEmpty, EmptySeq
  <2>4. CASE s # <<>>
    <3>1. PICK r \in Seq(Seq(S)), e \in Seq(S) : s = Append(r, e) /\ Len(r) = Len(s) - 1
      BY <2>4, AppendedTo
    <3>2. Len(r) \in Nat /\ ~(m <= Len(r))
      BY <2>2, <3>1, LenProperties
    <3>3. FlattenSeq(r) \in Seq(S)
      BY <2>1, <3>2
    <3>4. FlattenSeq(s) = FlattenSeq(r) \o e
      BY <3>1, FlattenAppend
    <3>5. FlattenSeq(r) \o e \in Seq(S)
      BY <3>3, ConcatProperties
    <3> QED BY <2>2, <3>4, <3>5
  <2> QED BY <2>3, <2>4
<1> QED
  BY <1>1, LenProperties

(* Sequences one after another and one more after them.                     *)
LEMMA FlattenOneMore ==
    ASSUME NEW R, NEW n \in Nat,
           NEW r \in [1 .. n -> Seq(R)], NEW u \in [1 .. n + 1 -> Seq(R)],
           \A i \in 1 .. n : u[i] = r[i]
    PROVE  FlattenSeq(u) = FlattenSeq(r) \o u[n + 1]
<1> DEFINE e == u[n + 1]
<1>1. r \in Seq(Seq(R)) /\ Len(r) = n
  <2>1. \E k \in Nat : r \in [1 .. k -> Seq(R)]
    OBVIOUS
  <2>2. r \in Seq(Seq(R))
    BY <2>1
  <2> QED BY <2>2, LenProperties
<1>2. u \in Seq(Seq(R)) /\ Len(u) = n + 1
  <2>1. n + 1 \in Nat /\ u \in [1 .. n + 1 -> Seq(R)]
    OBVIOUS
  <2> QED BY <2>1, SeqDef, LenProperties
<1>3. e \in Seq(R)
  BY n + 1 \in 1 .. n + 1
<1>4. /\ Append(r, e) \in Seq(Seq(R)) /\ Len(Append(r, e)) = n + 1
      /\ Append(r, e)[n + 1] = e /\ \A i \in 1 .. n : Append(r, e)[i] = r[i]
  BY <1>1, <1>3, AppendProperties
<1>5. \A i \in 1 .. n + 1 : u[i] = Append(r, e)[i]
  <2> TAKE i \in 1 .. n + 1
  <2>1. CASE i \in 1 .. n
    BY <1>4, <2>1
  <2>2. CASE i = n + 1
    BY <1>4, <2>2
  <2>3. i \in 1 .. n \/ i = n + 1
    OBVIOUS
  <2> QED BY <2>1, <2>2, <2>3
<1> HIDE DEF e
<1>6. u = Append(r, e)
  BY <1>2, <1>4, <1>5, SeqEqual
<1>7. FlattenSeq(Append(r, e)) = FlattenSeq(r) \o e
  BY <1>1, <1>3, FlattenAppend
<1> QED
  BY <1>6, <1>7 DEF e

(***************************************************************************)
(* Reading a stream (StreamBlocks)                                         *)
(***************************************************************************)

(* While reading, buf is where the last block left off, right after a line  *)
(* ending, and holds no other.                                              *)
Carried ==
    ~atEnd => /\ offset <= pos
              /\ buf = Slice(job.unit, offset, pos)
              /\ LineEnds(buf) = {}
              /\ offset = 0 \/ job.unit[offset] = LF

(* While reading, records counts the lines before buf.  Once no rows are    *)
(* left it need not: the last block may hold lines past the limit.          *)
Counted ==
    ~atEnd /\ rowsLeft > 0 => records = LineCount(Slice(job.unit, 0, offset))

IInv == TypeInvariant /\ Carried /\ Counted /\ NumberedByLine

------------------------------------------------------------------------------
LEMMA JobFacts ==
    ASSUME TypeInvariant
    PROVE  /\ job.unit \in Seq(Bytes) /\ Len(job.unit) \in Nat
           /\ job.size \in Nat /\ job.size > 0
           /\ job.skipRows \in Nat
<1>1. /\ job.unit \in Seq(Bytes) /\ job.size \in Nat \ {0}
      /\ job.skipRows \in Nat
  BY JobsAssumption DEF TypeInvariant
<1> QED
  BY <1>1, LenProperties

(* A read takes up the unit where the last one stopped.                     *)
LEMMA GotFacts ==
    ASSUME TypeInvariant
    PROVE  /\ Got \in Seq(Bytes)
           /\ Len(Got) \in Nat
           /\ pos + Len(Got) <= Len(job.unit)
           /\ Got = Slice(job.unit, pos, pos + Len(Got))
<1> DEFINE to == Lesser(pos + job.size, Len(job.unit))
<1>1. /\ job.unit \in Seq(Bytes) /\ pos \in Nat /\ to \in Nat
      /\ pos <= to /\ to <= Len(job.unit)
  BY JobFacts DEF TypeInvariant, Lesser
<1> HIDE DEF to
<1>2. /\ Slice(job.unit, pos, to) \in Seq(Bytes)
      /\ Len(Slice(job.unit, pos, to)) = to - pos
  BY <1>1, SliceType, Zenon
<1>3. Got = Slice(job.unit, pos, to)
  BY DEF Got, to
<1> QED
  BY <1>1, <1>2, <1>3

LEMMA StripType ==
    ASSUME NEW S, NEW s \in Seq(S), NEW flag
    PROVE  StripEofMarker(s, flag) \in Seq(S)
<1>1. CASE Len(s) = 0
  BY <1>1 DEF StripEofMarker
<1>2. CASE Len(s) # 0
  <2>1. 0 \in Nat /\ Len(s) - 1 \in Nat /\ 0 <= Len(s) - 1 /\ Len(s) - 1 <= Len(s)
    BY <1>2, LenProperties
  <2>2. Slice(s, 0, Len(s) - 1) \in Seq(S)
    BY <2>1, SliceType, Zenon
  <2> QED BY <2>2 DEF StripEofMarker
<1> QED
  BY <1>1, <1>2

(* A block's lines are skipped, taken or, past the limit, left.             *)
LEMMA BlockFacts ==
    ASSUME TypeInvariant, NEW bytes \in Seq(Bytes)
    PROVE  /\ BlockOf(bytes) \in Block
           /\ BlockOf(bytes).offset = offset
           /\ BlockOf(bytes).recordsBefore = records + BlockOf(bytes).skip
           /\ BlockOf(bytes).take <= rowsLeft
           /\ BlockOf(bytes).take < rowsLeft
                => BlockOf(bytes).skip + BlockOf(bytes).take = LineCount(bytes)
<1> DEFINE lines == LineCount(bytes)
           skip  == SkipOf(lines)
           take  == TakeOf(lines, skip)
<1>1. lines \in Nat
  BY LineCountType
<1> HIDE DEF lines
<1>2. skip \in Nat /\ skip <= lines
  BY <1>1, JobFacts DEF SkipOf, Lesser, TypeInvariant
<1> HIDE DEF skip
<1>3. take \in Nat /\ take <= rowsLeft /\ (take < rowsLeft => skip + take = lines)
  BY <1>1, <1>2 DEF TakeOf, Lesser, TypeInvariant
<1> HIDE DEF take
<1>4. BlockOf(bytes) = [bytes |-> bytes, offset |-> offset, skip |-> skip,
                        take |-> take, recordsBefore |-> records + skip]
  BY DEF BlockOf, lines, skip, take
<1>5. offset \in Nat /\ records \in Nat
  BY JobFacts DEF TypeInvariant
<1> QED
  BY <1>2, <1>3, <1>4, <1>5 DEF Block, lines

(* What is read after what was carried; where it is cut.                    *)
LEMMA CutFacts ==
    ASSUME TypeInvariant, Carried, ~atEnd,
           LastRead \/ LineEnds(buf \o Got) # {}
    PROVE  /\ buf \o Got \in Seq(Bytes)
           /\ buf \o Got = Slice(job.unit, offset, pos + Len(Got))
           /\ Len(buf \o Got) = (pos + Len(Got)) - offset
           /\ CutAt(buf \o Got) \in Nat /\ CutAt(buf \o Got) <= Len(buf \o Got)
           /\ ~LastRead => /\ CutAt(buf \o Got) > 0
                           /\ (buf \o Got)[CutAt(buf \o Got)] = LF
                           /\ \A f \in LineEnds(buf \o Got) : f <= CutAt(buf \o Got)
<1> DEFINE all == buf \o Got
           to  == pos + Len(Got)
<1>1. /\ job.unit \in Seq(Bytes)
      /\ offset \in Nat /\ pos \in Nat /\ to \in Nat
      /\ offset <= pos /\ pos <= to /\ to <= Len(job.unit)
      /\ buf = Slice(job.unit, offset, pos) /\ Got = Slice(job.unit, pos, to)
  BY JobFacts, GotFacts DEF TypeInvariant, Carried
<1> HIDE DEF to
<1>2. all = Slice(job.unit, offset, to)
  <2>1. Slice(job.unit, offset, pos) \o Slice(job.unit, pos, to)
            = Slice(job.unit, offset, to)
    BY <1>1, AdjacentSlices, Zenon
  <2> QED BY <1>1, <2>1
<1>3. all \in Seq(Bytes) /\ Len(all) = to - offset
  <2>1. offset <= to
    BY <1>1
  <2>2. /\ Slice(job.unit, offset, to) \in Seq(Bytes)
        /\ Len(Slice(job.unit, offset, to)) = to - offset
    BY <1>1, <2>1, SliceType, Zenon
  <2> QED BY <1>2, <2>2
<1>4. LastRead \/ LineEnds(all) # {}
  OBVIOUS
<1> HIDE DEF all
<1>5. CASE LastRead
  BY <1>1, <1>2, <1>3, <1>5 DEF CutAt, all, to
<1>6. CASE ~LastRead
  <2>1. CutAt(all) \in LineEnds(all) /\ \A f \in LineEnds(all) : f <= CutAt(all)
    BY <1>3, <1>4, <1>6, LastLineEndIsLast DEF CutAt
  <2>2. CutAt(all) \in 1 .. Len(all) /\ all[CutAt(all)] = LF
    BY <2>1 DEF LineEnds
  <2> QED BY <1>1, <1>2, <1>3, <1>6, <2>1, <2>2 DEF all, to
<1> QED
  BY <1>5, <1>6

------------------------------------------------------------------------------
LEMMA InitInv == Init => IInv
<1> SUFFICES ASSUME Init PROVE IInv
  OBVIOUS
<1>1. /\ job.unit \in Seq(Bytes) /\ Len(job.unit) \in Nat
      /\ job.nRows \in Nat \/ job.nRows = NoLimit
  BY JobsAssumption, LenProperties DEF Init
<1>2. TypeInvariant
  <2>1. <<>> \in Seq(Block) /\ <<>> \in Seq(Bytes)
    BY EmptySeq
  <2>2. rowsLeft \in Nat
    BY <1>1, UsizeAssumption DEF Init
  <2>3. 0 \in 0 .. Len(job.unit)
    BY <1>1
  <2> QED BY <2>1, <2>2, <2>3 DEF Init, TypeInvariant
<1>3. Slice(job.unit, 0, 0) = <<>>
  BY <1>1, SubSeqEmpty DEF Slice
<1>4. Carried
  BY <1>3 DEF Init, Carried, LineEnds
<1>5. Counted
  BY <1>3, NoLines DEF Init, Counted
<1>6. NumberedByLine
  BY DEF Init, NumberedByLine
<1> QED
  BY <1>2, <1>4, <1>5, <1>6 DEF IInv

LEMMA ReadErrorInv == IInv /\ ReadError => IInv'
<1> SUFFICES ASSUME IInv, ReadError PROVE IInv'
  OBVIOUS
<1>1. TypeInvariant'
  <2>1. buf \o Got \in Seq(Bytes)
    BY GotFacts, ConcatProperties DEF IInv, TypeInvariant
  <2> QED BY <2>1, JobFacts DEF IInv, ReadError, TypeInvariant
<1>2. Carried' /\ Counted'
  BY DEF ReadError, Carried, Counted
<1>3. NumberedByLine'
  BY DEF IInv, ReadError, NumberedByLine
<1> QED
  BY <1>1, <1>2, <1>3 DEF IInv

LEMMA LongLineInv == IInv /\ LongLine => IInv'
<1> SUFFICES ASSUME IInv, LongLine PROVE IInv'
  OBVIOUS
<1>1. /\ job.unit \in Seq(Bytes) /\ Got \in Seq(Bytes)
      /\ pos \in Nat /\ offset \in Nat /\ Len(Got) \in Nat
      /\ pos + Len(Got) <= Len(job.unit)
      /\ Got = Slice(job.unit, pos, pos + Len(Got))
  BY JobFacts, GotFacts DEF IInv, TypeInvariant
<1>2. ~atEnd /\ offset <= pos /\ buf = Slice(job.unit, offset, pos)
  BY DEF IInv, LongLine, Reading, Carried
<1>3. TypeInvariant'
  <2>1. buf \o Got \in Seq(Bytes)
    BY <1>1, ConcatProperties DEF IInv, TypeInvariant
  <2>2. pos + Len(Got) \in 0 .. Len(job.unit)
    BY <1>1
  <2> QED BY <2>1, <2>2 DEF IInv, LongLine, TypeInvariant
<1>4. buf \o Got = Slice(job.unit, offset, pos + Len(Got))
  <2>1. pos + Len(Got) \in Nat /\ pos <= pos + Len(Got)
    BY <1>1
  <2>2. Slice(job.unit, offset, pos) \o Slice(job.unit, pos, pos + Len(Got))
            = Slice(job.unit, offset, pos + Len(Got))
    BY <1>1, <1>2, <2>1, AdjacentSlices, Zenon
  <2> QED BY <1>1, <1>2, <2>2
<1>5. Carried'
  BY <1>1, <1>2, <1>4 DEF IInv, LongLine, Carried
<1>6. Counted' /\ NumberedByLine'
  BY <1>2 DEF IInv, LongLine, Counted, NumberedByLine
<1> QED
  BY <1>3, <1>5, <1>6 DEF IInv

LEMMA CutBlockInv == IInv /\ CutBlock => IInv'
<1> SUFFICES ASSUME IInv, CutBlock PROVE IInv'
  OBVIOUS
<1> DEFINE all   == buf \o Got
           end   == CutAt(all)
           cut   == BlockBytes(Slice(all, 0, end))
           block == BlockOf(cut)
           to    == pos + Len(Got)
<1>1. /\ ~atEnd /\ rowsLeft > 0
      /\ atEnd' = LastRead
      /\ pos' = to
      /\ buf' = Slice(all, end, Len(all))
      /\ offset' = offset + end
      /\ records' = records + block.skip + block.take
      /\ rowsLeft' = rowsLeft - block.take
      /\ blocks' = IF block.take > 0 THEN Append(blocks, block) ELSE blocks
      /\ job' = job /\ outcome' = outcome
  BY DEF CutBlock, Reading, RecordsAfter
<1>2. /\ job.unit \in Seq(Bytes) /\ Len(job.unit) \in Nat
      /\ offset \in Nat /\ pos \in Nat /\ to \in Nat /\ to <= Len(job.unit)
      /\ records \in Nat /\ rowsLeft \in Nat /\ blocks \in Seq(Block)
      /\ offset <= pos /\ pos <= to
      /\ offset = 0 \/ job.unit[offset] = LF
      /\ records = LineCount(Slice(job.unit, 0, offset))
  BY <1>1, JobFacts, GotFacts DEF IInv, TypeInvariant, Carried, Counted
<1>3. /\ all \in Seq(Bytes)
      /\ all = Slice(job.unit, offset, to)
      /\ Len(all) = to - offset
      /\ end \in Nat /\ end <= Len(all)
      /\ ~LastRead => /\ end > 0 /\ all[end] = LF
                      /\ \A f \in LineEnds(all) : f <= end
  <2>1. TypeInvariant /\ Carried /\ ~atEnd /\ (LastRead \/ LineEnds(buf \o Got) # {})
    BY <1>1 DEF IInv, CutBlock
  <2> QED BY <2>1, CutFacts
<1> HIDE DEF to, all, end
<1>4. /\ all \in Seq(Bytes)
      /\ 0 \in Nat /\ end \in Nat /\ Len(all) \in Nat
      /\ 0 <= end /\ end <= Len(all) /\ Len(all) <= Len(all)
  BY <1>2, <1>3
<1>5. /\ Slice(all, 0, end) \in Seq(Bytes)
      /\ Len(Slice(all, 0, end)) = end - 0
      /\ \A i \in 1 .. end - 0 : Slice(all, 0, end)[i] = all[0 + i]
  BY <1>4, SliceType, Zenon
<1>6. /\ Slice(all, end, Len(all)) \in Seq(Bytes)
      /\ Len(Slice(all, end, Len(all))) = Len(all) - end
      /\ \A i \in 1 .. Len(all) - end : Slice(all, end, Len(all))[i] = all[end + i]
  BY <1>4, SliceType, Zenon
<1>7. cut \in Seq(Bytes)
  BY <1>5, StripType DEF BlockBytes
<1>8. ~LastRead => cut = Slice(all, 0, end)
  <2> SUFFICES ASSUME ~LastRead PROVE cut = Slice(all, 0, end)
    OBVIOUS
  <2>1. Slice(all, 0, end)[Len(Slice(all, 0, end))] = LF
    BY <1>3, <1>5
  <2> QED BY <2>1, MarkersDiffer DEF BlockBytes, StripEofMarker
<1> HIDE DEF cut
<1>9. /\ block \in Block
      /\ block.offset = offset
      /\ block.recordsBefore = records + block.skip
      /\ block.take <= rowsLeft
      /\ block.take < rowsLeft => block.skip + block.take = LineCount(cut)
  BY <1>7, BlockFacts DEF IInv
<1>10. block.skip \in Nat /\ block.take \in Nat
  BY <1>9 DEF Block
<1> HIDE DEF block
<1>11. TypeInvariant'
  <2>1. blocks' \in Seq(Block)
    BY <1>1, <1>2, <1>9, AppendProperties
  <2>2. LastRead \in BOOLEAN
    BY DEF LastRead
  <2>3. offset' \in 0 .. Len(job.unit) /\ pos' \in 0 .. Len(job.unit)
    BY <1>1, <1>2, <1>3
  <2>4. records' \in Nat /\ rowsLeft' \in Nat
    <3>1. /\ records' = records + block.skip + block.take
          /\ rowsLeft' = rowsLeft - block.take
      BY <1>1
    <3>2. block.take <= rowsLeft /\ records \in Nat /\ rowsLeft \in Nat
      BY <1>2, <1>9
    <3> QED BY <1>10, <3>1, <3>2
  <2> QED BY <1>1, <1>6, <2>1, <2>2, <2>3, <2>4 DEF IInv, TypeInvariant
<1>12. Carried'
  <2> SUFFICES ASSUME ~LastRead
               PROVE  /\ offset + end <= to
                      /\ Slice(all, end, Len(all)) = Slice(job.unit, offset + end, to)
                      /\ LineEnds(Slice(all, end, Len(all))) = {}
                      /\ job.unit[offset + end] = LF
    BY <1>1 DEF Carried
  <2>1. offset + end <= to
    BY <1>2, <1>3
  <2>2. Slice(all, end, Len(all)) = Slice(job.unit, offset + end, to)
    <3>1. /\ job.unit \in Seq(Bytes)
          /\ offset \in Nat /\ to \in Nat /\ end \in Nat /\ Len(all) \in Nat
          /\ offset <= to /\ to <= Len(job.unit)
          /\ end <= Len(all) /\ Len(all) <= to - offset
          /\ offset + Len(all) = to
      BY <1>2, <1>3, <1>4
    <3>2. Slice(Slice(job.unit, offset, to), end, Len(all))
              = Slice(job.unit, offset + end, offset + Len(all))
      BY <3>1, SliceOfSlice, SMTT(40)
    <3> QED BY <1>3, <3>1, <3>2
  <2>3. LineEnds(Slice(all, end, Len(all))) = {}
    <3> SUFFICES ASSUME NEW e \in 1 .. Len(all) - end, all[end + e] = LF
                 PROVE  FALSE
      BY <1>6 DEF LineEnds
    <3>1. end + e \in LineEnds(all)
      BY <1>3, <1>4 DEF LineEnds
    <3> QED BY <1>3, <3>1
  <2>4. job.unit[offset + end] = LF
    <3>1. /\ job.unit \in Seq(Bytes) /\ offset \in Nat /\ to \in Nat
          /\ offset <= to /\ to <= Len(job.unit)
      BY <1>2
    <3>2. \A i \in 1 .. to - offset :
              Slice(job.unit, offset, to)[i] = job.unit[offset + i]
      BY <3>1, SliceType, Zenon
    <3> QED BY <1>3, <3>1, <3>2
  <2> QED BY <2>1, <2>2, <2>3, <2>4
<1>13. Counted'
  <2> SUFFICES ASSUME ~LastRead, block.take < rowsLeft
               PROVE  records + block.skip + block.take
                          = LineCount(Slice(job.unit, 0, offset + end))
    BY <1>1, <1>2, <1>10 DEF Counted
  <2>1. /\ offset + end \in Nat /\ offset <= offset + end
        /\ offset + end <= Len(job.unit)
    BY <1>2, <1>3
  <2>2. LineCount(Slice(job.unit, 0, offset + end))
            = LineCount(Slice(job.unit, 0, offset))
                    + LineCount(Slice(job.unit, offset, offset + end))
    BY <1>2, <2>1, LineCountAtCut, Zenon
  <2>3. Slice(all, 0, end) = Slice(job.unit, offset, offset + end)
    <3>1. /\ job.unit \in Seq(Bytes)
          /\ offset \in Nat /\ to \in Nat /\ end \in Nat /\ 0 \in Nat
          /\ offset <= to /\ to <= Len(job.unit)
          /\ 0 <= end /\ end <= to - offset
          /\ offset + 0 = offset
      BY <1>2, <1>3
    <3>2. Slice(Slice(job.unit, offset, to), 0, end)
              = Slice(job.unit, offset + 0, offset + end)
      BY <3>1, SliceOfSlice, SMTT(40)
    <3> QED BY <1>3, <3>1, <3>2
  <2>4. block.skip + block.take = LineCount(Slice(job.unit, offset, offset + end))
    BY <1>8, <1>9, <2>3
  <2> QED BY <1>2, <1>10, <2>2, <2>4
<1>14. NumberedByLine'
  <2>1. block.recordsBefore = LineCount(Slice(job.unit, 0, block.offset)) + block.skip
    BY <1>2, <1>9
  <2>2. CASE block.take > 0
    <3>1. /\ Len(blocks') = Len(blocks) + 1 /\ blocks'[Len(blocks) + 1] = block
          /\ \A i \in 1 .. Len(blocks) : blocks'[i] = blocks[i]
          /\ DOMAIN blocks' = 1 .. Len(blocks) + 1
          /\ DOMAIN blocks = 1 .. Len(blocks) /\ Len(blocks) \in Nat
      BY <1>1, <1>2, <1>9, <2>2, AppendProperties, LenProperties
    <3> QED BY <1>1, <2>1, <3>1 DEF IInv, NumberedByLine
  <2>3. CASE ~(block.take > 0)
    BY <1>1, <2>3 DEF IInv, NumberedByLine
  <2> QED BY <2>2, <2>3
<1> QED
  BY <1>11, <1>12, <1>13, <1>14 DEF IInv

LEMMA FinishInv == IInv /\ Finish => IInv'
BY DEF IInv, Finish, TypeInvariant, Carried, Counted, NumberedByLine

LEMMA StutterInv == IInv /\ UNCHANGED vars => IInv'
BY DEF IInv, vars, TypeInvariant, Carried, Counted, NumberedByLine

LEMMA Inductive == Spec => []IInv
<1>1. IInv /\ [Next]_vars => IInv'
  BY ReadErrorInv, LongLineInv, CutBlockInv, FinishInv, StutterInv DEF Next
<1> QED
  BY InitInv, <1>1, PTL DEF Spec

------------------------------------------------------------------------------
(* While reading with rows left, rowsLeft is what the records read since    *)
(* skip_rows have left of n_rows.                                           *)
Remaining ==
    ~atEnd /\ rowsLeft > 0 /\ job.nRows # NoLimit =>
        rowsLeft = IF records <= job.skipRows THEN job.nRows
                   ELSE job.nRows - (records - job.skipRows)

(* A read starts before the end of the last line asked for: that line does  *)
(* not start a carried buffer, nor any line that is complete.               *)
LEMMA ReadsBeforeTheLimit ==
    ASSUME IInv, Remaining, Reading, job.nRows # NoLimit, job.nRows > 0,
           job.skipRows + job.nRows < LineCount(job.unit)
    PROVE  pos < LineStart(job.unit, job.skipRows + job.nRows + 1)
<1> DEFINE last == job.skipRows + job.nRows
           p    == LineStart(job.unit, last + 1)
<1>1. /\ job.unit \in Seq(Bytes) /\ Len(job.unit) \in Nat
      /\ job.skipRows \in Nat /\ job.nRows \in Nat /\ last \in Nat
      /\ records \in Nat /\ rowsLeft \in Nat
      /\ offset \in Nat /\ pos \in Nat /\ offset <= pos /\ pos <= Len(job.unit)
      /\ buf = Slice(job.unit, offset, pos) /\ LineEnds(buf) = {}
      /\ records = LineCount(Slice(job.unit, 0, offset))
  BY JobFacts, JobsAssumption
  DEF IInv, TypeInvariant, Carried, Counted, Reading
<1>2. records < last
  BY <1>1 DEF Remaining, Reading
<1>3. /\ p \in LineStarts(job.unit)
      /\ Cardinality({q \in LineStarts(job.unit) : q < p}) = last
  BY <1>1, NthLineStart
<1> HIDE DEF last, p
<1>4. LineStarts(Slice(job.unit, 0, offset)) = {q \in LineStarts(job.unit) : q < offset}
  <2>1. /\ job.unit \in Seq(Bytes) /\ 0 \in Nat /\ offset \in Nat
        /\ 0 <= offset /\ offset <= Len(job.unit)
    BY <1>1
  <2>2. /\ Len(Slice(job.unit, 0, offset)) = offset - 0
        /\ \A i \in 1 .. offset - 0 : Slice(job.unit, 0, offset)[i] = job.unit[0 + i]
    BY <2>1, SliceType, Zenon
  <2> QED BY <1>1, <2>2 DEF LineStarts
<1> SUFFICES ASSUME p <= pos PROVE FALSE
  BY <1>1, <1>3 DEF LineStarts, p, last
<1>5. p <= offset
  <2> SUFFICES ASSUME p > offset PROVE FALSE
    BY <1>1, <1>3 DEF LineStarts
  <2>1. p - offset \in 1 .. pos - offset /\ offset + (p - offset) = p /\ p # 0
    BY <1>1, <1>3 DEF LineStarts
  <2>2. job.unit[p] = LF
    BY <1>3, <2>1 DEF LineStarts
  <2>3. /\ Len(Slice(job.unit, offset, pos)) = pos - offset
        /\ \A i \in 1 .. pos - offset :
               Slice(job.unit, offset, pos)[i] = job.unit[offset + i]
    <3>1. /\ job.unit \in Seq(Bytes) /\ offset \in Nat /\ pos \in Nat
          /\ offset <= pos /\ pos <= Len(job.unit)
      BY <1>1
    <3> QED BY <3>1, SliceType, Zenon
  <2>4. p - offset \in 1 .. Len(buf) /\ buf[p - offset] = LF
    BY <1>1, <2>1, <2>2, <2>3
  <2> QED BY <1>1, <2>4 DEF LineEnds
<1>6. last <= records
  <2> DEFINE before == {q \in LineStarts(job.unit) : q < offset}
             upto   == {q \in LineStarts(job.unit) : q < p}
  <2>1. IsFiniteSet(before) /\ Cardinality(before) = records
    <3>1. Slice(job.unit, 0, offset) \in Seq(Bytes)
      <4>1. 0 \in Nat /\ 0 <= offset /\ offset <= Len(job.unit)
        BY <1>1
      <4> QED BY <1>1, <4>1, SliceType, Zenon
    <3> QED BY <1>1, <1>4, <3>1, LineCountType DEF LineCount
  <2>2. upto \in SUBSET before
    BY <1>1, <1>3, <1>5 DEF LineStarts
  <2>3. Cardinality(upto) = last
    BY <1>3
  <2> HIDE DEF before, upto
  <2> QED BY <2>1, <2>2, <2>3, FS_Subset
<1> QED
  BY <1>1, <1>2, <1>6

(* So a read ends less than its own size past it.                           *)
LEMMA ReadsToTheLimit ==
    ASSUME IInv, Remaining, Reading, job.nRows # NoLimit, job.nRows > 0
    PROVE  /\ pos + Len(Got)
                  < AfterLines(job.unit, job.skipRows + job.nRows) + job.size
           /\ ReadFails => pos + Len(Got) = Len(job.unit)
<1> DEFINE last == job.skipRows + job.nRows
<1>1. /\ job.unit \in Seq(Bytes) /\ Len(job.unit) \in Nat
      /\ job.size \in Nat /\ job.size > 0
      /\ pos \in Nat /\ Len(Got) \in Nat /\ pos + Len(Got) <= Len(job.unit)
      /\ pos <= Len(job.unit)
  BY JobFacts, GotFacts DEF IInv, TypeInvariant
<1>2. /\ Len(Got) <= job.size
      /\ Len(Got) < job.size => pos + Len(Got) = Len(job.unit)
  <2> DEFINE to == Lesser(pos + job.size, Len(job.unit))
  <2>1. /\ to \in Nat /\ pos <= to /\ to <= Len(job.unit) /\ to <= pos + job.size
        /\ to < pos + job.size => to = Len(job.unit)
    BY <1>1 DEF Lesser
  <2>2. Len(Got) = to - pos
    <3> HIDE DEF to
    <3>1. Len(Slice(job.unit, pos, to)) = to - pos
      BY <1>1, <2>1, SliceType, Zenon
    <3> QED BY <3>1 DEF Got, to
  <2> HIDE DEF to
  <2> QED BY <1>1, <2>1, <2>2
<1>3. pos + Len(Got) < AfterLines(job.unit, last) + job.size
  <2>1. CASE last < LineCount(job.unit)
    <3>1. LineStart(job.unit, last + 1) \in Nat
      <4>1. last \in Nat
        BY JobFacts, JobsAssumption DEF IInv, TypeInvariant
      <4>2. LineStart(job.unit, last + 1) \in LineStarts(job.unit)
        BY <1>1, <2>1, <4>1, NthLineStart
      <4> QED BY <1>1, <4>2 DEF LineStarts
    <3>2. pos < LineStart(job.unit, last + 1)
      BY <2>1, ReadsBeforeTheLimit
    <3> QED BY <1>1, <1>2, <2>1, <3>1, <3>2 DEF AfterLines
  <2>2. CASE ~(last < LineCount(job.unit))
    BY <1>1, <2>2 DEF AfterLines
  <2> QED BY <2>1, <2>2
<1> QED
  BY <1>2, <1>3 DEF ReadFails

LEMMA RemainingKept == IInv /\ Remaining /\ CutBlock => Remaining'
<1> SUFFICES ASSUME IInv, Remaining, CutBlock, ~atEnd', rowsLeft' > 0,
                    job.nRows # NoLimit
             PROVE  rowsLeft' = IF records' <= job.skipRows THEN job.nRows
                                ELSE job.nRows - (records' - job.skipRows)
  BY DEF Remaining, CutBlock
<1> DEFINE all   == buf \o Got
           cut   == BlockBytes(Slice(all, 0, CutAt(all)))
           lines == LineCount(cut)
           skip  == SkipOf(lines)
           take  == TakeOf(lines, skip)
<1>1. /\ ~atEnd /\ rowsLeft > 0
      /\ records' = records + skip + take /\ rowsLeft' = rowsLeft - take
  BY DEF CutBlock, Reading, RecordsAfter, BlockOf
<1>2. lines \in Nat
  <2>1. TypeInvariant /\ Carried /\ ~atEnd /\ (LastRead \/ LineEnds(buf \o Got) # {})
    BY <1>1 DEF IInv, CutBlock
  <2>2. all \in Seq(Bytes) /\ CutAt(all) \in Nat /\ CutAt(all) <= Len(all)
    BY <2>1, CutFacts
  <2>3. Slice(all, 0, CutAt(all)) \in Seq(Bytes)
    <3> DEFINE end == CutAt(all)
    <3>1. all \in Seq(Bytes) /\ 0 \in Nat /\ end \in Nat /\ 0 <= end /\ end <= Len(all)
      BY <2>2
    <3> HIDE DEF all, end
    <3>2. Slice(all, 0, end) \in Seq(Bytes)
      BY <3>1, SliceType, Zenon
    <3> QED BY <3>2 DEF end
  <2>4. cut \in Seq(Bytes)
    BY <2>3, StripType DEF BlockBytes
  <2> HIDE DEF cut
  <2> QED BY <2>4, LineCountType
<1>3. /\ job.skipRows \in Nat /\ job.nRows \in Nat
      /\ records \in Nat /\ rowsLeft \in Nat
  BY JobFacts, JobsAssumption DEF IInv, TypeInvariant
<1>4. rowsLeft = IF records <= job.skipRows THEN job.nRows
                 ELSE job.nRows - (records - job.skipRows)
  BY <1>1 DEF Remaining
<1> HIDE DEF lines
<1>5. /\ skip = IF records < job.skipRows
                THEN IF job.skipRows - records <= lines THEN job.skipRows - records
                     ELSE lines
                ELSE 0
      /\ take = IF lines - skip <= rowsLeft THEN lines - skip ELSE rowsLeft
  BY <1>2, <1>3 DEF SkipOf, TakeOf, Lesser
<1> HIDE DEF skip, take
<1>6. skip \in Nat /\ take \in Nat /\ take = lines - skip
  BY <1>1, <1>2, <1>3, <1>5
<1>7. CASE records <= job.skipRows
  <2>1. CASE take = 0
    <3>1. records' <= job.skipRows /\ rowsLeft' = rowsLeft
      BY <1>1, <1>2, <1>3, <1>5, <1>6, <1>7, <2>1
    <3> QED BY <1>4, <1>7, <3>1
  <2>2. CASE take > 0
    <3>1. records' = job.skipRows + take
      BY <1>1, <1>2, <1>3, <1>5, <1>6, <1>7, <2>2
    <3> QED BY <1>1, <1>3, <1>4, <1>6, <1>7, <2>2, <3>1
  <2> QED BY <1>6, <2>1, <2>2
<1>8. CASE records > job.skipRows
  <2>1. records' = records + take
    BY <1>1, <1>3, <1>5, <1>6, <1>8
  <2> QED BY <1>1, <1>3, <1>4, <1>6, <1>8, <2>1
<1> QED
  BY <1>3, <1>7, <1>8

Limited == Remaining /\ StopsAtTheLimit

LEMMA InitLimited == Init => Limited
<1> SUFFICES ASSUME Init PROVE Limited
  OBVIOUS
<1>1. /\ job.unit \in Seq(Bytes) /\ job.size \in Nat \ {0} /\ job.skipRows \in Nat
      /\ job.nRows \in Nat \/ job.nRows = NoLimit
  BY JobsAssumption DEF Init
<1>2. Remaining
  BY <1>1 DEF Init, Remaining
<1>3. StopsAtTheLimit
  <2> SUFFICES ASSUME job.nRows # NoLimit
               PROVE  0 < AfterLines(job.unit, job.skipRows + job.nRows) + job.size
    BY DEF Init, StopsAtTheLimit
  <2> DEFINE last == job.skipRows + job.nRows
  <2>1. AfterLines(job.unit, last) \in Nat
    <3>1. last \in Nat
      BY <1>1
    <3> HIDE DEF last
    <3>2. AfterLines(job.unit, last) \in 0 .. Len(job.unit)
      BY <1>1, <3>1, AfterLinesType
    <3>3. Len(job.unit) \in Nat
      BY <1>1, LenProperties
    <3> QED BY <3>2, <3>3
  <2> QED BY <1>1, <2>1
<1> QED
  BY <1>2, <1>3 DEF Limited

LEMMA LimitedKept == IInv /\ Limited /\ [Next]_vars => Limited'
<1> SUFFICES ASSUME IInv, Limited, [Next]_vars PROVE Limited'
  OBVIOUS
<1>1. CASE ReadError
  <2>1. Remaining'
    BY <1>1 DEF ReadError, Remaining
  <2>2. StopsAtTheLimit'
    BY <1>1, ReadsToTheLimit DEF Limited, ReadError, StopsAtTheLimit
  <2> QED BY <2>1, <2>2 DEF Limited
<1>2. CASE LongLine
  <2>1. Remaining'
    BY <1>2 DEF LongLine, Limited, Remaining, Reading
  <2>2. StopsAtTheLimit'
    BY <1>2, ReadsToTheLimit DEF Limited, LongLine, StopsAtTheLimit
  <2> QED BY <2>1, <2>2 DEF Limited
<1>3. CASE CutBlock
  <2>1. Remaining'
    BY <1>3, RemainingKept DEF Limited
  <2>2. StopsAtTheLimit'
    BY <1>3, ReadsToTheLimit DEF Limited, CutBlock, StopsAtTheLimit
  <2> QED BY <2>1, <2>2 DEF Limited
<1>4. CASE Finish \/ UNCHANGED vars
  BY <1>4 DEF Finish, vars, Limited, Remaining, StopsAtTheLimit
<1> QED
  BY <1>1, <1>2, <1>3, <1>4 DEF Next

------------------------------------------------------------------------------
(* The state of read_block (read_impl.rs 128-177) stays of its types; above *)
(* all, rows_left never falls below zero.                                   *)
THEOREM TypeCorrect == Spec => []TypeInvariant
<1>1. IInv => TypeInvariant
  BY DEF IInv
<1> QED
  BY <1>1, Inductive, PTL

(* Every block is numbered by the unit's lines before it, however the unit  *)
(* was cut and whatever was skipped (read_impl.rs 158-171).                 *)
THEOREM BlocksNumberedByLine == Spec => []NumberedByLine
<1>1. IInv => NumberedByLine
  BY DEF IInv
<1> QED
  BY <1>1, Inductive, PTL

(* Between two reads the buffer holds the unit's bytes since the last cut,  *)
(* with no line ending among them (read_impl.rs 148-156).                   *)
THEOREM CarriesOneLine == Spec => []CarryIsOneLine
<1>1. IInv => CarryIsOneLine
  BY DEF IInv, Carried, CarryIsOneLine
<1> QED
  BY <1>1, Inductive, PTL

(* A stream with n_rows stops being read: no read starts past the last line *)
(* asked for, however long the stream (read_impl.rs 137, 168-175).          *)
THEOREM StopsReading == Spec => []StopsAtTheLimit
<1>1. IInv /\ Limited /\ [Next]_vars => Limited'
  BY LimitedKept
<1>2. Limited => StopsAtTheLimit
  BY DEF Limited
<1> QED
  BY InitLimited, <1>1, <1>2, Inductive, PTL DEF Spec

(***************************************************************************)
(* What a stream delivers (UnitRecords)                                    *)
(***************************************************************************)

(* UnitRecords, too, takes Framing's operators for its own.                 *)
LEMMA SameFraming ==
    /\ \A s, a, b : Abstract!Slice(s, a, b) = Slice(s, a, b)
    /\ \A a, b : Abstract!Lesser(a, b) = Lesser(a, b)
    /\ \A s : Abstract!LineEnds(s) = LineEnds(s)
    /\ \A s : Abstract!LastLineEnd(s) = LastLineEnd(s)
    /\ \A s, flag : Abstract!StripEofMarker(s, flag) = StripEofMarker(s, flag)
<1>1. \A s, a, b : Abstract!Slice(s, a, b) = Slice(s, a, b)
  BY DEF Abstract!Slice, Slice
<1>2. \A a, b : Abstract!Lesser(a, b) = Lesser(a, b)
  BY DEF Abstract!Lesser, Lesser
<1>3. \A s : Abstract!LineEnds(s) = LineEnds(s)
  BY DEF Abstract!LineEnds, LineEnds
<1>4. \A s : Abstract!LastLineEnd(s) = LastLineEnd(s)
  BY <1>3 DEF Abstract!LastLineEnd, LastLineEnd
<1>5. \A s, flag : Abstract!StripEofMarker(s, flag) = StripEofMarker(s, flag)
  BY <1>1 DEF Abstract!StripEofMarker, StripEofMarker
<1> QED
  BY <1>1, <1>2, <1>3, <1>4, <1>5

(* The promise counts, places and cuts lines as the stream does.            *)
LEMMA SameStarts ==
    ASSUME NEW s
    PROVE  /\ Abstract!LineCount(s) = LineCount(s)
           /\ \A i : Abstract!LineStart(s, i) = LineStart(s, i)
           /\ \A p : Abstract!LineText(s, p) = LineText(s, p)
<1>1. Abstract!LineStarts(s) = LineStarts(s)
  BY DEF Abstract!LineStarts, LineStarts
<1>2. \A A : Abstract!Cardinality(A) = Cardinality(A)
  BY DEF Abstract!Cardinality, Cardinality
<1>3. Abstract!LineCount(s) = LineCount(s)
  BY <1>1, <1>2 DEF Abstract!LineCount, LineCount
<1>4. ASSUME NEW i PROVE Abstract!LineStart(s, i) = LineStart(s, i)
  BY DEF Abstract!LineStart, LineStart, Abstract!LineStarts, LineStarts,
         Abstract!Cardinality, Cardinality
<1>5. ASSUME NEW p PROVE Abstract!LineText(s, p) = LineText(s, p)
  <2>1. Abstract!LineFeeds(s, p) = LineFeeds(s, p)
    BY DEF Abstract!LineFeeds, LineFeeds
  <2>2. Abstract!NextLineFeed(s, p) = NextLineFeed(s, p)
    BY <2>1 DEF Abstract!NextLineFeed, NextLineFeed
  <2>3. \A t, a, b : Abstract!Slice(t, a, b) = Slice(t, a, b)
    BY SameFraming
  <2> QED BY <2>1, <2>2, <2>3 DEF Abstract!LineText, LineText
<1> QED
  BY <1>3, <1>4, <1>5

(* And it splits bytes into lines as the stream does.                       *)
LEMMA SameLines ==
    ASSUME NEW s
    PROVE  Abstract!Lines(s) = Lines(s)
BY SameStarts DEF Abstract!Lines, Lines

(* What records come from: the unit up to a cut, past which there is only   *)
(* its end-of-file marker or, where it breaks off, no whole line.           *)
LEMMA WholeLines ==
    ASSUME job \in Jobs
    PROVE  \E m \in Nat :
               /\ m <= Len(job.unit) /\ AtCut(job.unit, m)
               /\ Abstract!Body = Slice(job.unit, 0, m)
               /\ Abstract!Body \in Seq(Bytes) /\ Len(Abstract!Body) = m
               /\ ~job.broken => /\ Abstract!Body = StripEofMarker(job.unit, FALSE)
                                 /\ m = Len(job.unit)
                                    \/ (m + 1 = Len(job.unit) /\ job.unit[m + 1] = SUB)
               /\ job.broken => \A e \in LineEnds(job.unit) : e <= m
<1> DEFINE unit == job.unit
           body == Abstract!Body
<1>1. unit \in Seq(Bytes) /\ Len(unit) \in Nat /\ job.broken \in BOOLEAN
  BY JobsAssumption, LenProperties
<1>2. body = IF ~job.broken THEN StripEofMarker(unit, FALSE)
             ELSE IF LineEnds(unit) = {} THEN <<>>
             ELSE Slice(unit, 0, LastLineEnd(unit))
  BY SameFraming DEF Abstract!Body
<1> HIDE DEF unit, body
<1> SUFFICES \E m \in Nat :
               /\ m <= Len(unit) /\ AtCut(unit, m)
               /\ body = Slice(unit, 0, m)
               /\ ~job.broken => /\ body = StripEofMarker(unit, FALSE)
                                 /\ \/ m = Len(unit)
                                    \/ m + 1 = Len(unit) /\ unit[m + 1] = SUB
               /\ job.broken => \A e \in LineEnds(unit) : e <= m
  <2>1. PICK m \in Nat :
               /\ m <= Len(unit) /\ AtCut(unit, m)
               /\ body = Slice(unit, 0, m)
               /\ ~job.broken => /\ body = StripEofMarker(unit, FALSE)
                                 /\ \/ m = Len(unit)
                                    \/ m + 1 = Len(unit) /\ unit[m + 1] = SUB
               /\ job.broken => \A e \in LineEnds(unit) : e <= m
    OBVIOUS
  <2>2. 0 \in Nat /\ 0 <= m /\ m - 0 = m
    OBVIOUS
  <2>3. body \in Seq(Bytes) /\ Len(body) = m
    BY <1>1, <2>1, <2>2, SliceType
  <2> QED BY <2>1, <2>3, Zenon DEF unit, body
<1>3. CASE ~job.broken
  <2>1. 0 \in Nat /\ 0 <= Len(unit)
    BY <1>1
  <2>2. \E m \in Nat :
               /\ 0 <= m /\ m <= Len(unit) /\ AtCut(unit, m)
               /\ StripEofMarker(unit, FALSE) = Slice(unit, 0, m)
               /\ StripEofMarker(Slice(unit, 0, Len(unit)), 0 > 0) = Slice(unit, 0, m)
               /\ m = Len(unit) \/ (m + 1 = Len(unit) /\ m > 0 /\ unit[m + 1] = SUB)
    BY <1>1, <2>1, StripPart, Zenon
  <2> QED BY <1>2, <1>3, <2>2
<1>4. CASE job.broken /\ LineEnds(unit) = {}
  <2>1. Slice(unit, 0, 0) = <<>>
    BY <1>1, SubSeqEmpty DEF Slice
  <2>2. AtCut(unit, 0) /\ 0 \in Nat /\ 0 <= Len(unit)
    BY <1>1 DEF AtCut
  <2>3. body = Slice(unit, 0, 0) /\ \A e \in LineEnds(unit) : e <= 0
    BY <1>2, <1>4, <2>1
  <2> QED BY <1>4, <2>2, <2>3
<1>5. CASE job.broken /\ LineEnds(unit) # {}
  <2> DEFINE m == LastLineEnd(unit)
  <2>1. m \in LineEnds(unit) /\ \A e \in LineEnds(unit) : e <= m
    BY <1>1, <1>5, LastLineEndIsLast
  <2>2. body = Slice(unit, 0, m)
    BY <1>2, <1>5
  <2> HIDE DEF m
  <2>3. m \in Nat /\ m <= Len(unit) /\ AtCut(unit, m)
    BY <1>1, <2>1 DEF LineEnds, AtCut
  <2> QED BY <1>5, <2>1, <2>2, <2>3
<1> QED
  BY <1>3, <1>4, <1>5

(* How many lines there are, the last of them asked for, and how many are   *)
(* left of those without the ones to skip.                                  *)
LinesThere == LineCount(Abstract!Body)

LastAsked == IF job.nRows = NoLimit THEN LinesThere
             ELSE Lesser(job.skipRows + job.nRows, LinesThere)

HowMany == LastAsked - Lesser(job.skipRows, LastAsked)

(* None of these counts falls below zero.                                   *)
LEMMA CountsAreNat ==
    ASSUME job \in Jobs
    PROVE  /\ LinesThere \in Nat /\ LastAsked \in Nat /\ HowMany \in Nat
           /\ LastAsked <= LinesThere /\ LinesThere <= Len(job.unit)
           /\ HowMany = IF job.skipRows <= LastAsked
                        THEN LastAsked - job.skipRows ELSE 0
<1>1. /\ job.skipRows \in Nat /\ (job.nRows # NoLimit => job.nRows \in Nat)
      /\ job.unit \in Seq(Bytes) /\ Len(job.unit) \in Nat
  BY JobsAssumption, LenProperties
<1>2. LinesThere \in Nat /\ LinesThere <= Len(job.unit)
  <2>1. PICK m \in Nat : /\ m <= Len(job.unit) /\ Abstract!Body \in Seq(Bytes)
                         /\ Len(Abstract!Body) = m
    BY WholeLines
  <2>2. LineCount(Abstract!Body) \in Nat /\ LineCount(Abstract!Body) <= m
    BY <2>1, LineCountType, CountAtMost
  <2> QED BY <1>1, <2>1, <2>2 DEF LinesThere
<1>3. LastAsked \in Nat /\ LastAsked <= LinesThere
  BY <1>1, <1>2 DEF LastAsked, Lesser
<1>4. HowMany = IF job.skipRows <= LastAsked THEN LastAsked - job.skipRows ELSE 0
  BY <1>1, <1>3 DEF HowMany, Lesser
<1> QED
  BY <1>1, <1>2, <1>3, <1>4

(* What is promised, in the unit's own lines.                               *)
LEMMA WantedIs ==
    ASSUME job \in Jobs
    PROVE  Abstract!Wanted = RecordsFrom(job.unit, job.skipRows, HowMany)
<1> DEFINE unit == job.unit
           body == Abstract!Body
           skip == job.skipRows
<1>1. PICK m \in Nat : /\ m <= Len(unit) /\ AtCut(unit, m)
                       /\ body = Slice(unit, 0, m)
                       /\ body \in Seq(Bytes) /\ Len(body) = m
  BY WholeLines
<1>2. unit \in Seq(Bytes) /\ skip \in Nat
  BY JobsAssumption
<1>3. /\ LinesThere \in Nat /\ LastAsked \in Nat /\ HowMany \in Nat
      /\ LastAsked <= LinesThere
      /\ HowMany = IF skip <= LastAsked THEN LastAsked - skip ELSE 0
  BY CountsAreNat
<1>4. Len(Lines(body)) = LinesThere
  <2>1. Lines(body) \in Seq({Lines(body)[i] : i \in 1 .. LinesThere})
        /\ Len(Lines(body)) = LinesThere
    <3> DEFINE V == {Lines(body)[i] : i \in 1 .. LinesThere}
    <3>1. Lines(body) \in [1 .. LinesThere -> V]
      <4>1. Lines(body) = [i \in 1 .. LinesThere |-> Lines(body)[i]]
        BY DEF Lines, LinesThere
      <4> QED BY <4>1
    <3> HIDE DEF V
    <3>2. Lines(body) \in Seq(V) /\ Len(Lines(body)) = LinesThere
      BY <1>3, <3>1, SeqDef, LenProperties
    <3> QED BY <3>2 DEF V
  <2> QED BY <2>1
<1>5. Abstract!Wanted = [i \in 1 .. HowMany |->
                            [record |-> skip + i,
                             byte   |-> Lines(body)[skip + i].at,
                             text   |-> Lines(body)[skip + i].text]]
  <2>1. Abstract!Lines(body) = Lines(body)
    BY SameLines
  <2>2. (IF job.nRows = NoLimit THEN Len(Lines(body))
         ELSE Lesser(job.skipRows + job.nRows, Len(Lines(body)))) = LastAsked
    BY <1>4 DEF LastAsked
  <2>3. \A a, b : Abstract!Lesser(a, b) = Lesser(a, b)
    BY SameFraming
  <2> QED BY <2>1, <2>2, <2>3 DEF Abstract!Wanted, HowMany
<1>6. CASE HowMany = 0
  BY <1>5, <1>6 DEF RecordsFrom
<1>7. CASE HowMany # 0
  <2>1. /\ skip + HowMany <= LineCount(Slice(unit, 0, m))
        /\ 0 \in Nat /\ 0 <= m
    BY <1>1, <1>2, <1>3, <1>7 DEF LinesThere
  <2>2. LineCount(Slice(unit, 0, 0)) = 0
    <3>1. Slice(unit, 0, 0) = <<>>
      BY <1>2, SubSeqEmpty DEF Slice
    <3> QED BY <3>1, NoLines
  <2> DEFINE n == HowMany
  <2>3. RecordsOfPart(unit, 0, m, skip, n)
            = RecordsFrom(unit, LineCount(Slice(unit, 0, 0)) + skip, n)
    <3>1. n \in Nat /\ skip + n <= LineCount(Slice(unit, 0, m))
      BY <1>3, <2>1
    <3> HIDE DEF n, unit, skip, body
    <3>2. \A a, b \in Nat : /\ a <= b /\ b <= Len(unit)
                            /\ a = 0 \/ unit[a] = LF
                            /\ AtCut(unit, b)
                            /\ skip + n <= LineCount(Slice(unit, a, b))
              => RecordsOfPart(unit, a, b, skip, n)
                     = RecordsFrom(unit, LineCount(Slice(unit, 0, a)) + skip, n)
      BY <1>2, <3>1, PartRecords
    <3> QED BY <1>1, <2>1, <3>1, <3>2
  <2>4. 0 + skip = skip
    BY <1>2
  <2>5. \A i \in 1 .. n : 0 + Lines(body)[skip + i].at = Lines(body)[skip + i].at
    <3> TAKE i \in 1 .. n
    <3>1. skip + i \in 1 .. LineCount(body) /\ skip + i - 1 \in Nat
          /\ skip + i - 1 < LineCount(body) /\ (skip + i - 1) + 1 = skip + i
      <4>1. \A k, h, c \in Nat : k + h <= c => \A x \in 1 .. h :
                /\ k + x \in 1 .. c /\ k + x - 1 \in Nat
                /\ k + x - 1 < c /\ (k + x - 1) + 1 = k + x
        OBVIOUS
      <4>2. /\ LineCount(body) \in Nat /\ skip + n <= LineCount(body)
            /\ skip \in Nat /\ n \in Nat
        BY <1>1, <1>2, <1>3, <2>1, LineCountType
      <4> HIDE DEF n, skip, body
      <4> QED BY <4>1, <4>2
    <3>2. Lines(body)[skip + i].at = LineStart(body, skip + i)
      BY <3>1 DEF Lines
    <3> HIDE DEF body, skip
    <3>3. LineStart(body, (skip + i - 1) + 1) \in LineStarts(body)
      BY <1>1, <3>1, NthLineStart, Zenon
    <3>4. LineStart(body, skip + i) \in Nat
      BY <1>1, <3>1, <3>3 DEF LineStarts
    <3> QED BY <3>2, <3>4
  <2> HIDE DEF n, skip, unit, body
  <2>6. [i \in 1 .. n |-> [record |-> skip + i, byte |-> Lines(body)[skip + i].at,
                           text |-> Lines(body)[skip + i].text]]
            = RecordsFrom(unit, skip, n)
    BY <1>1, <2>2, <2>3, <2>4, <2>5 DEF RecordsOfPart
  <2> QED BY <1>5, <2>6 DEF n, skip, unit
<1> QED
  BY <1>6, <1>7

------------------------------------------------------------------------------
(* The block a turn of the loop cuts.                                       *)
NextBlock == BlockOf(BlockBytes(Slice(buf \o Got, 0, CutAt(buf \o Got))))

(* A block's bytes are the unit's from offset to a cut within the bytes     *)
(* records come from: the last of them, if it is the unit's last.           *)
LEMMA BlockIsPart ==
    ASSUME IInv, CutBlock
    PROVE  \E m, z \in Nat :
               /\ m <= Len(job.unit) /\ AtCut(job.unit, m)
               /\ Abstract!Body = Slice(job.unit, 0, m)
               /\ offset <= z /\ z <= m /\ AtCut(job.unit, z)
               /\ NextBlock.bytes = Slice(job.unit, offset, z)
               /\ LastRead => z = m /\ ~job.broken
<1> DEFINE unit == job.unit
           all  == buf \o Got
           end  == CutAt(all)
           cut  == BlockBytes(Slice(all, 0, end))
           to   == pos + Len(Got)
<1>1. /\ ~atEnd /\ ~ReadFails /\ (LastRead \/ LineEnds(all) # {})
      /\ TypeInvariant /\ Carried /\ job \in Jobs
  BY DEF CutBlock, Reading, IInv, TypeInvariant
<1>2. /\ unit \in Seq(Bytes) /\ Len(unit) \in Nat
      /\ offset \in Nat /\ pos \in Nat /\ Len(Got) \in Nat
      /\ to \in Nat /\ to <= Len(unit) /\ offset <= pos
      /\ offset = 0 \/ unit[offset] = LF
  BY <1>1, JobFacts, GotFacts DEF TypeInvariant, Carried
<1>3. /\ all \in Seq(Bytes)
      /\ all = Slice(unit, offset, to)
      /\ Len(all) = to - offset
      /\ end \in Nat /\ end <= Len(all)
      /\ ~LastRead => end > 0 /\ all[end] = LF
  BY <1>1, CutFacts
<1>4. NextBlock.bytes = cut
  BY DEF NextBlock, BlockOf
<1>5. LastRead => to = Len(unit) /\ ~job.broken /\ end = Len(all)
  <2> SUFFICES ASSUME LastRead PROVE to = Len(unit) /\ ~job.broken /\ end = Len(all)
    OBVIOUS
  <2>1. ~job.broken
    BY <1>1 DEF LastRead, ReadFails
  <2> DEFINE e == Lesser(pos + job.size, Len(unit))
  <2>2. e \in Nat /\ pos <= e /\ e <= Len(unit) /\ (e # Len(unit) => e = pos + job.size)
        /\ job.size \in Nat
    BY <1>1, <1>2, JobFacts DEF Lesser, TypeInvariant
  <2>3. Len(Got) = e - pos
    <3> HIDE DEF e, unit
    <3>1. pos \in Nat /\ e \in Nat /\ pos <= e /\ e <= Len(unit)
      BY <1>2, <2>2
    <3>2. Len(Slice(unit, pos, e)) = e - pos
      BY <1>2, <3>1, SliceType, Zenon
    <3> QED BY <3>2 DEF Got, e, unit
  <2>4. end = Len(all)
    BY DEF CutAt
  <2> HIDE DEF e
  <2>5. e = Len(unit)
    BY <1>2, <2>2, <2>3 DEF LastRead
  <2> QED BY <1>2, <2>1, <2>3, <2>4, <2>5
<1> HIDE DEF unit, all, end, to, cut
<1>6. PICK m \in Nat :
          /\ m <= Len(unit) /\ AtCut(unit, m)
          /\ Abstract!Body = Slice(unit, 0, m)
          /\ ~job.broken => /\ Abstract!Body = StripEofMarker(unit, FALSE)
                            /\ \/ m = Len(unit)
                               \/ m + 1 = Len(unit) /\ unit[m + 1] = SUB
          /\ job.broken => \A e \in LineEnds(unit) : e <= m
  BY <1>1, WholeLines DEF unit
<1>7. CASE ~LastRead
  <2> DEFINE z == offset + end
  <2>1. z \in Nat /\ offset <= z /\ z > 0 /\ z <= to /\ z <= Len(unit)
    BY <1>2, <1>3, <1>7
  <2>2. offset <= to /\ to <= Len(unit) /\ 0 \in Nat /\ 0 <= end /\ end <= to - offset
        /\ offset + 0 = offset
    BY <1>2, <1>3
  <2>3. Slice(all, 0, end) = Slice(unit, offset, z)
    <3>1. Slice(Slice(unit, offset, to), 0, end) = Slice(unit, offset + 0, offset + end)
      BY <1>2, <1>3, <2>2, SliceOfSlice, SMTT(40)
    <3> QED BY <1>3, <2>2, <3>1
  <2>4. unit[z] = LF
    <3>1. /\ unit \in Seq(Bytes) /\ offset \in Nat /\ to \in Nat
          /\ offset <= to /\ to <= Len(unit)
      BY <1>2, <2>2
    <3>2. \A i \in 1 .. to - offset : Slice(unit, offset, to)[i] = unit[offset + i]
      BY <3>1, SliceType, Zenon
    <3> QED BY <1>3, <1>7, <2>2, <3>2
  <2>5. cut = Slice(unit, offset, z)
    <3>1. /\ Len(Slice(all, 0, end)) = end - 0
          /\ \A i \in 1 .. end - 0 : Slice(all, 0, end)[i] = all[0 + i]
      BY <1>3, <2>2, SliceType, Zenon
    <3>2. Slice(all, 0, end)[Len(Slice(all, 0, end))] = LF
      BY <1>3, <1>7, <3>1
    <3>3. cut = Slice(all, 0, end)
      BY <3>2, MarkersDiffer DEF cut, BlockBytes, StripEofMarker
    <3> QED BY <2>3, <3>3
  <2>6. z \in LineEnds(unit)
    BY <1>2, <2>1, <2>4 DEF LineEnds
  <2>7. z <= m
    <3>1. CASE job.broken
      BY <1>6, <2>6, <3>1
    <3>2. CASE ~job.broken
      <4>1. m = Len(unit) \/ (m + 1 = Len(unit) /\ z # m + 1)
        BY <1>6, <2>4, <3>2, MarkersDiffer
      <4> QED BY <1>2, <2>1, <4>1
    <3> QED BY <3>1, <3>2
  <2> HIDE DEF z
  <2> QED BY <1>4, <1>6, <1>7, <2>1, <2>4, <2>5, <2>7 DEF AtCut, unit
<1>8. CASE LastRead
  <2>1. all = Slice(unit, offset, Len(unit)) /\ offset <= Len(unit)
    BY <1>2, <1>3, <1>5, <1>8
  <2>2. Slice(all, 0, end) = all
    BY <1>3, <1>5, <1>8, WholeSlice
  <2>3. cut = StripEofMarker(Slice(unit, offset, Len(unit)), offset > 0)
    BY <2>1, <2>2 DEF cut, BlockBytes
  <2>4. \E x \in Nat :
            /\ offset <= x /\ x <= Len(unit) /\ AtCut(unit, x)
            /\ StripEofMarker(unit, FALSE) = Slice(unit, 0, x)
            /\ StripEofMarker(Slice(unit, offset, Len(unit)), offset > 0)
                   = Slice(unit, offset, x)
            /\ x = Len(unit) \/ (x + 1 = Len(unit) /\ x > 0 /\ unit[x + 1] = SUB)
    BY <1>2, <2>1, StripPart
  <2>5. PICK x \in Nat :
            /\ offset <= x /\ x <= Len(unit) /\ AtCut(unit, x)
            /\ StripEofMarker(unit, FALSE) = Slice(unit, 0, x)
            /\ StripEofMarker(Slice(unit, offset, Len(unit)), offset > 0)
                   = Slice(unit, offset, x)
    BY <2>4
  <2>6. Abstract!Body = Slice(unit, 0, x)
    BY <1>5, <1>6, <1>8, <2>5
  <2>7. NextBlock.bytes = Slice(unit, offset, x)
    BY <1>4, <2>3, <2>5
  <2>8. ~job.broken /\ x <= x
    BY <1>5, <1>8
  <2> QED BY <2>5, <2>6, <2>7, <2>8 DEF unit
<1> QED
  BY <1>7, <1>8

(* Of a block's lines, none past those there are, all up to the last read:  *)
(* what parse_blocks makes of it are the unit's records from there on.      *)
LEMMA BlockIs ==
    ASSUME IInv, CutBlock
    PROVE  /\ LineCount(NextBlock.bytes) \in Nat
           /\ NextBlock.skip = SkipOf(LineCount(NextBlock.bytes))
           /\ NextBlock.take = TakeOf(LineCount(NextBlock.bytes), NextBlock.skip)
           /\ records + LineCount(NextBlock.bytes) <= LinesThere
           /\ LastRead => /\ records + LineCount(NextBlock.bytes) = LinesThere
                          /\ ~job.broken
           /\ BlockRecords(NextBlock)
                  = RecordsFrom(job.unit, records + NextBlock.skip, NextBlock.take)
<1> DEFINE unit  == job.unit
           bytes == NextBlock.bytes
           skip  == NextBlock.skip
           take  == NextBlock.take
<1>1. PICK m, z \in Nat :
          /\ m <= Len(unit) /\ AtCut(unit, m)
          /\ Abstract!Body = Slice(unit, 0, m)
          /\ offset <= z /\ z <= m /\ AtCut(unit, z)
          /\ bytes = Slice(unit, offset, z)
          /\ LastRead => z = m /\ ~job.broken
  BY BlockIsPart
<1>2. /\ unit \in Seq(Bytes) /\ Len(unit) \in Nat /\ offset \in Nat
      /\ offset = 0 \/ unit[offset] = LF
      /\ records = LineCount(Slice(unit, 0, offset)) /\ records \in Nat
      /\ job.skipRows \in Nat /\ rowsLeft \in Nat
  BY JobFacts DEF IInv, TypeInvariant, Carried, Counted, CutBlock, Reading
<1>3. /\ skip = SkipOf(LineCount(bytes))
      /\ take = TakeOf(LineCount(bytes), skip)
      /\ NextBlock.offset = offset
      /\ NextBlock.recordsBefore = records + skip
  BY DEF NextBlock, BlockOf
<1> HIDE DEF unit, bytes, skip, take
<1>4. z <= Len(unit) /\ offset <= m
  BY <1>1, <1>2
<1>5. bytes \in Seq(Bytes)
  BY <1>1, <1>2, <1>4, SliceType, Zenon
<1>6. LineCount(bytes) \in Nat
  BY <1>5, LineCountType
<1>7. skip \in Nat /\ take \in Nat /\ skip + take <= LineCount(bytes)
  <2> DEFINE lines == LineCount(bytes)
  <2>1. lines \in Nat
    BY <1>6
  <2>2. skip = SkipOf(lines) /\ take = TakeOf(lines, skip)
    BY <1>3
  <2> HIDE DEF lines
  <2>3. skip \in Nat /\ skip <= lines
    BY <1>2, <2>1, <2>2 DEF SkipOf, Lesser
  <2>4. take \in Nat /\ take <= lines - skip
    BY <1>2, <2>1, <2>2, <2>3 DEF TakeOf, Lesser
  <2>5. skip + take <= lines
    BY <2>1, <2>3, <2>4
  <2> QED BY <2>3, <2>4, <2>5 DEF lines
<1>8. LineCount(Slice(unit, 0, z)) = records + LineCount(bytes)
  BY <1>1, <1>2, <1>4, LineCountAtCut
<1>9. LinesThere = LineCount(Slice(unit, 0, m))
  BY <1>1 DEF LinesThere
<1>10. LineCount(Slice(unit, 0, z)) <= LineCount(Slice(unit, 0, m))
  <2>1. CASE z = Len(unit)
    <3>1. z = m
      BY <1>1, <1>2, <2>1
    <3>2. LineCount(Slice(unit, 0, z)) \in Nat
      BY <1>2, <1>6, <1>8
    <3> QED BY <3>1, <3>2
  <2>2. CASE z # Len(unit)
    <3>1. LineCount(Slice(unit, 0, m))
              = LineCount(Slice(unit, 0, z)) + LineCount(Slice(unit, z, m))
      <4>1. z = 0 \/ unit[z] = LF
        BY <1>1, <2>2 DEF AtCut
      <4> QED BY <1>1, <1>2, <4>1, LineCountAtCut
    <3>2. Slice(unit, z, m) \in Seq(Bytes)
      BY <1>1, <1>2, SliceType, Zenon
    <3>3. LineCount(Slice(unit, z, m)) \in Nat
      BY <3>2, LineCountType
    <3>4. LineCount(Slice(unit, 0, z)) \in Nat
      BY <1>2, <1>6, <1>8
    <3> QED BY <3>1, <3>3, <3>4
  <2> QED BY <2>1, <2>2
<1>11. BlockRecords(NextBlock) = RecordsOfPart(unit, offset, z, skip, take)
  <2>1. BlockRecords(NextBlock)
            = [i \in 1 .. take |->
                  [record |-> NextBlock.recordsBefore + i,
                   byte   |-> NextBlock.offset + Lines(bytes)[skip + i].at,
                   text   |-> Lines(bytes)[skip + i].text]]
    BY DEF BlockRecords, bytes, skip, take
  <2> QED BY <1>1, <1>2, <1>3, <2>1 DEF RecordsOfPart
<1>12. RecordsOfPart(unit, offset, z, skip, take)
           = RecordsFrom(unit, records + skip, take)
  <2>1. skip + take <= LineCount(Slice(unit, offset, z))
    BY <1>1, <1>7
  <2> QED BY <1>1, <1>2, <1>4, <1>7, <2>1, PartRecords
<1>13. LastRead => records + LineCount(bytes) = LinesThere /\ ~job.broken
  BY <1>1, <1>8, <1>9
<1>14. records + LineCount(bytes) <= LinesThere
  BY <1>8, <1>9, <1>10
<1>15. BlockRecords(NextBlock) = RecordsFrom(unit, records + skip, take)
  BY <1>11, <1>12
<1> QED
  BY <1>3, <1>6, <1>13, <1>14, <1>15 DEF unit, bytes, skip, take

------------------------------------------------------------------------------
(* How many records have been yielded, and how many may be.                 *)
Yielded == IF records <= job.skipRows THEN 0 ELSE records - job.skipRows

RowLimit == IF job.nRows = NoLimit THEN UsizeMax ELSE job.nRows

(* Every block's records are some of the unit's; ...                        *)
Framed == \A i \in DOMAIN blocks : BlockRecords(blocks[i]) \in Seq(RecordsOf(job.unit))

(* ... all of them are the unit's from skip_rows on, as many as yielded, of *)
(* the lines there are; rows_left is what the limit leaves.                 *)
InOrder == /\ records <= LinesThere
           /\ Yielded <= RowLimit
           /\ rowsLeft = RowLimit - Yielded
           /\ Delivered = RecordsFrom(job.unit, job.skipRows, Yielded)

(* After the last read with rows left, every line there is was counted, and *)
(* the unit did not break off.                                              *)
AllRead == atEnd /\ outcome = "open" /\ rowsLeft > 0
    => ~job.broken /\ records = LinesThere

Ordered == Framed /\ InOrder /\ AllRead

RecordsOfBlocks(bs) == [i \in DOMAIN bs |-> BlockRecords(bs[i])]

(* One more block's records come after those of the blocks before.          *)
LEMMA OneMoreBlock ==
    ASSUME NEW R, NEW bs \in Seq(Block), NEW b \in Block,
           \A i \in DOMAIN bs : BlockRecords(bs[i]) \in Seq(R),
           BlockRecords(b) \in Seq(R)
    PROVE  /\ FlattenSeq(RecordsOfBlocks(Append(bs, b)))
                  = FlattenSeq(RecordsOfBlocks(bs)) \o BlockRecords(b)
           /\ \A i \in DOMAIN Append(bs, b) : BlockRecords(Append(bs, b)[i]) \in Seq(R)
<1> DEFINE n == Len(bs)
           r == RecordsOfBlocks(bs)
           t == Append(bs, b)
           u == RecordsOfBlocks(t)
<1>1. n \in Nat /\ DOMAIN bs = 1 .. n
  BY LenProperties
<1>2. /\ t \in Seq(Block) /\ Len(t) = n + 1 /\ t[n + 1] = b
      /\ \A i \in 1 .. n : t[i] = bs[i]
  BY AppendProperties
<1> HIDE DEF t, n
<1>3. DOMAIN t = 1 .. n + 1
  BY <1>2, LenProperties
<1>4. /\ r = [i \in 1 .. n |-> r[i]] /\ \A i \in 1 .. n : r[i] = BlockRecords(bs[i])
      /\ u = [i \in 1 .. n + 1 |-> u[i]]
      /\ \A i \in 1 .. n + 1 : u[i] = BlockRecords(t[i])
  BY <1>1, <1>3 DEF RecordsOfBlocks
<1>5. \A i \in 1 .. n + 1 : BlockRecords(t[i]) \in Seq(R)
  <2> TAKE i \in 1 .. n + 1
  <2>1. i \in 1 .. n \/ i = n + 1
    BY <1>1
  <2> QED BY <1>1, <1>2, <2>1
<1> HIDE DEF r, u
<1>6. (\A i \in 1 .. n : u[i] = r[i]) /\ u[n + 1] = BlockRecords(b)
  <2>1. \A i \in 1 .. n : i \in 1 .. n + 1
    BY <1>1
  <2>2. n + 1 \in 1 .. n + 1
    BY <1>1
  <2> QED BY <1>2, <1>4, <2>1, <2>2
<1>7. FlattenSeq(u) = FlattenSeq(r) \o u[n + 1]
  <2>1. u \in [1 .. n + 1 -> Seq(R)]
    BY <1>4, <1>5
  <2>2. \A i \in 1 .. n : r[i] \in Seq(R)
    BY <1>1, <1>4
  <2>3. r \in [1 .. n -> Seq(R)]
    BY <1>4, <2>2
  <2>4. n \in Nat /\ \A i \in 1 .. n : u[i] = r[i]
    BY <1>1, <1>6
  <2> QED BY <2>1, <2>3, <2>4, FlattenOneMore, Zenon
<1> QED
  BY <1>3, <1>5, <1>6, <1>7 DEF r, t, u

(* Of a block's lines after c of a unit: how many are skipped, of the s to  *)
(* skip, and how many taken, of as many as are left to take.                *)
SkipFor(lines, c, s) == Lesser(IF c < s THEN s - c ELSE 0, lines)

TakeFor(lines, c, s, left) == Lesser(lines - SkipFor(lines, c, s), left)

Past(c, s) == IF c <= s THEN 0 ELSE c - s

(* The lines of a block are skipped, taken or left: what has been yielded   *)
(* grows by what was taken, which follows it.                               *)
LEMMA TakenFollow ==
    ASSUME NEW lines \in Nat, NEW c \in Nat, NEW s \in Nat, NEW left \in Nat
    PROVE  /\ SkipFor(lines, c, s) \in Nat
           /\ TakeFor(lines, c, s, left) \in Nat
           /\ TakeFor(lines, c, s, left) <= left
           /\ SkipFor(lines, c, s) + TakeFor(lines, c, s, left) <= lines
           /\ TakeFor(lines, c, s, left) < left
                  => SkipFor(lines, c, s) + TakeFor(lines, c, s, left) = lines
           /\ Past(c, s) \in Nat
           /\ Past(c + SkipFor(lines, c, s) + TakeFor(lines, c, s, left), s)
                  = Past(c, s) + TakeFor(lines, c, s, left)
           /\ TakeFor(lines, c, s, left) > 0
                  => c + SkipFor(lines, c, s) = s + Past(c, s)
<1> DEFINE skip == SkipFor(lines, c, s)
           take == TakeFor(lines, c, s, left)
<1>1. skip \in Nat /\ skip <= lines
  BY DEF SkipFor, Lesser
<1>2. /\ c >= s => skip = 0
      /\ c < s /\ lines <= s - c => skip = lines
      /\ c < s /\ lines > s - c => skip = s - c
  BY DEF SkipFor, Lesser
<1>3. take = Lesser(lines - skip, left)
  BY DEF TakeFor
<1> HIDE DEF skip, take
<1>4. /\ take \in Nat /\ take <= left /\ take <= lines - skip
      /\ take < left => take = lines - skip
  BY <1>1, <1>3 DEF Lesser
<1>5. CASE c >= s
  BY <1>2, <1>4, <1>5 DEF Past, skip, take
<1>6. CASE c < s /\ lines <= s - c
  BY <1>2, <1>4, <1>6 DEF Past, skip, take
<1>7. CASE c < s /\ lines > s - c
  BY <1>2, <1>4, <1>7 DEF Past, skip, take
<1> QED
  BY <1>5, <1>6, <1>7

(* Before the first read nothing has been yielded.                          *)
LEMMA InitOrdered == Init => Ordered
<1> SUFFICES ASSUME Init PROVE Ordered
  OBVIOUS
<1>1. job \in Jobs /\ job.skipRows \in Nat /\ RowLimit \in Nat
  BY JobsAssumption, UsizeAssumption DEF Init, RowLimit
<1>2. records = 0 /\ blocks = <<>> /\ rowsLeft = RowLimit /\ ~atEnd
  BY DEF Init, RowLimit
<1>3. Yielded = 0
  BY <1>1, <1>2 DEF Yielded
<1>4. Delivered = <<>>
  <2>1. [i \in DOMAIN blocks |-> BlockRecords(blocks[i])] = <<>>
    BY <1>2
  <2> QED BY <2>1, FlattenEmpty DEF Delivered
<1>5. RecordsFrom(job.unit, job.skipRows, 0) = <<>>
  BY DEF RecordsFrom
<1>6. 0 <= LinesThere
  BY <1>1, CountsAreNat
<1>7. InOrder
  BY <1>1, <1>2, <1>3, <1>4, <1>5, <1>6 DEF InOrder
<1> QED
  BY <1>2, <1>7 DEF Ordered, Framed, AllRead

(* A turn of the loop yields the next records.                              *)
LEMMA CutBlockYields ==
    ASSUME IInv, Ordered, CutBlock
    PROVE  /\ NextBlock.take \in Nat /\ NextBlock.take <= rowsLeft
           /\ Yielded \in Nat /\ Yielded' = Yielded + NextBlock.take
           /\ records' <= LinesThere
           /\ LastRead /\ NextBlock.take < rowsLeft
                  => records' = LinesThere /\ ~job.broken
           /\ Delivered' = RecordsFrom(job.unit, job.skipRows, Yielded')
           /\ NextBlock.take = 0 => Delivered' = Delivered
           /\ Framed'
<1> DEFINE lines == LineCount(NextBlock.bytes)
           skip  == NextBlock.skip
           take  == NextBlock.take
<1>1. /\ records' = records + skip + take
      /\ blocks' = IF take > 0 THEN Append(blocks, NextBlock) ELSE blocks
      /\ job' = job
  BY DEF CutBlock, RecordsAfter, NextBlock
<1>2. /\ records \in Nat /\ rowsLeft \in Nat /\ job.skipRows \in Nat
      /\ job \in Jobs /\ blocks \in Seq(Block)
  BY JobFacts DEF IInv, TypeInvariant
<1>3. LinesThere \in Nat
  BY <1>2, CountsAreNat
<1>4. /\ lines \in Nat
      /\ skip = SkipOf(lines) /\ take = TakeOf(lines, skip)
      /\ records + lines <= LinesThere
      /\ LastRead => records + lines = LinesThere /\ ~job.broken
      /\ BlockRecords(NextBlock) = RecordsFrom(job.unit, records + skip, take)
  BY BlockIs
<1>5. NextBlock \in Block
  <2>1. /\ TypeInvariant /\ Carried /\ ~atEnd
        /\ LastRead \/ LineEnds(buf \o Got) # {}
    BY DEF CutBlock, Reading, IInv
  <2>2. /\ buf \o Got \in Seq(Bytes)
        /\ CutAt(buf \o Got) \in Nat /\ CutAt(buf \o Got) <= Len(buf \o Got)
    BY <2>1, CutFacts
  <2> DEFINE all == buf \o Got
             end == CutAt(all)
  <2>3. all \in Seq(Bytes) /\ end \in Nat /\ 0 \in Nat /\ 0 <= end /\ end <= Len(all)
    BY <2>2
  <2>4. Slice(all, 0, end) \in Seq(Bytes)
    <3> HIDE DEF all, end
    <3> QED BY <2>3, SliceType, Zenon
  <2>5. BlockBytes(Slice(all, 0, end)) \in Seq(Bytes)
    BY <2>4, StripType DEF BlockBytes
  <2> QED BY <2>1, <2>5, BlockFacts DEF NextBlock
<1> HIDE DEF lines, skip, take
<1>6. /\ skip = SkipFor(lines, records, job.skipRows)
      /\ take = TakeFor(lines, records, job.skipRows, rowsLeft)
  BY <1>4 DEF SkipOf, TakeOf, SkipFor, TakeFor
<1>7. /\ skip \in Nat /\ take \in Nat /\ take <= rowsLeft /\ skip + take <= lines
      /\ take < rowsLeft => skip + take = lines
      /\ Yielded \in Nat /\ Yielded' = Yielded + take
      /\ take > 0 => records + skip = job.skipRows + Yielded
  <2>1. /\ Yielded = Past(records, job.skipRows)
        /\ Yielded' = Past(records', job'.skipRows)
    BY DEF Yielded, Past
  <2>2. Yielded' = Past(records + skip + take, job.skipRows)
    BY <1>1, <2>1
  <2> DEFINE s == job.skipRows
  <2>3. s \in Nat /\ skip = SkipFor(lines, records, s)
        /\ take = TakeFor(lines, records, s, rowsLeft)
    BY <1>2, <1>6
  <2> HIDE DEF s
  <2>4. /\ SkipFor(lines, records, s) \in Nat
        /\ TakeFor(lines, records, s, rowsLeft) \in Nat
        /\ TakeFor(lines, records, s, rowsLeft) <= rowsLeft
        /\ SkipFor(lines, records, s) + TakeFor(lines, records, s, rowsLeft) <= lines
        /\ TakeFor(lines, records, s, rowsLeft) < rowsLeft
               => SkipFor(lines, records, s) + TakeFor(lines, records, s, rowsLeft)
                      = lines
        /\ Past(records, s) \in Nat
        /\ Past(records + SkipFor(lines, records, s)
                 + TakeFor(lines, records, s, rowsLeft), s)
               = Past(records, s) + TakeFor(lines, records, s, rowsLeft)
        /\ TakeFor(lines, records, s, rowsLeft) > 0
               => records + SkipFor(lines, records, s) = s + Past(records, s)
    <3>1. lines \in Nat /\ records \in Nat /\ s \in Nat /\ rowsLeft \in Nat
      BY <1>2, <1>4, <2>3
    <3> QED BY <3>1, TakenFollow, Zenon
  <2>5. /\ Past(records + skip + take, s) = Past(records, s) + take
        /\ take > 0 => records + skip = s + Past(records, s)
    BY <2>3, <2>4
  <2> QED BY <2>1, <2>2, <2>3, <2>4, <2>5 DEF s
<1>8. records' <= LinesThere
  BY <1>1, <1>2, <1>3, <1>4, <1>7
<1>9. LastRead /\ take < rowsLeft => records' = LinesThere /\ ~job.broken
  <2> SUFFICES ASSUME LastRead, take < rowsLeft
               PROVE  records' = LinesThere /\ ~job.broken
    OBVIOUS
  <2>1. skip + take = lines
    BY <1>7
  <2>2. records + lines = LinesThere /\ ~job.broken
    BY <1>4
  <2>3. records' = records + (skip + take)
    BY <1>1, <1>2, <1>7
  <2> QED BY <2>1, <2>2, <2>3
<1>10. Delivered = RecordsFrom(job.unit, job.skipRows, Yielded)
  BY DEF Ordered, InOrder
<1>11. /\ Delivered = FlattenSeq(RecordsOfBlocks(blocks))
       /\ Delivered' = FlattenSeq(RecordsOfBlocks(blocks'))
  BY DEF Delivered, RecordsOfBlocks
<1>12. CASE take = 0
  <2>1. blocks' = blocks
    BY <1>1, <1>12
  <2>2. Delivered' = Delivered
    BY <1>11, <2>1
  <2>3. Yielded' = Yielded
    BY <1>7, <1>12
  <2>4. Framed'
    BY <1>1, <2>1 DEF Ordered, Framed
  <2> QED BY <1>7, <1>8, <1>9, <1>10, <2>2, <2>3, <2>4 DEF take
<1>13. CASE take > 0
  <2>1. blocks' = Append(blocks, NextBlock)
    BY <1>1, <1>13
  <2>2. BlockRecords(NextBlock) \in Seq(RecordsOf(job.unit))
    <3>1. records + skip \in Nat
      BY <1>2, <1>7
    <3> QED BY <1>4, <1>7, <3>1, RecordsFromType
  <2>3. /\ FlattenSeq(RecordsOfBlocks(blocks'))
               = FlattenSeq(RecordsOfBlocks(blocks)) \o BlockRecords(NextBlock)
        /\ \A i \in DOMAIN blocks' :
               BlockRecords(blocks'[i]) \in Seq(RecordsOf(job.unit))
    <3>1. \A i \in DOMAIN blocks : BlockRecords(blocks[i]) \in Seq(RecordsOf(job.unit))
      BY DEF Ordered, Framed
    <3> QED BY <1>2, <1>5, <2>1, <2>2, <3>1, OneMoreBlock
  <2>4. Framed'
    BY <1>1, <2>3 DEF Framed
  <2>5. Delivered' = Delivered \o RecordsFrom(job.unit, job.skipRows + Yielded, take)
    BY <1>4, <1>7, <1>11, <1>13, <2>3
  <2>6. RecordsFrom(job.unit, job.skipRows, Yielded)
            \o RecordsFrom(job.unit, job.skipRows + Yielded, take)
            = RecordsFrom(job.unit, job.skipRows, Yielded + take)
    BY <1>2, <1>7, RecordsFromAppend
  <2>7. Delivered' = RecordsFrom(job.unit, job.skipRows, Yielded')
    BY <1>7, <1>10, <2>5, <2>6
  <2>8. take # 0
    BY <1>13
  <2> QED BY <1>7, <1>8, <1>9, <2>4, <2>7, <2>8 DEF take
<1> QED
  BY <1>7, <1>12, <1>13

(* Whatever read_block does next, what is delivered stays a prefix of what  *)
(* is asked for: a block cut is the next of the unit's lines (BlockIs), and *)
(* its skip and take are what is left to skip and to take (TakenFollow).    *)
LEMMA OrderedKept == IInv /\ Ordered /\ [Next]_vars => Ordered'
<1> SUFFICES ASSUME IInv, Ordered, [Next]_vars PROVE Ordered'
  OBVIOUS
<1>1. CASE UNCHANGED <<job, records, rowsLeft, blocks>>
           /\ (atEnd' /\ outcome' = "open" => atEnd /\ outcome = "open")
  <2>1. /\ LinesThere' = LinesThere /\ Yielded' = Yielded /\ RowLimit' = RowLimit
        /\ Delivered' = Delivered
    BY <1>1 DEF LinesThere, Yielded, RowLimit, Delivered, Abstract!Body
  <2>2. Framed' /\ InOrder'
    BY <1>1, <2>1 DEF Ordered, Framed, InOrder
  <2>3. AllRead'
    BY <1>1, <2>1 DEF Ordered, AllRead
  <2> QED BY <2>2, <2>3 DEF Ordered
<1>2. CASE ReadError \/ LongLine \/ Finish \/ UNCHANGED vars
  BY <1>1, <1>2 DEF ReadError, LongLine, Finish, vars
<1>3. CASE CutBlock
  <2> DEFINE take == NextBlock.take
  <2>1. /\ take \in Nat /\ take <= rowsLeft
        /\ Yielded \in Nat /\ Yielded' = Yielded + take
        /\ records' <= LinesThere
        /\ LastRead /\ take < rowsLeft => records' = LinesThere /\ ~job.broken
        /\ Delivered' = RecordsFrom(job.unit, job.skipRows, Yielded')
        /\ Framed'
    BY <1>3, CutBlockYields
  <2>2. /\ rowsLeft' = rowsLeft - take /\ job' = job /\ atEnd' = LastRead
    BY <1>3 DEF CutBlock, NextBlock
  <2>3. LinesThere' = LinesThere /\ RowLimit' = RowLimit
    BY <2>2 DEF LinesThere, RowLimit, Abstract!Body
  <2> HIDE DEF take
  <2>4. rowsLeft \in Nat /\ RowLimit \in Nat /\ Yielded <= RowLimit
        /\ rowsLeft = RowLimit - Yielded
    BY JobsAssumption, UsizeAssumption
      DEF IInv, TypeInvariant, Ordered, InOrder, RowLimit
  <2>5. Yielded' <= RowLimit /\ rowsLeft' = RowLimit - Yielded'
    BY <2>1, <2>2, <2>4
  <2>6. InOrder'
    BY <2>1, <2>2, <2>3, <2>5 DEF InOrder
  <2>7. AllRead'
    <3>1. rowsLeft' > 0 => take < rowsLeft
      BY <2>1, <2>2, <2>4
    <3> QED BY <2>1, <2>2, <2>3, <3>1 DEF AllRead
  <2> QED BY <2>1, <2>6, <2>7 DEF Ordered
<1> QED
  BY <1>2, <1>3 DEF Next

------------------------------------------------------------------------------
(* No more is yielded than was asked for and is there.                      *)
LEMMA YieldsNoMore ==
    ASSUME job \in Jobs, NEW c \in Nat, c <= LinesThere,
           Past(c, job.skipRows) <= RowLimit
    PROVE  Past(c, job.skipRows) \in Nat /\ Past(c, job.skipRows) <= HowMany
<1> DEFINE s == job.skipRows
           y == Past(c, s)
<1>1. /\ s \in Nat /\ (job.nRows # NoLimit => job.nRows \in Nat)
      /\ LinesThere \in Nat /\ LastAsked \in Nat /\ HowMany \in Nat
      /\ HowMany = IF s <= LastAsked THEN LastAsked - s ELSE 0
  BY JobsAssumption, CountsAreNat
<1>2. y = IF c <= s THEN 0 ELSE c - s
  BY DEF Past
<1> HIDE DEF y
<1>3. c > s => c <= LastAsked
  <2>1. CASE job.nRows = NoLimit
    BY <2>1 DEF LastAsked
  <2>2. CASE job.nRows # NoLimit
    <3>1. c > s => c <= s + job.nRows
      <4>1. y <= job.nRows
        BY <2>2 DEF RowLimit, y
      <4> HIDE DEF s
      <4> QED BY <1>1, <1>2, <2>2, <4>1
    <3> HIDE DEF s
    <3> QED BY <1>1, <2>2, <3>1 DEF LastAsked, Lesser, s
  <2> QED BY <2>1, <2>2
<1> HIDE DEF s
<1>4. y \in Nat /\ y <= HowMany
  BY <1>1, <1>2, <1>3
<1> QED
  BY <1>4 DEF y, s

(* Where the reading ends, all that was asked for and is there has been     *)
(* yielded; and if the unit breaks off, all that was asked for is there.    *)
LEMMA EndsWithAll ==
    ASSUME IInv, Ordered, outcome = "open", ~Reading
    PROVE  /\ Yielded = HowMany
           /\ job.broken => Yielded = job.nRows
<1> DEFINE s == job.skipRows
           n == job.nRows
           there == LinesThere
           y == Yielded
<1>1. /\ job \in Jobs /\ s \in Nat /\ (n # NoLimit => n \in Nat)
      /\ Len(job.unit) \in Nat /\ Len(job.unit) <= UsizeMax /\ UsizeMax \in Nat
      /\ (job.broken /\ n = NoLimit => Len(job.unit) < UsizeMax)
      /\ there \in Nat /\ LastAsked \in Nat /\ there <= Len(job.unit)
      /\ HowMany \in Nat /\ HowMany = IF s <= LastAsked THEN LastAsked - s ELSE 0
      /\ records \in Nat /\ rowsLeft \in Nat /\ records <= there
  BY JobsAssumption, UsizeAssumption, CountsAreNat, LenProperties
  DEF IInv, TypeInvariant, Ordered, InOrder
<1>2. /\ y = IF records <= s THEN 0 ELSE records - s
      /\ rowsLeft = RowLimit - y /\ y <= RowLimit
      /\ RowLimit = IF n = NoLimit THEN UsizeMax ELSE n
      /\ LastAsked = IF n = NoLimit THEN there
                     ELSE IF s + n <= there THEN s + n ELSE there
  BY DEF Ordered, InOrder, Yielded, RowLimit, LastAsked, Lesser
<1>3. rowsLeft > 0 => records = there /\ ~job.broken
  BY <1>1 DEF Ordered, AllRead, Reading, IInv, TypeInvariant
<1> HIDE DEF s, n, there, y
<1>4. y \in Nat
  BY <1>1, <1>2
<1>5. CASE rowsLeft > 0
  <2>1. records = there /\ ~job.broken
    BY <1>3, <1>5
  <2>2. CASE n = NoLimit
    BY <1>1, <1>2, <2>1, <2>2 DEF y
  <2>3. CASE n # NoLimit
    <3>1. LastAsked = there
      BY <1>1, <1>2, <1>5, <2>1, <2>3
    <3> QED BY <1>1, <1>2, <2>1, <3>1 DEF y
  <2> QED BY <2>2, <2>3
<1>6. CASE rowsLeft = 0 /\ n # NoLimit
  <2>1. y = n
    BY <1>1, <1>2, <1>4, <1>6
  <2>2. HowMany = y
    BY <1>1, <1>2, <1>4, <1>6, <2>1
  <2> QED BY <2>1, <2>2 DEF y, n
<1>7. CASE rowsLeft = 0 /\ n = NoLimit
  <2>1. y = UsizeMax /\ y <= records
    BY <1>1, <1>2, <1>4, <1>7
  <2>2. records = there
    BY <1>1, <2>1
  <2>3. HowMany = y
    BY <1>1, <1>2, <1>7, <2>2
  <2>4. ~job.broken
    BY <1>1, <1>7, <2>1, <2>2
  <2> QED BY <2>3, <2>4 DEF y
<1> QED
  BY <1>1, <1>5, <1>6, <1>7

(* What was delivered is complete once the reading is done.                 *)
Whole == outcome = "done" => Yielded = HowMany

(* read_block gives None only when all that was asked for is delivered.     *)
LEMMA WholeKept == IInv /\ Ordered /\ Whole /\ [Next]_vars => Whole'
<1> SUFFICES ASSUME IInv, Ordered, Whole, [Next]_vars, outcome' = "done"
             PROVE  Yielded' = HowMany'
  BY DEF Whole
<1>1. job' = job /\ HowMany' = HowMany
  <2>1. job' = job
    BY DEF Next, ReadError, LongLine, CutBlock, Finish, vars
  <2> QED BY <2>1 DEF HowMany, LastAsked, LinesThere, Abstract!Body
<1>2. CASE ReadError \/ LongLine \/ CutBlock
  BY <1>2 DEF ReadError, LongLine, CutBlock, Reading
<1>3. CASE Finish
  <2>1. Yielded = HowMany
    BY <1>3, EndsWithAll DEF Finish
  <2>2. Yielded' = Yielded
    BY <1>3 DEF Finish, Yielded
  <2> QED BY <1>1, <2>1, <2>2
<1>4. CASE UNCHANGED vars
  BY <1>1, <1>4 DEF vars, Whole, Yielded
<1> QED
  BY <1>2, <1>3, <1>4 DEF Next

------------------------------------------------------------------------------
(* A turn of the loop delivers the next records, or none.                   *)
LEMMA CutBlockDelivers ==
    ASSUME IInv, Ordered, CutBlock
    PROVE  Abstract!Deliver \/ UNCHANGED Abstract!recordVars
<1> DEFINE unit == job.unit
           s    == job.skipRows
           take == NextBlock.take
<1>1. /\ take \in Nat /\ take <= rowsLeft
      /\ Yielded \in Nat /\ Yielded' = Yielded + take
      /\ records' <= LinesThere
      /\ Delivered' = RecordsFrom(unit, s, Yielded')
      /\ take = 0 => Delivered' = Delivered
  BY CutBlockYields
<1>2. /\ job' = job /\ outcome' = outcome /\ outcome = "open"
      /\ job \in Jobs /\ s \in Nat
  BY JobFacts DEF CutBlock, Reading, IInv, TypeInvariant
<1>3. CASE take = 0
  BY <1>1, <1>2, <1>3 DEF Abstract!recordVars
<1>4. CASE take # 0
  <2>1. Abstract!Wanted = RecordsFrom(unit, s, HowMany)
    BY <1>2, WantedIs
  <2>2. Delivered = RecordsFrom(unit, s, Yielded)
    BY DEF Ordered, InOrder
  <2>3. HowMany \in Nat /\ Yielded' \in Nat
    BY <1>1, <1>2, CountsAreNat
  <2>4. Yielded' <= HowMany
    <3>1. Yielded' = Past(records', s)
      BY <1>2 DEF Yielded, Past
    <3>2. Yielded' <= RowLimit
      <4>1. /\ RowLimit \in Nat /\ Yielded <= RowLimit
            /\ rowsLeft = RowLimit - Yielded
        BY <1>2, JobsAssumption, UsizeAssumption DEF Ordered, InOrder, RowLimit
      <4> HIDE DEF take
      <4> QED BY <1>1, <4>1
    <3>3. records' \in Nat
      <4>1. TypeInvariant'
        BY CutBlockInv DEF IInv
      <4> QED BY <4>1 DEF TypeInvariant
    <3> QED BY <1>1, <1>2, <3>1, <3>2, <3>3, YieldsNoMore
  <2> DEFINE y == Yielded'
  <2>5. Delivered' = SubSeq(Abstract!Wanted, 1, y)
    <3>1. SubSeq(RecordsFrom(unit, s, HowMany), 1, y) = RecordsFrom(unit, s, y)
      <4> HIDE DEF y, unit, s
      <4>1. y \in Nat /\ y <= HowMany /\ s \in Nat /\ HowMany \in Nat
        BY <1>2, <2>3, <2>4 DEF y
      <4> QED BY <4>1, RecordsFromPrefix
    <3> QED BY <1>1, <2>1, <3>1
  <2>6. Len(Delivered) = Yielded /\ Len(Abstract!Wanted) = HowMany
    BY <1>1, <1>2, <2>1, <2>2, <2>3, RecordsFromType
  <2>7. y \in Len(Delivered) + 1 .. Len(Abstract!Wanted)
    <3> HIDE DEF take
    <3> QED BY <1>1, <1>4, <2>3, <2>4, <2>6
  <2> HIDE DEF y
  <2> QED BY <1>2, <2>5, <2>7 DEF Abstract!Deliver
<1> QED
  BY <1>3, <1>4

(* The end of the blocks is the end promised.                               *)
LEMMA FinishFinishes == IInv /\ Ordered /\ Finish => Abstract!Finish
<1> SUFFICES ASSUME IInv, Ordered, Finish PROVE Abstract!Finish
  OBVIOUS
<1>1. /\ outcome = "open" /\ ~Reading /\ outcome' = "done"
      /\ job' = job /\ blocks' = blocks
  BY DEF Finish
<1>2. Yielded = HowMany /\ (job.broken => Yielded = job.nRows)
  BY <1>1, EndsWithAll
<1>3. job \in Jobs /\ job.skipRows \in Nat
  BY JobFacts DEF IInv, TypeInvariant
<1>4. Delivered = RecordsFrom(job.unit, job.skipRows, Yielded)
  BY DEF Ordered, InOrder
<1>5. Abstract!Wanted = RecordsFrom(job.unit, job.skipRows, HowMany)
  BY <1>3, WantedIs
<1>6. Len(Delivered) = Yielded
  <2>1. HowMany \in Nat
    BY <1>3, CountsAreNat
  <2> QED BY <1>2, <1>3, <1>4, <2>1, RecordsFromType
<1>7. Delivered' = Delivered
  BY <1>1 DEF Delivered
<1> QED
  BY <1>1, <1>2, <1>4, <1>5, <1>6, <1>7 DEF Abstract!Finish

(* Every step of read_block is one of the promise or leaves what it speaks  *)
(* of alone: a block with lines to take delivers some records, one without  *)
(* and a line longer than a read deliver none, a read error fails.          *)
LEMMA StepImplements ==
    IInv /\ Ordered /\ [Next]_vars => [Abstract!Next]_(Abstract!recordVars)
<1> SUFFICES ASSUME IInv, Ordered, [Next]_vars
             PROVE  Abstract!Next \/ UNCHANGED Abstract!recordVars
  OBVIOUS
<1>1. CASE ReadError
  <2>1. Abstract!Fail
    BY <1>1 DEF ReadError, Reading, ReadFails, Delivered, Abstract!Fail
  <2> QED BY <2>1 DEF Abstract!Next
<1>2. CASE LongLine \/ UNCHANGED vars
  BY <1>2 DEF LongLine, vars, Delivered, Abstract!recordVars
<1>3. CASE CutBlock
  BY <1>3, CutBlockDelivers DEF Abstract!Next
<1>4. CASE Finish
  BY <1>4, FinishFinishes DEF Abstract!Next
<1> QED
  BY <1>1, <1>2, <1>3, <1>4 DEF Next

(* An unread stream has delivered nothing.                                  *)
LEMMA InitImplements == Init => Abstract!Init
<1> SUFFICES ASSUME Init PROVE Abstract!Init
  OBVIOUS
<1>1. Delivered = <<>>
  <2>1. [i \in DOMAIN blocks |-> BlockRecords(blocks[i])] = <<>>
    BY DEF Init
  <2> QED BY <2>1, FlattenEmpty DEF Delivered
<1> QED
  BY <1>1 DEF Init, Abstract!Init

(* So the order and the completeness of a stream's records are invariants.  *)
LEMMA Ordering == Spec => [](Ordered /\ Whole)
<1>1. Init => Whole
  BY DEF Init, Whole
<1>2. IInv /\ (Ordered /\ Whole) /\ [Next]_vars => (Ordered /\ Whole)'
  BY OrderedKept, WholeKept
<1> QED
  BY InitOrdered, <1>1, <1>2, Inductive, PTL DEF Spec

(* What parse_stream yields for a unit is what was asked of it: each record *)
(* of the unit past skip_rows, at most n_rows of them, once and in order,   *)
(* with its own text, number and offset; it ends well only with all of      *)
(* them, and fails only if its source broke off (read_impl.rs 125-177,      *)
(* 181-194).  This holds of any unit, chunk size and options, however the   *)
(* reads are cut.                                                           *)
THEOREM StreamReadsTheUnit == Spec => ReadsTheUnit
<1>1. IInv /\ (Ordered /\ Whole) /\ [Next]_vars => [Abstract!Next]_(Abstract!recordVars)
  BY StepImplements
<1>2. Spec => Abstract!Spec
  BY InitImplements, <1>1, Inductive, Ordering, PTL DEF Spec, Abstract!Spec
<1> QED
  BY <1>2 DEF ReadsTheUnit

(* The stream of the two forms is a stream.                                 *)
LEMMA StreamsBoth == SpecBoth => Spec
<1>1. [NextBoth]_bothVars => [Next]_vars
  BY DEF NextBoth, bothVars, Stream, TakeSlice, vars
<1>2. InitBoth => Init
  BY DEF InitBoth
<1> QED
  BY <1>1, <1>2, PTL DEF SpecBoth, Spec

(***************************************************************************)
(* Dividing a slice (SliceChunks)                                          *)
(***************************************************************************)

(* SliceChunks takes Framing's operators for its own.  They are the same,   *)
(* so that what is proved of ours above is true of its.                     *)
LEMMA SameSlice ==
    ASSUME NEW s, NEW a, NEW b
    PROVE  Slices!Slice(s, a, b) = Slice(s, a, b)
BY DEF Slices!Slice, Slice

LEMMA SameLesser ==
    ASSUME NEW a, NEW b
    PROVE  Slices!Lesser(a, b) = Lesser(a, b)
BY DEF Slices!Lesser, Lesser

LEMMA SameCardinality ==
    ASSUME NEW A
    PROVE  Slices!Cardinality(A) = Cardinality(A)
BY DEF Slices!Cardinality, Cardinality

LEMMA SameLineStarts ==
    ASSUME NEW s
    PROVE  /\ Slices!LineStarts(s) = LineStarts(s)
           /\ Slices!LineCount(s) = LineCount(s)
<1>1. Slices!LineStarts(s) = LineStarts(s)
  BY DEF Slices!LineStarts, LineStarts
<1> QED
  BY <1>1, SameCardinality DEF Slices!LineCount, LineCount

LEMMA SameLineStart ==
    ASSUME NEW s, NEW n
    PROVE  Slices!LineStart(s, n) = LineStart(s, n)
BY DEF Slices!LineStart, LineStart, Slices!LineStarts, LineStarts,
       Slices!Cardinality, Cardinality

LEMMA SameAfterLines ==
    ASSUME NEW s, NEW n
    PROVE  Slices!AfterLines(s, n) = AfterLines(s, n)
BY SameLineStarts, SameLineStart DEF Slices!AfterLines, AfterLines

LEMMA SameLineFeeds ==
    ASSUME NEW s, NEW n
    PROVE  Slices!LineFeeds(s, n) = LineFeeds(s, n)
BY DEF Slices!LineFeeds, LineFeeds

LEMMA SameChunkEnd ==
    ASSUME NEW s, NEW a, NEW z
    PROVE  Slices!ChunkEnd(s, a, z) = ChunkEnd(s, a, z)
BY DEF Slices!ChunkEnd, ChunkEnd, Slices!NextLineFeed, NextLineFeed,
       Slices!LineFeeds, LineFeeds, Slices!Lesser, Lesser

LEMMA SameStrip ==
    ASSUME NEW s, NEW flag
    PROVE  Slices!StripEofMarker(s, flag) = StripEofMarker(s, flag)
BY SameSlice DEF Slices!StripEofMarker, StripEofMarker

(* What a slice's chunks hold is put together as a stream's blocks are,     *)
LEMMA SameFlatten ==
    ASSUME NEW s
    PROVE  Slices!FlattenSeq(s) = FlattenSeq(s)
BY DEF Slices!FlattenSeq, FlattenSeq

(* and split into the same lines.                                           *)
LEMMA SameSliceLines ==
    ASSUME NEW s
    PROVE  Slices!Lines(s) = Lines(s)
<1>1. \A p : Slices!LineFeeds(s, p) = LineFeeds(s, p)
  BY SameLineFeeds
<1>2. \A p : Slices!NextLineFeed(s, p) = NextLineFeed(s, p)
  BY <1>1 DEF Slices!NextLineFeed, NextLineFeed
<1>3. \A t, a, b : Slices!Slice(t, a, b) = Slice(t, a, b)
  BY SameSlice
<1>4. ASSUME NEW p PROVE Slices!LineText(s, p) = LineText(s, p)
  BY <1>1, <1>2, <1>3 DEF Slices!LineText, LineText
<1>5. /\ Slices!LineCount(s) = LineCount(s)
      /\ \A i : Slices!LineStart(s, i) = LineStart(s, i)
  BY SameLineStarts, SameLineStart
<1> QED
  BY <1>4, <1>5 DEF Slices!Lines, Lines

------------------------------------------------------------------------------
(* What a slice is divided over: a part of the unit.                        *)
LEMMA BodyFacts ==
    ASSUME job \in Jobs
    PROVE  /\ Slices!SliceBody \in Seq(Bytes)
           /\ Len(Slices!SliceBody) \in Nat
           /\ Len(Slices!SliceBody) <= Len(job.unit)
           /\ \A a, b \in Nat : a <= b /\ b <= Len(Slices!SliceBody) =>
                  Slice(Slices!SliceBody, a, b) = Slice(job.unit, a, b)
<1> DEFINE unit == job.unit
           body == Slices!SliceBody
<1>1. unit \in Seq(Bytes) /\ Len(unit) \in Nat
  BY JobsAssumption, LenProperties
<1>2. body = StripEofMarker(unit, FALSE)
  BY SameStrip DEF Slices!SliceBody
<1> HIDE DEF body, unit
<1>3. CASE body = unit
  BY <1>1, <1>3 DEF body, unit
<1>4. ASSUME NEW m \in Nat, m <= Len(unit), body = Slice(unit, 0, m)
      PROVE  /\ body \in Seq(Bytes) /\ Len(body) = m
             /\ \A a, b \in Nat : a <= b /\ b <= Len(body) =>
                    Slice(body, a, b) = Slice(unit, a, b)
  <2>1. 0 \in Nat /\ 0 <= m
    OBVIOUS
  <2>2. Slice(unit, 0, m) \in Seq(Bytes) /\ Len(Slice(unit, 0, m)) = m - 0
    BY <1>1, <1>4, <2>1, SliceType, Zenon
  <2>3. ASSUME NEW a \in Nat, NEW b \in Nat, a <= b, b <= m
        PROVE  Slice(Slice(unit, 0, m), a, b) = Slice(unit, a, b)
    <3>1. b <= m - 0 /\ 0 + a = a /\ 0 + b = b
      BY <2>3
    <3>2. Slice(Slice(unit, 0, m), a, b) = Slice(unit, 0 + a, 0 + b)
      BY <1>1, <1>4, <2>1, <2>3, <3>1, SliceOfSlice
    <3> QED BY <3>1, <3>2
  <2> QED BY <1>4, <2>2, <2>3
<1>5. body = unit \/ (Len(unit) > 0 /\ body = Slice(unit, 0, Len(unit) - 1))
  BY <1>1, <1>2 DEF StripEofMarker
<1>6. CASE Len(unit) > 0 /\ body = Slice(unit, 0, Len(unit) - 1)
  <2>1. Len(unit) - 1 \in Nat /\ Len(unit) - 1 <= Len(unit)
    BY <1>1, <1>6
  <2>2. /\ body \in Seq(Bytes) /\ Len(body) = Len(unit) - 1
        /\ \A a, b \in Nat : a <= b /\ b <= Len(body) =>
               Slice(body, a, b) = Slice(unit, a, b)
    BY <1>4, <1>6, <2>1
  <2> QED BY <1>1, <2>1, <2>2 DEF body, unit
<1> QED
  BY <1>3, <1>5, <1>6

(* The window is what lies between the lines skipped and the limit.         *)
LEMMA WindowFacts ==
    ASSUME job \in Jobs
    PROVE  /\ Slices!First \in Nat /\ Slices!End \in Nat
           /\ Slices!First <= Slices!End /\ Slices!End <= Len(job.unit)
           /\ Slices!Window \in Seq(Bytes)
           /\ Len(Slices!Window) = Slices!End - Slices!First
           /\ Slices!Window = Slice(job.unit, Slices!First, Slices!End)
<1> DEFINE body  == Slices!SliceBody
           first == Slices!First
           end   == Slices!End
           rest  == Slice(body, first, Len(body))
<1>1. /\ body \in Seq(Bytes) /\ Len(body) \in Nat /\ Len(body) <= Len(job.unit)
      /\ \A a, b \in Nat : a <= b /\ b <= Len(body) =>
             Slice(body, a, b) = Slice(job.unit, a, b)
  BY BodyFacts
<1>2. /\ job.unit \in Seq(Bytes) /\ job.skipRows \in Nat
      /\ job.nRows # NoLimit => job.nRows \in Nat
  BY JobsAssumption
<1>3. first = AfterLines(body, job.skipRows)
  BY SameAfterLines DEF Slices!First
<1>4. job.nRows # NoLimit => end = first + AfterLines(rest, job.nRows)
  BY SameAfterLines, SameSlice DEF Slices!End
<1>5. job.nRows = NoLimit => end = Len(body)
  BY DEF Slices!End
<1>6. Slices!Window = Slice(body, first, end)
  BY SameSlice DEF Slices!Window
<1> HIDE DEF body, first, end
<1>7. first \in 0 .. Len(body)
  BY <1>1, <1>2, <1>3, AfterLinesType, Zenon
<1>8. first \in Nat /\ first <= Len(body)
  BY <1>1, <1>7
<1>9. Len(body) <= Len(body)
  BY <1>1
<1>10. rest \in Seq(Bytes) /\ Len(rest) = Len(body) - first
  BY <1>1, <1>8, <1>9, SliceType, Zenon
<1> HIDE DEF rest
<1>11. end \in Nat /\ first <= end /\ end <= Len(body)
  <2>1. CASE job.nRows = NoLimit
    BY <1>1, <1>5, <1>8, <2>1
  <2>2. CASE job.nRows # NoLimit
    <3>1. AfterLines(rest, job.nRows) \in 0 .. Len(rest)
      BY <1>2, <1>10, <2>2, AfterLinesType, Zenon
    <3> QED BY <1>1, <1>4, <1>8, <1>10, <2>2, <3>1
  <2> QED BY <2>1, <2>2
<1>12. /\ Slice(body, first, end) \in Seq(Bytes)
       /\ Len(Slice(body, first, end)) = end - first
  BY <1>1, <1>8, <1>11, SliceType, Zenon
<1>13. Len(job.unit) \in Nat
  BY <1>2, LenProperties
<1> QED
  BY <1>1, <1>6, <1>8, <1>11, <1>12, <1>13 DEF first, end

(* The last line starts where no line feed has yet to come.                 *)
LEMMA LastLineBefore ==
    ASSUME NEW S, NEW s \in Seq(S), Len(s) > 0, NEW z \in Nat, z > 0,
           \A p \in Nat : p >= z /\ p < Len(s) => s[p] # LF
    PROVE  LineStart(s, LineCount(s)) < z
<1>1. Len(s) \in Nat
  BY LenProperties
<1>2. IsFiniteSet(LineStarts(s)) /\ LineCount(s) \in Nat
  BY LineCountType
<1>3. 0 \in LineStarts(s)
  BY <1>1 DEF LineStarts
<1>4. LineCount(s) # 0
  BY <1>2, <1>3, FS_EmptySet DEF LineCount
<1> DEFINE n == LineCount(s) - 1
<1>5. n \in Nat /\ n < LineCount(s) /\ n + 1 = LineCount(s)
  BY <1>2, <1>4
<1> HIDE DEF n
<1>6. LineStart(s, n + 1) \in LineStarts(s)
  BY <1>5, NthLineStart, Zenon
<1>7. LineStart(s, LineCount(s)) \in LineStarts(s)
  BY <1>5, <1>6
<1> QED
  BY <1>1, <1>7 DEF LineStarts

------------------------------------------------------------------------------
ChunkType == [start : Nat, end : Nat]

(* Once a chunk was cut there is a slice, at least a chunk's size of it     *)
(* was taken, unless all was, and every chunk has its size.                 *)
Cut == /\ job \in Jobs
       /\ at \in 0 .. Len(Slices!Window)
       /\ at = 0 \/ HasSlice
       /\ at = 0 \/ at >= job.size \/ at = Len(Slices!Window)
       /\ chunks \in Seq(ChunkType)
       /\ ChunksReachSize

(* A second chunk is reckoned only past a size, within half the addresses.  *)
LEMMA CutFits == Cut => NoOverflow
<1> SUFFICES ASSUME Cut, at < Len(Slices!Window)
             PROVE  at + job.size <= UsizeMax
  BY DEF NoOverflow, Slices!NoOverflow
<1>1. /\ job.unit \in Seq(Bytes) /\ job.size \in Nat /\ job.size <= UsizeMax
      /\ UsizeMax \in Nat /\ Len(job.unit) \in Nat
  BY JobsAssumption, SizesAssumption, UsizeAssumption, LenProperties DEF Cut
<1>2. Len(Slices!Window) \in Nat /\ Len(Slices!Window) <= Len(job.unit)
  BY <1>1, WindowFacts DEF Cut
<1>3. CASE at = 0
  BY <1>1, <1>3
<1>4. CASE at # 0
  BY <1>1, <1>2, <1>4 DEF Cut, HasSlice
<1> QED
  BY <1>3, <1>4

LEMMA InitCut == InitBoth => Cut
<1> SUFFICES ASSUME InitBoth PROVE Cut
  OBVIOUS
<1>1. job \in Jobs /\ at = 0 /\ chunks = <<>>
  BY DEF InitBoth, Slices!Init
<1>2. Len(Slices!Window) \in Nat
  BY <1>1, WindowFacts
<1> QED
  BY <1>1, <1>2 DEF Cut, ChunksReachSize, Slices!ChunksReachSize

LEMMA WindowStays ==
    ASSUME UNCHANGED job
    PROVE  UNCHANGED <<Slices!First, Slices!End, Slices!Window>>
BY DEF Slices!First, Slices!End, Slices!Window, Slices!SliceBody

(* Neither the stream nor a caller between the two moves a chunk.           *)
LEMMA CutStays ==
    ASSUME Cut, UNCHANGED <<job, at, chunks>>
    PROVE  Cut'
<1>1. UNCHANGED <<Slices!First, Slices!End, Slices!Window>>
  BY WindowStays
<1> QED
  BY <1>1 DEF Cut, HasSlice, ChunksReachSize, Slices!ChunksReachSize

(* One chunk's part of ChunksReachSize.                                     *)
HasItsSize(c) ==
    LET bytes == Slices!Slice(job.unit, c.start, c.end)
    IN  /\ c.end - c.start >= job.size \/ c.end = Slices!End
        /\ Slices!LineStart(bytes, Slices!LineCount(bytes)) < job.size

(* A turn of the iterator adds one chunk, of its size.                      *)
LEMMA ChunkHasItsSize ==
    ASSUME job \in Jobs, at \in 0 .. Len(Slices!Window), Slices!NextChunk
    PROVE  \E c \in ChunkType :
               /\ chunks' = Append(chunks, c)
               /\ at' \in 0 .. Len(Slices!Window)
               /\ at' >= job.size \/ at' = Len(Slices!Window)
               /\ HasItsSize(c)
<1> DEFINE window == Slices!Window
           first  == Slices!First
           end    == ChunkEnd(window, at, job.size)
           c      == [start |-> first + at, end |-> first + end]
           bytes  == Slice(job.unit, first + at, first + end)
<1>1. /\ first \in Nat /\ Slices!End \in Nat /\ first <= Slices!End
      /\ Slices!End <= Len(job.unit)
      /\ window \in Seq(Bytes) /\ Len(window) = Slices!End - first
      /\ window = Slice(job.unit, first, Slices!End)
  BY WindowFacts
<1>2. job.unit \in Seq(Bytes) /\ job.size \in Nat /\ job.size > 0
  BY JobsAssumption
<1>3. at \in Nat /\ at < Len(window) /\ Len(window) \in Nat
  BY <1>1 DEF Slices!NextChunk
<1>4. chunks' = Append(chunks, c) /\ at' = end
  BY SameChunkEnd DEF Slices!NextChunk
<1> HIDE DEF window, first
<1>5. /\ end \in Nat /\ at < end /\ end <= Len(window)
      /\ end >= at + job.size \/ end = Len(window)
      /\ \A p \in Nat : p >= at + job.size /\ p < end => window[p] # LF
  BY <1>1, <1>2, <1>3, ChunkEndFacts, Zenon
<1> HIDE DEF end
<1>6. bytes = Slice(window, at, end)
  <2>1. at <= end /\ end <= Slices!End - first
    BY <1>1, <1>3, <1>5
  <2> QED BY <1>1, <1>2, <1>3, <1>5, <2>1, SliceOfSlice
<1>7. /\ bytes \in Seq(Bytes) /\ Len(bytes) = end - at
      /\ \A i \in 1 .. end - at : bytes[i] = window[at + i]
  <2>1. /\ window \in Seq(Bytes) /\ at \in Nat /\ end \in Nat
        /\ at <= end /\ end <= Len(window)
    BY <1>1, <1>3, <1>5
  <2>2. /\ Slice(window, at, end) \in Seq(Bytes)
        /\ Len(Slice(window, at, end)) = end - at
        /\ \A i \in 1 .. end - at : Slice(window, at, end)[i] = window[at + i]
    BY <2>1, SliceType
  <2> HIDE DEF bytes
  <2> QED BY <1>6, <2>2
<1> HIDE DEF bytes
<1>8. Len(bytes) > 0
  BY <1>3, <1>5, <1>7
<1>9. \A p \in Nat : p >= job.size /\ p < Len(bytes) => bytes[p] # LF
  BY <1>2, <1>3, <1>5, <1>7
<1>10. LineStart(bytes, LineCount(bytes)) < job.size
  BY <1>2, <1>7, <1>8, <1>9, LastLineBefore, Zenon
<1>11. c \in ChunkType /\ c.start = first + at /\ c.end = first + end
  BY <1>1, <1>3, <1>5 DEF ChunkType
<1>12. Slices!Slice(job.unit, c.start, c.end) = bytes
  BY <1>11, SameSlice DEF bytes
<1>13. c.end - c.start >= job.size \/ c.end = Slices!End
  BY <1>1, <1>2, <1>3, <1>5, <1>11
<1> HIDE DEF c
<1>14. HasItsSize(c)
  BY <1>10, <1>12, <1>13, SameLineStart, SameLineStarts DEF HasItsSize
<1>15. at' \in 0 .. Len(window) /\ (at' >= job.size \/ at' = Len(window))
  BY <1>2, <1>3, <1>4, <1>5
<1> QED
  BY <1>4, <1>11, <1>14, <1>15 DEF window

LEMMA CutKept == Cut /\ [NextBoth]_bothVars => Cut'
<1> SUFFICES ASSUME Cut, [NextBoth]_bothVars PROVE Cut'
  OBVIOUS
<1>1. CASE Stream \/ UNCHANGED bothVars
  <2>1. UNCHANGED <<job, at, chunks>>
    BY <1>1 DEF Stream, bothVars, vars, Next, ReadError, LongLine, CutBlock, Finish
  <2> QED BY <2>1, CutStays
<1>2. CASE TakeSlice /\ Slices!Finish
  BY <1>2, CutStays DEF Slices!Finish
<1>3. CASE TakeSlice /\ Slices!NextChunk
  <2>1. HasSlice /\ job' = job
    BY <1>3 DEF TakeSlice, vars
  <2>2. UNCHANGED <<Slices!First, Slices!End, Slices!Window>>
    BY <2>1, WindowStays
  <2>3. PICK c \in ChunkType :
            /\ chunks' = Append(chunks, c)
            /\ at' \in 0 .. Len(Slices!Window)
            /\ at' >= job.size \/ at' = Len(Slices!Window)
            /\ HasItsSize(c)
    BY <1>3, ChunkHasItsSize DEF Cut
  <2>4. chunks \in Seq(ChunkType) /\ \A i \in DOMAIN chunks : HasItsSize(chunks[i])
    BY DEF Cut, ChunksReachSize, Slices!ChunksReachSize, HasItsSize
  <2>5. /\ chunks' \in Seq(ChunkType)
        /\ \A i \in DOMAIN chunks' : HasItsSize(chunks'[i])
    BY <2>3, <2>4
  <2>6. ChunksReachSize'
    BY <2>1, <2>2, <2>5 DEF HasItsSize, ChunksReachSize, Slices!ChunksReachSize
  <2>7. HasSlice'
    BY <2>1 DEF HasSlice
  <2> QED BY <2>1, <2>2, <2>3, <2>5, <2>6, <2>7 DEF Cut
<1> QED
  BY <1>1, <1>2, <1>3 DEF NextBoth, TakeSlice, Slices!Next

------------------------------------------------------------------------------
(* Cut holds throughout: a chunk is cut only past the size of one, or of    *)
(* all there is (framing.rs 43-57).                                         *)
THEOREM Dividing == SpecBoth => []Cut
BY InitCut, CutKept, PTL DEF SpecBoth

(* Every chunk reaches the size asked for, unless it is the unit's last,    *)
(* and goes past it by less than a line (framing.rs 43-57).                 *)
THEOREM ChunksHaveTheirSize == SpecBoth => []ChunksReachSize
<1>1. Cut => ChunksReachSize
  BY DEF Cut
<1> QED
  BY <1>1, Dividing, PTL

(* `start + size - 1` never wraps, even for the largest size, if no unit is *)
(* longer than half the address space (framing.rs 51).                      *)
THEOREM NoSizeOverflows == SpecBoth => []NoOverflow
BY CutFits, Dividing, PTL

(***************************************************************************)
(* What a slice delivers                                                   *)
(***************************************************************************)

(* Where there is a window, it begins and ends with a line.                 *)
LEMMA WindowCuts ==
    ASSUME job \in Jobs, Len(Slices!Window) > 0
    PROVE  /\ Slices!First = 0 \/ job.unit[Slices!First] = LF
           /\ AtCut(job.unit, Slices!End)
<1> DEFINE unit  == job.unit
           body  == Slices!SliceBody
           first == Slices!First
           end   == Slices!End
           rest  == Slice(body, first, Len(body))
<1>1. /\ first \in Nat /\ end \in Nat /\ first < end /\ end <= Len(unit)
  <2>1. /\ first \in Nat /\ end \in Nat /\ first <= end /\ end <= Len(unit)
        /\ Len(Slices!Window) = end - first
    BY WindowFacts
  <2> HIDE DEF first, end
  <2> QED BY <2>1
<1>2. /\ unit \in Seq(Bytes) /\ Len(unit) \in Nat /\ job.skipRows \in Nat
      /\ job.nRows # NoLimit => job.nRows \in Nat
  BY JobsAssumption, LenProperties
<1>3. PICK m \in Nat : m <= Len(unit) /\ AtCut(unit, m) /\ body = Slice(unit, 0, m)
  <2> DEFINE zero == 0
  <2>1. zero \in Nat /\ zero <= Len(unit) /\ (zero = 0 \/ unit[zero] = LF)
    BY <1>2
  <2> HIDE DEF zero, unit
  <2>2. \E m \in Nat :
             /\ zero <= m /\ m <= Len(unit) /\ AtCut(unit, m)
             /\ StripEofMarker(unit, FALSE) = Slice(unit, 0, m)
             /\ StripEofMarker(Slice(unit, zero, Len(unit)), zero > 0)
                    = Slice(unit, zero, m)
             /\ m = Len(unit) \/ (m + 1 = Len(unit) /\ m > 0 /\ unit[m + 1] = SUB)
    BY <1>2, <2>1, StripPart, Zenon
  <2>3. body = StripEofMarker(unit, FALSE)
    BY SameStrip DEF Slices!SliceBody, unit
  <2> QED BY <2>2, <2>3
<1>4. body \in Seq(Bytes) /\ Len(body) = m /\ \A i \in 1 .. m : body[i] = unit[i]
  <2> HIDE DEF unit
  <2>1. unit \in Seq(Bytes) /\ 0 \in Nat /\ m \in Nat /\ 0 <= m /\ m <= Len(unit)
    BY <1>2, <1>3
  <2>2. /\ Slice(unit, 0, m) \in Seq(Bytes) /\ Len(Slice(unit, 0, m)) = m - 0
        /\ \A i \in 1 .. m - 0 : Slice(unit, 0, m)[i] = unit[0 + i]
    BY <2>1, SliceType
  <2> HIDE DEF body
  <2> QED BY <1>3, <2>2
<1>5. first = AfterLines(body, job.skipRows)
  BY SameAfterLines DEF Slices!First
<1>6. job.nRows # NoLimit => end = first + AfterLines(rest, job.nRows)
  BY SameAfterLines, SameSlice DEF Slices!End
<1>7. job.nRows = NoLimit => end = Len(body)
  BY DEF Slices!End
<1> HIDE DEF unit, body, first, end
<1>8. AtCut(body, first) /\ first \in 0 .. m
  BY <1>2, <1>4, <1>5, CutAfterLines, AfterLinesType
<1>9. /\ rest \in Seq(Bytes) /\ Len(rest) = m - first
      /\ \A i \in 1 .. m - first : rest[i] = body[first + i]
  <2>1. /\ body \in Seq(Bytes) /\ first \in Nat /\ m \in Nat
        /\ first <= m /\ m <= Len(body)
    BY <1>1, <1>4, <1>8
  <2>2. /\ Slice(body, first, m) \in Seq(Bytes)
        /\ Len(Slice(body, first, m)) = m - first
        /\ \A i \in 1 .. m - first : Slice(body, first, m)[i] = body[first + i]
    BY <2>1, SliceType
  <2> QED BY <1>4, <2>2
<1> HIDE DEF rest
<1>10. end <= m /\ AtCut(unit, end)
  <2>1. CASE job.nRows = NoLimit
    BY <1>3, <1>4, <1>7, <2>1
  <2>2. CASE job.nRows # NoLimit
    <3> DEFINE x == AfterLines(rest, job.nRows)
    <3>1. x \in 0 .. Len(rest) /\ AtCut(rest, x)
      BY <1>2, <1>9, <2>2, CutAfterLines, AfterLinesType
    <3>2. end = first + x
      BY <1>6, <2>2
    <3> HIDE DEF x
    <3>3. x > 0 /\ x <= m - first /\ x \in Nat
      BY <1>1, <1>8, <1>9, <3>1, <3>2
    <3>4. CASE x = Len(rest)
      <4>1. end = m
        BY <1>1, <1>8, <1>9, <3>2, <3>4
      <4> QED BY <1>3, <4>1
    <3>5. CASE x # Len(rest)
      <4>1. rest[x] = LF
        BY <3>1, <3>3, <3>5 DEF AtCut
      <4>2. x \in 1 .. m - first /\ first + x \in 1 .. m
        BY <1>1, <1>8, <3>3
      <4>3. unit[end] = LF
        BY <1>4, <1>9, <3>2, <4>1, <4>2
      <4> QED BY <1>1, <1>8, <3>2, <3>3, <4>3 DEF AtCut
    <3> QED BY <3>4, <3>5
  <2> QED BY <2>1, <2>2
<1>11. first = 0 \/ unit[first] = LF
  <2>1. first < m
    BY <1>1, <1>8, <1>10
  <2>2. first = 0 \/ body[first] = LF
    BY <1>1, <1>4, <1>8, <2>1 DEF AtCut
  <2> QED BY <1>1, <1>4, <2>1, <2>2
<1> QED
  BY <1>10, <1>11 DEF unit, first, end

(* What parse_wave makes of a chunk of bytes s.                             *)
RecordsOfChunk(s, c) ==
    LET lines == Lines(Slice(s, c.start, c.end))
    IN  [i \in DOMAIN lines |->
            [record |-> LineCount(Slice(s, 0, c.start)) + i,
             byte   |-> c.start + lines[i].at,
             text   |-> lines[i].text]]

RecordsOfChunks(s, cs) == [i \in DOMAIN cs |-> RecordsOfChunk(s, cs[i])]

(* A slice delivers its chunks' records in the order they were cut.         *)
LEMMA SliceDeliversChunks ==
    Slices!Delivered = FlattenSeq(RecordsOfChunks(job.unit, chunks))
<1>1. ASSUME NEW c PROVE Slices!ChunkRecords(c) = RecordsOfChunk(job.unit, c)
  <2>1. Slices!Lines(Slices!Slice(job.unit, c.start, c.end))
            = Lines(Slice(job.unit, c.start, c.end))
    BY SameSlice, SameSliceLines
  <2>2. Slices!LineCount(Slices!Slice(job.unit, 0, c.start))
            = LineCount(Slice(job.unit, 0, c.start))
    BY SameSlice, SameLineStarts
  <2> QED BY <2>1, <2>2 DEF Slices!ChunkRecords, Slices!RecordsBefore, RecordsOfChunk
<1> QED
  BY <1>1, SameFlatten DEF Slices!Delivered, RecordsOfChunks

(* One more chunk's records come after those of the chunks before.          *)
LEMMA OneMoreChunk ==
    ASSUME NEW R, NEW s, NEW cs \in Seq(ChunkType), NEW c \in ChunkType,
           \A i \in DOMAIN cs : RecordsOfChunk(s, cs[i]) \in Seq(R),
           RecordsOfChunk(s, c) \in Seq(R)
    PROVE  /\ FlattenSeq(RecordsOfChunks(s, Append(cs, c)))
                  = FlattenSeq(RecordsOfChunks(s, cs)) \o RecordsOfChunk(s, c)
           /\ \A i \in DOMAIN Append(cs, c) :
                  RecordsOfChunk(s, Append(cs, c)[i]) \in Seq(R)
<1> DEFINE n == Len(cs)
           r == RecordsOfChunks(s, cs)
           t == Append(cs, c)
           u == RecordsOfChunks(s, t)
<1>1. n \in Nat /\ DOMAIN cs = 1 .. n
  BY LenProperties
<1>2. /\ t \in Seq(ChunkType) /\ Len(t) = n + 1 /\ t[n + 1] = c
      /\ \A i \in 1 .. n : t[i] = cs[i]
  BY AppendProperties
<1> HIDE DEF t, n
<1>3. DOMAIN t = 1 .. n + 1
  BY <1>2, LenProperties
<1>4. /\ r = [i \in 1 .. n |-> r[i]]
      /\ \A i \in 1 .. n : r[i] = RecordsOfChunk(s, cs[i])
      /\ u = [i \in 1 .. n + 1 |-> u[i]]
      /\ \A i \in 1 .. n + 1 : u[i] = RecordsOfChunk(s, t[i])
  BY <1>1, <1>3 DEF RecordsOfChunks
<1>5. \A i \in 1 .. n + 1 : RecordsOfChunk(s, t[i]) \in Seq(R)
  <2> TAKE i \in 1 .. n + 1
  <2>1. i \in 1 .. n \/ i = n + 1
    BY <1>1
  <2> QED BY <1>1, <1>2, <2>1
<1> HIDE DEF r, u
<1>6. (\A i \in 1 .. n : u[i] = r[i]) /\ u[n + 1] = RecordsOfChunk(s, c)
  <2>1. \A i \in 1 .. n : i \in 1 .. n + 1
    BY <1>1
  <2>2. n + 1 \in 1 .. n + 1
    BY <1>1
  <2> QED BY <1>2, <1>4, <2>1, <2>2
<1>7. FlattenSeq(u) = FlattenSeq(r) \o u[n + 1]
  <2>1. u \in [1 .. n + 1 -> Seq(R)]
    BY <1>4, <1>5
  <2>2. \A i \in 1 .. n : r[i] \in Seq(R)
    BY <1>1, <1>4
  <2>3. r \in [1 .. n -> Seq(R)]
    BY <1>4, <2>2
  <2>4. n \in Nat /\ \A i \in 1 .. n : u[i] = r[i]
    BY <1>1, <1>6
  <2> QED BY <2>1, <2>3, <2>4, FlattenOneMore, Zenon
<1> QED
  BY <1>3, <1>5, <1>6, <1>7 DEF r, t, u

(* A turn of the iterator adds a chunk of the window's next lines.          *)
LEMMA ChunkIsNext ==
    ASSUME job \in Jobs, at \in 0 .. Len(Slices!Window), AtCut(Slices!Window, at),
           Slices!NextChunk
    PROVE  \E c \in ChunkType, n \in Nat :
               /\ chunks' = Append(chunks, c)
               /\ c.start \in Slices!First .. Slices!End
               /\ c.end \in Slices!First .. Slices!End
               /\ AtCut(Slices!Window, at')
               /\ LineCount(Slice(job.unit, 0, Slices!First)) \in Nat
               /\ LineCount(Slice(job.unit, Slices!First, Slices!First + at)) \in Nat
               /\ LineCount(Slice(job.unit, Slices!First, Slices!First + at'))
                      = LineCount(Slice(job.unit, Slices!First, Slices!First + at)) + n
               /\ RecordsOfChunk(job.unit, c)
                      = RecordsFrom(job.unit,
                                    LineCount(Slice(job.unit, 0, Slices!First))
                                    + LineCount(Slice(job.unit, Slices!First,
                                                      Slices!First + at)),
                                    n)
<1> DEFINE unit   == job.unit
           window == Slices!Window
           first  == Slices!First
           last   == Slices!End
           end    == ChunkEnd(window, at, job.size)
           c      == [start |-> first + at, end |-> first + end]
<1>1. /\ first \in Nat /\ last \in Nat /\ first <= last /\ last <= Len(unit)
      /\ window \in Seq(Bytes) /\ Len(window) = last - first
      /\ window = Slice(unit, first, last)
  BY WindowFacts
<1>2. unit \in Seq(Bytes) /\ Len(unit) \in Nat /\ job.size \in Nat /\ job.size > 0
  BY JobsAssumption, LenProperties
<1>3. at \in Nat /\ at < Len(window) /\ Len(window) \in Nat
  BY <1>1 DEF Slices!NextChunk
<1>4. chunks' = Append(chunks, c) /\ at' = end
  BY SameChunkEnd DEF Slices!NextChunk
<1>5. (first = 0 \/ unit[first] = LF) /\ AtCut(unit, last)
  BY <1>3, WindowCuts
<1>6. AtCut(window, at)
  OBVIOUS
<1> HIDE DEF window, first, last, unit
<1>7. /\ end \in Nat /\ at < end /\ end <= Len(window)
      /\ end = Len(window) \/ window[end] = LF
  <2>1. /\ window \in Seq(Bytes) /\ at \in Nat /\ at < Len(window)
        /\ job.size \in Nat /\ job.size > 0
    BY <1>1, <1>2, <1>3
  <2>2. /\ end \in Nat /\ at < end /\ end <= Len(window)
    BY <2>1, ChunkEndFacts, Zenon
  <2>3. end = Len(window) \/ window[end] = LF
    BY <2>1, ChunkEndsALine, Zenon
  <2> QED BY <2>2, <2>3
<1> HIDE DEF end
<1> DEFINE a == first + at
           b == first + end
<1>8. /\ a \in Nat /\ b \in Nat /\ first <= a /\ a < b /\ b <= last /\ a <= b
      /\ b <= Len(unit) /\ a <= Len(unit)
  BY <1>1, <1>2, <1>3, <1>7
<1>9. \A i \in 1 .. last - first : window[i] = unit[first + i]
  <2>1. \A i \in 1 .. last - first : Slice(unit, first, last)[i] = unit[first + i]
    BY <1>1, <1>2, SliceType, Zenon
  <2> QED BY <1>1, <2>1
<1>10. a = 0 \/ unit[a] = LF
  <2>1. CASE at = 0
    BY <1>1, <1>5, <2>1
  <2>2. CASE at # 0
    <3>1. window[at] = LF /\ at \in 1 .. last - first
      BY <1>1, <1>3, <1>6, <2>2 DEF AtCut
    <3> QED BY <1>9, <3>1
  <2> QED BY <2>1, <2>2
<1>11. AtCut(unit, b)
  <2>1. CASE end = Len(window)
    <3>1. b = last
      BY <1>1, <1>3, <2>1
    <3> HIDE DEF b
    <3> QED BY <1>5, <3>1
  <2>2. CASE window[end] = LF
    <3>1. end \in 1 .. last - first
      BY <1>1, <1>3, <1>7
    <3>2. unit[b] = LF
      BY <1>9, <2>2, <3>1
    <3> QED BY <3>2 DEF AtCut
  <2> QED BY <1>7, <2>1, <2>2
<1>12. AtCut(window, end)
  BY <1>7 DEF AtCut
<1> HIDE DEF a, b
<1> DEFINE R0 == LineCount(Slice(unit, 0, first))
           R  == LineCount(Slice(unit, first, a))
           n  == LineCount(Slice(unit, a, b))
<1>13. R0 \in Nat /\ R \in Nat /\ n \in Nat
  <2>1. 0 \in Nat /\ 0 <= first /\ first <= Len(unit)
    BY <1>1, <1>2, <1>8
  <2>2. Slice(unit, 0, first) \in Seq(Bytes)
    BY <1>1, <1>2, <2>1, SliceType, Zenon
  <2>3. Slice(unit, first, a) \in Seq(Bytes)
    BY <1>1, <1>2, <1>8, SliceType, Zenon
  <2>4. Slice(unit, a, b) \in Seq(Bytes)
    BY <1>2, <1>8, SliceType, Zenon
  <2> QED BY <2>2, <2>3, <2>4, LineCountType
<1>14. LineCount(Slice(unit, 0, a)) = R0 + R
  BY <1>1, <1>2, <1>5, <1>8, LineCountAtCut
<1>15. LineCount(Slice(unit, first, b)) = R + n
  <2>1. LineCount(Slice(unit, 0, b)) = R0 + LineCount(Slice(unit, first, b))
    <3>1. first <= b
      BY <1>1, <1>8
    <3> QED BY <1>1, <1>2, <1>5, <1>8, <3>1, LineCountAtCut
  <2>2. LineCount(Slice(unit, 0, b)) = LineCount(Slice(unit, 0, a)) + n
    BY <1>2, <1>8, <1>10, LineCountAtCut
  <2>3. LineCount(Slice(unit, first, b)) \in Nat
    <3>1. first <= b
      BY <1>1, <1>8
    <3>2. Slice(unit, first, b) \in Seq(Bytes)
      BY <1>1, <1>2, <1>8, <3>1, SliceType, Zenon
    <3> QED BY <3>2, LineCountType
  <2> HIDE DEF R0, R, n
  <2> QED BY <1>13, <1>14, <2>1, <2>2, <2>3
<1>16. RecordsOfChunk(unit, c) = RecordsOfPart(unit, a, b, 0, n)
  <2>1. c.start = a /\ c.end = b
    BY DEF a, b
  <2>2. DOMAIN Lines(Slice(unit, a, b)) = 1 .. n
    BY DEF Lines
  <2>3. /\ LineCount(Slice(unit, 0, a)) + 0 = LineCount(Slice(unit, 0, a))
        /\ \A i \in 1 .. n : 0 + i = i
    <3> HIDE DEF R0, R, n
    <3> QED BY <1>13, <1>14
  <2> HIDE DEF c, n
  <2> QED BY <2>1, <2>2, <2>3 DEF RecordsOfChunk, RecordsOfPart
<1>17. RecordsOfPart(unit, a, b, 0, n) = RecordsFrom(unit, R0 + R, n)
  <2> DEFINE k == 0
  <2>1. k \in Nat /\ k + n <= LineCount(Slice(unit, a, b))
    BY <1>13
  <2>2. LineCount(Slice(unit, 0, a)) + k = R0 + R
    <3> HIDE DEF R0, R
    <3> QED BY <1>13, <1>14
  <2>3. RecordsOfPart(unit, a, b, k, n)
            = RecordsFrom(unit, LineCount(Slice(unit, 0, a)) + k, n)
    <3> HIDE DEF k, R0, R, n
    <3> QED BY <1>2, <1>8, <1>10, <1>11, <1>13, <2>1, PartRecords
  <2> HIDE DEF n, R0, R
  <2> QED BY <2>2, <2>3
<1>18. c \in ChunkType /\ c.start = a /\ c.end = b
  BY <1>8 DEF ChunkType, a, b
<1>19. a \in first .. last /\ b \in first .. last
  BY <1>1, <1>8
<1> HIDE DEF c
<1>20. /\ chunks' = Append(chunks, c)
       /\ c.start \in first .. last /\ c.end \in first .. last
       /\ AtCut(window, at')
       /\ R0 \in Nat /\ R \in Nat
       /\ LineCount(Slice(unit, first, first + at')) = R + n
       /\ RecordsOfChunk(unit, c) = RecordsFrom(unit, R0 + R, n)
  <2>1. first + at' = b
    BY <1>4 DEF b
  <2> QED BY <1>4, <1>12, <1>13, <1>15, <1>16, <1>17, <1>18, <1>19, <2>1
<1> QED
  BY <1>13, <1>18, <1>20 DEF unit, window, first, last, a

------------------------------------------------------------------------------
(* Each chunk lies in the window and gives some of the unit's records; ...  *)
Placed == \A i \in DOMAIN chunks :
              /\ chunks[i].start \in Slices!First .. Slices!End
              /\ chunks[i].end \in Slices!First .. Slices!End
              /\ RecordsOfChunk(job.unit, chunks[i]) \in Seq(RecordsOf(job.unit))

(* ... all of them give the window's up to `at`, where a line ends; ...     *)
InTurn == /\ AtCut(Slices!Window, at)
          /\ Slices!Delivered
                 = RecordsFrom(job.unit, LineCount(Slice(job.unit, 0, Slices!First)),
                       LineCount(Slice(job.unit, Slices!First, Slices!First + at)))

(* ... and in the end, which comes after the stream's, the whole window.    *)
AllCut == /\ sliced \in {"open", "done"}
          /\ sliced = "done" => outcome = "done" /\ HasSlice /\ at = Len(Slices!Window)

Divided == Placed /\ InTurn /\ AllCut

(* Before the first chunk nothing has been divided.                         *)
LEMMA InitDivided == InitBoth => Divided
<1> SUFFICES ASSUME InitBoth PROVE Divided
  OBVIOUS
<1>1. job \in Jobs /\ at = 0 /\ chunks = <<>> /\ sliced = "open"
  BY DEF InitBoth, Slices!Init
<1>2. job.unit \in Seq(Bytes) /\ Slices!First \in Nat
  BY <1>1, JobsAssumption, WindowFacts
<1>3. RecordsOfChunks(job.unit, chunks) = <<>>
  BY <1>1 DEF RecordsOfChunks
<1>4. Slices!Delivered = <<>>
  BY <1>3, SliceDeliversChunks, FlattenEmpty
<1>5. LineCount(Slice(job.unit, Slices!First, Slices!First + at)) = 0
  <2>1. Slice(job.unit, Slices!First, Slices!First + at) = <<>>
    <3> DEFINE f == Slices!First
    <3>1. f + at = f /\ f \in Nat
      BY <1>1, <1>2
    <3> HIDE DEF f
    <3>2. Slice(job.unit, f, f) = <<>>
      BY <1>2, <3>1, SubSeqEmpty DEF Slice
    <3> QED BY <3>1, <3>2 DEF f
  <2> QED BY <2>1, NoLines
<1>6. \A s, r : RecordsFrom(s, r, 0) = <<>>
  BY DEF RecordsFrom
<1>7. InTurn
  BY <1>1, <1>4, <1>5, <1>6 DEF InTurn, AtCut
<1> QED
  BY <1>1, <1>7 DEF Divided, Placed, AllCut

(* Cutting one more chunk adds the window's next records and no others      *)
(* (ChunkIsNext).                                                           *)
LEMMA DividedKept == Cut /\ Divided /\ [NextBoth]_bothVars => Divided'
<1> SUFFICES ASSUME Cut, Divided, [NextBoth]_bothVars PROVE Divided'
  OBVIOUS
<1>1. job' = job
  BY DEF NextBoth, bothVars, Stream, TakeSlice, vars, Next, ReadError, LongLine,
         CutBlock, Finish
<1>2. UNCHANGED <<Slices!First, Slices!End, Slices!Window, HasSlice>>
  BY <1>1, WindowStays DEF HasSlice
<1>3. ASSUME UNCHANGED <<at, chunks>>
      PROVE  Placed' /\ InTurn'
  <2>1. Slices!Delivered' = Slices!Delivered
    <3>1. /\ Slices!Delivered = FlattenSeq(RecordsOfChunks(job.unit, chunks))
          /\ (Slices!Delivered = FlattenSeq(RecordsOfChunks(job.unit, chunks)))'
      BY SliceDeliversChunks, PTL
    <3> QED BY <1>1, <1>3, <3>1
  <2>2. Placed'
    BY <1>1, <1>2, <1>3 DEF Divided, Placed
  <2>3. InTurn'
    BY <1>1, <1>2, <1>3, <2>1 DEF Divided, InTurn
  <2> QED BY <2>2, <2>3
<1>4. CASE Stream \/ UNCHANGED bothVars
  <2>1. UNCHANGED <<at, chunks, sliced>>
    BY <1>4 DEF Stream, bothVars
  <2>2. outcome = "done" => outcome' = "done"
    BY <1>4
      DEF Stream, bothVars, vars, Next, ReadError, LongLine, CutBlock, Finish, Reading
  <2>3. AllCut'
    BY <1>2, <2>1, <2>2 DEF Divided, AllCut
  <2> QED BY <1>3, <2>1, <2>3 DEF Divided
<1>5. CASE TakeSlice /\ Slices!Finish
  <2>1. UNCHANGED <<at, chunks, outcome>> /\ outcome = "done" /\ HasSlice
        /\ at >= Len(Slices!Window) /\ sliced' = "done"
    BY <1>5 DEF TakeSlice, Slices!Finish, vars
  <2>2. at = Len(Slices!Window)
    <3>1. at \in 0 .. Len(Slices!Window) /\ Len(Slices!Window) \in Nat
      BY WindowFacts DEF Cut
    <3> QED BY <2>1, <3>1
  <2>3. AllCut'
    BY <1>2, <2>1, <2>2 DEF AllCut
  <2> QED BY <1>3, <2>1, <2>3 DEF Divided
<1>6. CASE TakeSlice /\ Slices!NextChunk
  <2>1. UNCHANGED <<sliced, outcome>>
    BY <1>6 DEF TakeSlice, Slices!NextChunk, vars
  <2>2. job \in Jobs /\ at \in 0 .. Len(Slices!Window) /\ chunks \in Seq(ChunkType)
    BY DEF Cut
  <2> DEFINE unit  == job.unit
             first == Slices!First
             R0    == LineCount(Slice(unit, 0, first))
             R     == LineCount(Slice(unit, first, first + at))
             R1    == LineCount(Slice(unit, first, first + at'))
  <2>3. PICK c \in ChunkType, n \in Nat :
            /\ chunks' = Append(chunks, c)
            /\ c.start \in first .. Slices!End /\ c.end \in first .. Slices!End
            /\ AtCut(Slices!Window, at')
            /\ R0 \in Nat /\ R \in Nat /\ R1 = R + n
            /\ RecordsOfChunk(unit, c) = RecordsFrom(unit, R0 + R, n)
    <3>1. AtCut(Slices!Window, at)
      BY DEF Divided, InTurn
    <3> QED BY <1>6, <2>2, <3>1, ChunkIsNext
  <2>4. sliced # "done"
    <3>1. at < Len(Slices!Window) /\ Len(Slices!Window) \in Nat
      BY <1>6, <2>2, WindowFacts DEF Slices!NextChunk
    <3> QED BY <2>2, <3>1 DEF Divided, AllCut
  <2>5. AllCut'
    BY <2>1, <2>4 DEF Divided, AllCut
  <2>6. /\ Slices!Delivered = FlattenSeq(RecordsOfChunks(unit, chunks))
        /\ Slices!Delivered' = FlattenSeq(RecordsOfChunks(unit, chunks'))
    <3>1. /\ Slices!Delivered = FlattenSeq(RecordsOfChunks(job.unit, chunks))
          /\ (Slices!Delivered = FlattenSeq(RecordsOfChunks(job.unit, chunks)))'
      BY SliceDeliversChunks, PTL
    <3> QED BY <1>1, <3>1
  <2>7. Slices!Delivered = RecordsFrom(unit, R0, R)
    BY DEF Divided, InTurn
  <2>8. \A i \in DOMAIN chunks :
            RecordsOfChunk(unit, chunks[i]) \in Seq(RecordsOf(unit))
    BY DEF Divided, Placed
  <2> HIDE DEF unit, first, R0, R, R1
  <2>9. R0 + R \in Nat
    BY <2>3
  <2>10. RecordsOfChunk(unit, c) \in Seq(RecordsOf(unit))
    BY <2>3, <2>9, RecordsFromType
  <2>11. /\ FlattenSeq(RecordsOfChunks(unit, chunks'))
                = FlattenSeq(RecordsOfChunks(unit, chunks)) \o RecordsOfChunk(unit, c)
         /\ \A i \in DOMAIN chunks' :
                RecordsOfChunk(unit, chunks'[i]) \in Seq(RecordsOf(unit))
    BY <2>2, <2>3, <2>8, <2>10, OneMoreChunk
  <2>12. Slices!Delivered' = RecordsFrom(unit, R0, R1)
    <3>1. RecordsFrom(unit, R0, R) \o RecordsFrom(unit, R0 + R, n)
              = RecordsFrom(unit, R0, R + n)
      BY <2>3, RecordsFromAppend
    <3> QED BY <2>3, <2>6, <2>7, <2>11, <3>1
  <2>13. InTurn'
    BY <1>1, <1>2, <2>3, <2>12 DEF InTurn, R0, R1, unit, first
  <2>14. \A i \in DOMAIN chunks' : /\ chunks'[i].start \in first .. Slices!End
                                   /\ chunks'[i].end \in first .. Slices!End
    <3>1. \A i \in DOMAIN chunks : /\ chunks[i].start \in first .. Slices!End
                                   /\ chunks[i].end \in first .. Slices!End
      BY DEF Divided, Placed, first
    <3> HIDE DEF Slices!End
    <3> QED BY <2>2, <2>3, <3>1
  <2>15. Placed'
    BY <1>1, <1>2, <2>11, <2>14 DEF Placed, unit, first
  <2> QED BY <2>5, <2>13, <2>15 DEF Divided
<1> QED
  BY <1>4, <1>5, <1>6 DEF NextBoth, TakeSlice, Slices!Next

(* So what a slice is divided into is in order, and complete in the end.    *)
LEMMA Division == SpecBoth => [](Cut /\ Divided)
<1>1. (Cut /\ Divided) /\ [NextBoth]_bothVars => (Cut /\ Divided)'
  BY CutKept, DividedKept
<1> QED
  BY InitCut, InitDivided, <1>1, PTL DEF SpecBoth

------------------------------------------------------------------------------
(* The window's lines are those asked for: as many, from the same one on.   *)
LEMMA WindowIsAsked ==
    ASSUME job \in Jobs, ~job.broken
    PROVE  /\ LineCount(Slice(job.unit, Slices!First, Slices!End)) = HowMany
           /\ HowMany > 0 => LineCount(Slice(job.unit, 0, Slices!First)) = job.skipRows
<1> DEFINE unit  == job.unit
           skip  == job.skipRows
           body  == Abstract!Body
           first == Slices!First
           end   == Slices!End
           rest  == Slice(body, first, Len(body))
<1>1. PICK m \in Nat : /\ m <= Len(unit) /\ AtCut(unit, m)
                       /\ body = Slice(unit, 0, m)
                       /\ body \in Seq(Bytes) /\ Len(body) = m
                       /\ body = StripEofMarker(unit, FALSE)
  BY WholeLines
<1>2. Slices!SliceBody = body
  BY <1>1, SameStrip DEF Slices!SliceBody
<1>3. /\ unit \in Seq(Bytes) /\ Len(unit) \in Nat /\ skip \in Nat
      /\ job.nRows # NoLimit => job.nRows \in Nat
  BY JobsAssumption, LenProperties
<1>4. \A a, b \in Nat : a <= b /\ b <= m => Slice(body, a, b) = Slice(unit, a, b)
  BY <1>1, <1>2, BodyFacts
<1>5. first = AfterLines(body, skip)
  BY <1>2, SameAfterLines DEF Slices!First
<1>6. job.nRows # NoLimit => end = first + AfterLines(rest, job.nRows)
  BY <1>2, SameAfterLines, SameSlice DEF Slices!End
<1>7. job.nRows = NoLimit => end = Len(body)
  BY <1>2 DEF Slices!End
<1> HIDE DEF body, first, end, unit, skip
<1>8. /\ AtCut(body, first) /\ first \in 0 .. m
      /\ LineCount(Slice(body, 0, first)) = Lesser(skip, LinesThere)
  <2>1. /\ AtCut(body, first)
        /\ LineCount(Slice(body, 0, first)) = Lesser(skip, LineCount(body))
    BY <1>1, <1>3, <1>5, CutAfterLines
  <2>2. first \in 0 .. Len(body)
    BY <1>1, <1>3, <1>5, AfterLinesType
  <2>3. LinesThere = LineCount(body)
    BY DEF LinesThere, body
  <2> QED BY <1>1, <2>1, <2>2, <2>3
<1>9. first \in Nat /\ first <= m /\ 0 \in Nat /\ 0 <= first /\ m <= m
  BY <1>8
<1>10. rest = Slice(body, first, m) /\ rest \in Seq(Bytes) /\ Len(rest) = m - first
  <2>1. rest = Slice(body, first, m)
    BY <1>1
  <2>2. body \in Seq(Bytes) /\ first \in Nat /\ first <= m /\ m <= Len(body)
    BY <1>1, <1>9
  <2>3. Slice(body, first, m) \in Seq(Bytes) /\ Len(Slice(body, first, m)) = m - first
    BY <2>2, SliceType
  <2> HIDE DEF rest
  <2> QED BY <2>1, <2>3
<1> HIDE DEF rest
<1> DEFINE R0 == LineCount(Slice(unit, 0, first))
           N  == LineCount(Slice(unit, first, end))
           K  == LineCount(rest)
<1>11. R0 = Lesser(skip, LinesThere)
  <2>1. Slice(body, 0, first) = Slice(unit, 0, first)
    BY <1>4, <1>9
  <2> QED BY <1>8, <2>1
<1>12. /\ LinesThere \in Nat /\ LastAsked \in Nat /\ HowMany \in Nat
       /\ HowMany = IF skip <= LastAsked THEN LastAsked - skip ELSE 0
  BY CountsAreNat DEF skip
<1>13. K \in Nat /\ R0 \in Nat
  BY <1>3, <1>10, <1>11, <1>12, LineCountType DEF Lesser
<1>14. LinesThere = R0 + K
  <2>1. LinesThere = LineCount(body) /\ LineCount(Slice(body, 0, first)) = R0
    BY <1>8, <1>11 DEF LinesThere, body
  <2>2. Slice(body, 0, m) = body
    BY <1>1, WholeSlice
  <2>3. CASE first = m
    <3>1. rest = <<>>
      BY <1>9, <1>10, <2>3, EmptySeq
    <3>2. K = 0
      BY <3>1, NoLines
    <3>3. LineCount(body) = R0
      BY <2>1, <2>2, <2>3
    <3> HIDE DEF K, R0
    <3> QED BY <1>13, <2>1, <3>2, <3>3
  <2>4. CASE first # m
    <3>1. first = 0 \/ body[first] = LF
      BY <1>1, <1>8, <2>4 DEF AtCut
    <3>2. m <= Len(body)
      BY <1>1, <1>9
    <3>3. LineCount(Slice(body, 0, m))
              = LineCount(Slice(body, 0, first)) + LineCount(Slice(body, first, m))
      BY <1>1, <1>9, <3>1, <3>2, LineCountAtCut, Zenon
    <3> QED BY <1>10, <2>1, <2>2, <3>3
  <2> QED BY <2>3, <2>4
<1>15. N = IF job.nRows = NoLimit THEN K ELSE Lesser(job.nRows, K)
  <2>1. CASE job.nRows = NoLimit
    <3>1. end = m
      BY <1>1, <1>7, <2>1
    <3>2. Slice(body, first, m) = Slice(unit, first, m)
      BY <1>4, <1>9
    <3> QED BY <1>10, <2>1, <3>1, <3>2
  <2>2. CASE job.nRows # NoLimit
    <3> DEFINE x == AfterLines(rest, job.nRows)
    <3>1. LineCount(Slice(rest, 0, x)) = Lesser(job.nRows, K)
      BY <1>3, <1>10, <2>2, CutAfterLines
    <3>2. x \in 0 .. m - first
      BY <1>3, <1>10, <2>2, AfterLinesType
    <3>3. end = first + x
      BY <1>6, <2>2
    <3> HIDE DEF x
    <3>4. /\ x \in Nat /\ 0 <= x /\ x <= m - first /\ first + 0 = first
          /\ first <= first + x /\ first + x <= m /\ first + x \in Nat
      BY <1>9, <3>2
    <3>5. Slice(Slice(body, first, m), 0, x) = Slice(body, first + 0, first + x)
      <4>1. m <= Len(body)
        BY <1>1, <1>9
      <4> QED BY <1>1, <1>9, <3>4, <4>1, SliceOfSlice, SMTT(40)
    <3>6. Slice(body, first, first + x) = Slice(unit, first, first + x)
      BY <1>4, <1>9, <3>4
    <3>7. Slice(unit, first, end) = Slice(rest, 0, x)
      BY <1>10, <3>3, <3>4, <3>5, <3>6
    <3> QED BY <2>2, <3>1, <3>7
  <2> QED BY <2>1, <2>2
<1> HIDE DEF R0, N, K
<1>16. LastAsked = IF job.nRows = NoLimit THEN LinesThere
                   ELSE Lesser(skip + job.nRows, LinesThere)
  BY DEF LastAsked, skip
<1>17. N = HowMany /\ (HowMany > 0 => R0 = skip)
  <2>1. CASE job.nRows = NoLimit
    BY <1>3, <1>11, <1>12, <1>13, <1>14, <1>15, <1>16, <2>1 DEF Lesser
  <2>2. CASE job.nRows # NoLimit
    BY <1>3, <1>11, <1>12, <1>13, <1>14, <1>15, <1>16, <2>2 DEF Lesser
  <2> QED BY <2>1, <2>2
<1> QED
  BY <1>17 DEF N, R0, unit, skip, first, end

(* Both forms have then delivered all the records asked for.                *)
LEMMA SameInTheEnd ==
    ASSUME IInv, Ordered, Whole, Cut, Divided
    PROVE  ReadsTheSame
<1> SUFFICES ASSUME sliced = "done" PROVE Slices!Delivered = Delivered
  BY DEF ReadsTheSame
<1> DEFINE unit == job.unit
           R0 == LineCount(Slice(unit, 0, Slices!First))
<1>1. job \in Jobs /\ outcome = "done" /\ ~job.broken /\ at = Len(Slices!Window)
  BY DEF Cut, Divided, AllCut, HasSlice
<1>2. Delivered = RecordsFrom(unit, job.skipRows, HowMany)
  BY <1>1 DEF Ordered, InOrder, Whole
<1>3. Slices!First + at = Slices!End
  <2> DEFINE f == Slices!First
             e == Slices!End
  <2>1. f \in Nat /\ e \in Nat /\ at = e - f
    BY <1>1, WindowFacts
  <2> HIDE DEF f, e
  <2>2. f + at = e
    BY <2>1
  <2> QED BY <2>2 DEF f, e
<1>4. Slices!Delivered = RecordsFrom(unit, R0, HowMany)
  <2>1. LineCount(Slice(unit, Slices!First, Slices!End)) = HowMany
    BY <1>1, WindowIsAsked
  <2>2. Slices!Delivered
            = RecordsFrom(unit, R0,
                          LineCount(Slice(unit, Slices!First, Slices!First + at)))
    BY DEF Divided, InTurn
  <2> QED BY <1>3, <2>1, <2>2
<1>5. HowMany \in Nat /\ (HowMany > 0 => R0 = job.skipRows)
  BY <1>1, WindowIsAsked, CountsAreNat
<1>6. \A s, r : RecordsFrom(s, r, 0) = <<>>
  BY DEF RecordsFrom
<1> HIDE DEF R0, unit
<1> QED
  BY <1>2, <1>4, <1>5, <1>6

(* The chunks cut are of their type, as are the blocks.                     *)
LEMMA TypesOfBoth ==
    ASSUME IInv, Cut, Divided
    PROVE  BothTypes
<1>1. Slices!TypeInvariant
  BY DEF Cut, Divided, Placed, AllCut, Slices!TypeInvariant
<1> QED
  BY <1>1 DEF BothTypes, IInv

------------------------------------------------------------------------------
(* A stream read beside a slice of the same unit still gives what was asked *)
(* of it (read_impl.rs 125-177).                                            *)
THEOREM BothReadTheUnit == SpecBoth => ReadsTheUnit
BY StreamsBoth, StreamReadsTheUnit, PTL

(* A unit held in memory and the same unit read from a stream give the same *)
(* records, with the same texts, numbers and offsets, for any chunk size,   *)
(* skip_rows and n_rows: cutting a window out of the unit first and         *)
(* dividing it (parse_slice and parse_wave, read_impl.rs 77-113) and        *)
(* counting skipped and taken lines block by block (parse_stream,           *)
(* read_impl.rs 125-177) agree.                                             *)
THEOREM BothReadTheSame == SpecBoth => []ReadsTheSame
<1>1. IInv /\ (Ordered /\ Whole) /\ (Cut /\ Divided) => ReadsTheSame
  BY SameInTheEnd
<1> QED
  BY <1>1, StreamsBoth, Inductive, Ordering, Division, PTL

(* The state of both readers keeps its types: blocks and chunks are the     *)
(* unit's, rows_left never falls below zero (read_impl.rs 132-177), and     *)
(* every chunk lies in the window (read_impl.rs 80-88).                     *)
THEOREM BothTypeCorrect == SpecBoth => []BothTypes
<1>1. IInv /\ (Cut /\ Divided) => BothTypes
  BY TypesOfBoth
<1> QED
  BY <1>1, StreamsBoth, Inductive, Division, PTL
==============================================================================
