---------------------------- MODULE OpenUnitProofs ----------------------------
(***************************************************************************)
(* What holds of every opening, for any bytes, any source and any division *)
(* of its bytes into reads: nothing is lost and the container is told from *)
(* the bytes alone.                                                        *)
(***************************************************************************)
EXTENDS OpenUnit, SequenceTheorems, TLAPS

(* The location's first k bytes.                                            *)
First(k) == SubSeq(job.raw, 1, k)

(* What was handed on, and then the head, is what the stream has given.     *)
Placed == Streamed => handed \o head = First(pos)

(* While the container is looked for nothing was handed on, and before it   *)
(* is known where the bytes come from nothing was read.                     *)
Before ==
    /\ pc \in {"get", "sniff", "place"} => handed = <<>>
    /\ pc = "get" => pos = 0 /\ head = <<>> /\ container = job.container
    /\ pc = "get" <=> form = "none" /\ pc # "failed"
    /\ pc = "sniff" => job.container = "auto"

IInv == /\ TypeInvariant
        /\ Placed /\ Before
        /\ AllHandedOn /\ SameContainerForSameBytes

------------------------------------------------------------------------------
LEMMA RawType == ASSUME job \in Jobs
                 PROVE  job.raw \in Seq(Bytes) /\ Len(job.raw) \in Nat
BY OpenAssumption, LenProperties

(* What a read of the stream gives comes right after what it gave before.   *)
LEMMA GivenFollows ==
    ASSUME job \in Jobs, pos \in 0 .. Len(job.raw),
           NEW n \in Nat, pos + n <= Len(job.raw)
    PROVE  /\ First(pos) \in Seq(Bytes)
           /\ Given(n) \in Seq(Bytes) /\ Len(Given(n)) = n
           /\ First(pos) \o Given(n) = First(pos + n)
<1>1. job.raw \in Seq(Bytes) /\ Len(job.raw) \in Nat
  BY RawType
<1>2. \A i \in 1 .. Len(job.raw) : job.raw[i] \in Bytes
  BY <1>1, ElementOfSeq
<1>3. First(pos) \in Seq(Bytes)
  BY <1>1, <1>2, SubSeqProperties DEF First
<1>4. Given(n) \in Seq(Bytes) /\ Len(Given(n)) = n
  <2>1. \A i \in pos + 1 .. pos + n : job.raw[i] \in Bytes
    BY <1>1, <1>2
  <2>2. /\ SubSeq(job.raw, pos + 1, pos + n) \in Seq(Bytes)
        /\ Len(SubSeq(job.raw, pos + 1, pos + n))
               = IF pos + 1 <= pos + n THEN pos + n - (pos + 1) + 1 ELSE 0
    BY <1>1, <2>1, SubSeqProperties
  <2>3. QED BY <1>1, <2>2 DEF Given
<1>5. First(pos) \o Given(n) = First(pos + n)
  <2>1. /\ 1 \in 1 .. Len(job.raw) + 1
        /\ pos \in 1 - 1 .. Len(job.raw)
        /\ pos + n \in pos .. Len(job.raw)
    BY <1>1
  <2>2. QED BY <1>1, <2>1, ConcatAdjacentSubSeq DEF First, Given
<1>6. QED BY <1>3, <1>4, <1>5

(* As many bytes as the longest head has, or all there are, tell the        *)
(* container as well as the whole does.                                     *)
LEMMA HeadTells ==
    ASSUME job \in Jobs, pos \in 0 .. Len(job.raw), head = First(pos), HeadRead
    PROVE  Detect(head) = Detect(job.raw)
<1>1. job.raw \in Seq(Bytes) /\ Len(job.raw) \in Nat
  BY RawType
<1>2. CASE SourceEnded
  BY <1>1, <1>2, SubSeqFull DEF SourceEnded, First
<1>3. CASE Len(head) = 4
  <2>1. \A i \in 1 .. pos : job.raw[i] \in Bytes
    BY <1>1, ElementOfSeq
  <2>2. /\ head \in Seq(Bytes)
        /\ Len(head) = IF 1 <= pos THEN pos - 1 + 1 ELSE 0
        /\ \A i \in 1 .. pos - 1 + 1 : head[i] = job.raw[1 + i - 1]
    BY <1>1, <2>1, SubSeqProperties DEF First
  <2>3. pos = 4 /\ 4 <= Len(job.raw)
    <3> DEFINE length == Len(head)
    <3>1. pos \in Nat /\ pos <= Len(job.raw)
      BY <1>1
    <3>2. length = 4 /\ length = IF 1 <= pos THEN pos - 1 + 1 ELSE 0
      BY <1>3, <2>2
    <3> HIDE DEF length
    <3>3. QED BY <3>1, <3>2
  <2>4. ASSUME NEW n \in 1 .. 4 PROVE SubSeq(head, 1, n) = SubSeq(job.raw, 1, n)
    <3>1. /\ \A i \in 1 .. n : head[i] \in Bytes
          /\ \A i \in 1 .. n : job.raw[i] \in Bytes
          /\ \A i \in 1 .. n : head[i] = job.raw[i]
      BY <1>1, <1>3, <2>2, <2>3, ElementOfSeq
    <3>2. /\ SubSeq(head, 1, n) \in Seq(Bytes)
          /\ Len(SubSeq(head, 1, n)) = n
          /\ \A i \in 1 .. n : SubSeq(head, 1, n)[i] = head[i]
      BY <3>1, SubSeqProperties
    <3>3. /\ SubSeq(job.raw, 1, n) \in Seq(Bytes)
          /\ Len(SubSeq(job.raw, 1, n)) = n
          /\ \A i \in 1 .. n : SubSeq(job.raw, 1, n)[i] = job.raw[i]
      BY <3>1, SubSeqProperties
    <3>4. QED BY <3>1, <3>2, <3>3, SeqEqual
  <2>5. /\ IsPrefix(ZipHead, head) <=> IsPrefix(ZipHead, job.raw)
        /\ IsPrefix(GzipHead, head) <=> IsPrefix(GzipHead, job.raw)
    BY <1>3, <2>3, <2>4, OpenAssumption DEF IsPrefix
  <2>6. QED BY <2>5 DEF Detect
<1>4. QED BY <1>2, <1>3 DEF HeadRead

------------------------------------------------------------------------------
LEMMA InitIInv == Init => IInv
<1> SUFFICES ASSUME Init PROVE IInv
  OBVIOUS
<1>1. job \in Jobs /\ job.raw \in Seq(Bytes) /\ Len(job.raw) \in Nat
  BY RawType DEF Init
<1>2. TypeInvariant
  BY <1>1, OpenAssumption, EmptySeq DEF Init, TypeInvariant
<1>3. QED
  BY <1>2 DEF Init, IInv, Placed, Before, AllHandedOn, SameContainerForSameBytes,
              Streamed

USE DEF IInv, TypeInvariant, Before

LEMMA GetIInv == ASSUME IInv, Get PROVE IInv'
<1>1. Placed'
  <2>1. First(0) = <<>>
    BY RawType, SubSeqEmpty DEF First
  <2>2. <<>> \o <<>> = <<>>
    BY EmptySeq, ConcatEmptySeq
  <2>3. QED BY <2>1, <2>2 DEF Get, Placed, First
<1>2. QED
  BY <1>1, OpenAssumption DEF Get, AllHandedOn, SameContainerForSameBytes

LEMMA SniffSliceIInv == ASSUME IInv, SniffSlice PROVE IInv'
BY DEF SniffSlice, Placed, First, Streamed, Detect, AllHandedOn,
       SameContainerForSameBytes

LEMMA SniffReadIInv == ASSUME IInv, SniffRead PROVE IInv'
<1>1. job.raw \in Seq(Bytes) /\ Len(job.raw) \in Nat
  BY RawType
<1>2. PICK n \in FromSource(4 - Len(head)) :
          head' = head \o Given(n) /\ pos' = pos + n
  BY DEF SniffRead
<1>3. /\ Len(head) \in Nat
      /\ n \in Nat /\ pos + n <= Len(job.raw) /\ n <= 4 - Len(head)
  BY <1>1, LenProperties DEF FromSource
<1>4. /\ Given(n) \in Seq(Bytes) /\ Len(Given(n)) = n
      /\ First(pos) \o Given(n) = First(pos + n)
  BY <1>3, GivenFollows
<1>5. head' \in Seq(Bytes) /\ Len(head') <= 4
  BY <1>2, <1>3, <1>4, ConcatProperties
<1>6. Placed'
  <2>1. handed = <<>> /\ head = First(pos)
    BY ConcatEmptySeq DEF SniffRead, Placed
  <2>2. handed' \o head' = head'
    BY <1>5, <2>1, ConcatEmptySeq DEF SniffRead
  <2>3. QED BY <1>2, <1>4, <2>1, <2>2 DEF SniffRead, Placed, First
<1>7. pos' \in 0 .. Len(job'.raw)
  BY <1>1, <1>2, <1>3 DEF SniffRead
<1>8. QED
  BY <1>5, <1>6, <1>7 DEF SniffRead, AllHandedOn, SameContainerForSameBytes

LEMMA SniffEndIInv == ASSUME IInv, SniffEnd PROVE IInv'
<1>1. head = First(pos)
  BY ConcatEmptySeq DEF SniffEnd, Placed
<1>2. Detect(head) = Detect(job.raw)
  BY <1>1, HeadTells DEF SniffEnd
<1>3. QED
  BY <1>2 DEF SniffEnd, HeadPutBack, Placed, First, Streamed, Detect, AllHandedOn,
              SameContainerForSameBytes

LEMMA PlaceIInv == ASSUME IInv, Place PROVE IInv'
BY DEF Place, Placed, First, Streamed, AllHandedOn, SameContainerForSameBytes, Detect

LEMMA ReadSliceIInv == ASSUME IInv, ReadSlice PROVE IInv'
BY RawType DEF ReadSlice, Placed, First, Streamed, AllHandedOn,
               SameContainerForSameBytes, Detect

LEMMA ReadHeadIInv == ASSUME IInv, ReadHead PROVE IInv'
<1>1. PICK n \in DOMAIN head : /\ handed' = handed \o SubSeq(head, 1, n)
                               /\ head' = SubSeq(head, n + 1, Len(head))
  BY DEF ReadHead
<1>2. Len(head) \in Nat /\ n \in 1 .. Len(head)
  BY LenProperties
<1>3. \A i \in 1 .. Len(head) : head[i] \in Bytes
  BY ElementOfSeq
<1>4. SubSeq(head, 1, n) \in Seq(Bytes)
  BY <1>2, <1>3, SubSeqProperties
<1>5. /\ SubSeq(head, n + 1, Len(head)) \in Seq(Bytes)
      /\ Len(SubSeq(head, n + 1, Len(head))) <= 4
  BY <1>2, <1>3, SubSeqProperties
<1>6. SubSeq(head, 1, n) \o SubSeq(head, n + 1, Len(head)) = head
  <2>1. /\ 1 \in 1 .. Len(head) + 1
        /\ n \in 1 - 1 .. Len(head)
        /\ Len(head) \in n .. Len(head)
    BY <1>2
  <2>2. SubSeq(head, 1, n) \o SubSeq(head, n + 1, Len(head)) = SubSeq(head, 1, Len(head))
    BY <2>1, ConcatAdjacentSubSeq
  <2>3. SubSeq(head, 1, Len(head)) = head
    BY SubSeqFull
  <2>4. QED BY <2>2, <2>3
<1>7. handed' \o head' = handed \o head
  <2> DEFINE given == SubSeq(head, 1, n)
             kept  == SubSeq(head, n + 1, Len(head))
  <2>1. given \in Seq(Bytes) /\ kept \in Seq(Bytes) /\ handed \in Seq(Bytes)
    BY <1>4, <1>5
  <2>2. (handed \o given) \o kept = handed \o (given \o kept)
    <3> HIDE DEF given, kept
    <3> QED BY ONLY <2>1, ConcatAssociative
  <2>3. QED BY <1>1, <1>6, <2>2
<1>8. handed' \in Seq(Bytes)
  BY <1>1, <1>4, ConcatProperties
<1>9. QED
  BY <1>1, <1>5, <1>7, <1>8
     DEF ReadHead, Reading, Placed, First, Streamed, AllHandedOn,
         SameContainerForSameBytes, Detect

LEMMA ReadSourceIInv == ASSUME IInv, ReadSource PROVE IInv'
<1>1. job.raw \in Seq(Bytes) /\ Len(job.raw) \in Nat
  BY RawType
<1>2. PICK n \in FromSource(Len(job.raw)) :
          handed' = handed \o Given(n) /\ pos' = pos + n
  BY DEF ReadSource
<1>3. n \in Nat /\ pos + n <= Len(job.raw)
  BY <1>1 DEF FromSource
<1>4. /\ Given(n) \in Seq(Bytes)
      /\ First(pos) \o Given(n) = First(pos + n)
  BY <1>3, GivenFollows
<1>5. handed = First(pos)
  BY ConcatEmptySeq DEF ReadSource, Reading, Placed
<1>6. handed' = First(pos + n) /\ handed' \in Seq(Bytes)
  BY <1>2, <1>4, <1>5, ConcatProperties
<1>7. Placed'
  BY <1>2, <1>6, ConcatEmptySeq DEF ReadSource, Placed, First
<1>8. pos' \in 0 .. Len(job'.raw)
  BY <1>1, <1>2, <1>3 DEF ReadSource
<1>9. QED
  BY <1>6, <1>7, <1>8 DEF ReadSource, Reading, AllHandedOn,
                          SameContainerForSameBytes, Detect

LEMMA ReadEndIInv == ASSUME IInv, ReadEnd PROVE IInv'
<1>1. handed = First(pos) /\ pos = Len(job.raw)
  BY ConcatEmptySeq DEF ReadEnd, Reading, ChainEnded, SourceEnded, Placed
<1>2. handed = job.raw
  BY <1>1, RawType, SubSeqFull DEF First
<1>3. QED
  BY <1>2 DEF ReadEnd, Reading, Placed, First, Streamed, AllHandedOn,
              SameContainerForSameBytes, Detect

LEMMA FailIInv == ASSUME IInv, GetFails \/ StreamFails PROVE IInv'
BY DEF GetFails, StreamFails, Fail, Placed, First, Streamed, AllHandedOn,
       SameContainerForSameBytes

LEMMA StutterIInv == ASSUME IInv, UNCHANGED vars PROVE IInv'
BY DEF vars, Placed, First, Streamed, AllHandedOn, SameContainerForSameBytes, Detect

LEMMA Invariance == Spec => []IInv
<1>1. IInv /\ [Next]_vars => IInv'
  BY GetIInv, SniffSliceIInv, SniffReadIInv, SniffEndIInv, PlaceIInv, ReadSliceIInv,
     ReadHeadIInv, ReadSourceIInv, ReadEndIInv, FailIInv, StutterIInv
     DEF Next, GoOn
<1>2. QED BY <1>1, InitIInv, PTL DEF Spec

------------------------------------------------------------------------------
(* Every variable has its type: the head is never longer than it may be and *)
(* the stream never gives more than there is.                               *)
THEOREM TypeCorrect == Spec => []TypeInvariant
<1>1. IInv => TypeInvariant
  OBVIOUS
<1>2. QED BY <1>1, Invariance, PTL

(* A stream's bytes are never lost, repeated or reordered, however they     *)
(* come.                                                                    *)
THEOREM NoByteIsLost == Spec => []NothingLost
<1>1. IInv => NothingLost
  <2> SUFFICES ASSUME IInv, Streamed
               PROVE  handed \o head \o SubSeq(job.raw, pos + 1, Len(job.raw)) = job.raw
    BY DEF NothingLost
  <2>1. job.raw \in Seq(Bytes) /\ Len(job.raw) \in Nat
    BY RawType
  <2>2. /\ 1 \in 1 .. Len(job.raw) + 1
        /\ pos \in 1 - 1 .. Len(job.raw)
        /\ Len(job.raw) \in pos .. Len(job.raw)
    BY <2>1
  <2>3. First(pos) \o SubSeq(job.raw, pos + 1, Len(job.raw)) = First(Len(job.raw))
    BY <2>1, <2>2, ConcatAdjacentSubSeq DEF First
  <2>4. QED BY <2>1, <2>3, SubSeqFull DEF First, Placed
<1>2. QED BY <1>1, Invariance, PTL

(* Whoever reads to the end has had exactly the location's bytes.           *)
THEOREM EveryByteIsHandedOn == Spec => []AllHandedOn
<1>1. IInv => AllHandedOn
  OBVIOUS
<1>2. QED BY <1>1, Invariance, PTL

(* A container that is not asked for is told from the bytes, in whatever    *)
(* pieces they come.                                                        *)
THEOREM ContainerFromBytesAlone == Spec => []SameContainerForSameBytes
<1>1. IInv => SameContainerForSameBytes
  OBVIOUS
<1>2. QED BY <1>1, Invariance, PTL
==============================================================================
