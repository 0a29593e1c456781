--------------------------- MODULE ZipMemberProofs ---------------------------
(***************************************************************************)
(* What holds of every read of a zip's member, for any archive, any block  *)
(* size and any division into reads: nothing is taken for whole that its   *)
(* header contradicts, and nothing intact is refused.  Nothing is assumed  *)
(* of Crc.                                                                 *)
(***************************************************************************)
EXTENDS ZipMember, SequenceTheorems, TLAPS

Types == /\ job \in Jobs
         /\ pc \in {"index", "header", "read", "whole", "stopped", "failed"}
         /\ chosen \in 0 .. Len(job.index)
         /\ got \in 0 .. job.size
         /\ hashed \in Seq(Bytes)

(* A member is chosen before anything of it is read, and what was hashed is *)
(* what the decoder has given of it so far.                                 *)
Hashed == /\ chosen = 0 => pc \in {"index", "failed"}
          /\ chosen # 0 => /\ Len(hashed) <= Len(Member.decoded)
                           /\ hashed = SubSeq(Member.decoded, 1, Len(hashed))

(* A member is decoded only if it is compressed and its header is good.     *)
Decoding == /\ pc = "index" => chosen = 0 /\ hashed = <<>>
            /\ pc = "header" => hashed = <<>>
            /\ pc = "read" => Readable /\ Member.method # 0

IInv == Types /\ Hashed /\ Decoding /\ WholeIsAsRecorded /\ IntactIsRead

------------------------------------------------------------------------------
LEMMA JobType ==
    ASSUME job \in Jobs
    PROVE  /\ Len(job.index) \in Nat /\ DOMAIN job.index = 1 .. Len(job.index)
           /\ job.size \in Nat /\ job.size > 0
BY ZipAssumption

LEMMA MemberType ==
    ASSUME job \in Jobs, chosen \in 1 .. Len(job.index)
    PROVE  /\ Member.decoded \in Seq(Bytes) /\ Len(Member.decoded) \in Nat
           /\ Member.size \in Nat /\ Member.method \in Nat
           /\ Member.broken \in BOOLEAN
<1>1. chosen \in DOMAIN job.index
  BY JobType
<1>2. /\ Member.decoded \in Seq(Bytes)
      /\ Member.size \in Nat /\ Member.method \in Nat
      /\ Member.broken \in BOOLEAN
  BY <1>1, ZipAssumption DEF Member
<1>3. QED BY <1>2, LenProperties

(* What is read next comes right after what was hashed.                     *)
LEMMA ReadFollows ==
    ASSUME NEW s \in Seq(Bytes), NEW k \in Nat, NEW n \in Nat, k + n <= Len(s)
    PROVE  /\ SubSeq(s, 1, k) \o SubSeq(s, k + 1, k + n) = SubSeq(s, 1, k + n)
           /\ SubSeq(s, 1, k + n) \in Seq(Bytes)
           /\ Len(SubSeq(s, 1, k + n)) = k + n
<1>1. Len(s) \in Nat /\ \A i \in 1 .. Len(s) : s[i] \in Bytes
  BY LenProperties, ElementOfSeq
<1>2. /\ 1 \in 1 .. Len(s) + 1
      /\ k \in 1 - 1 .. Len(s)
      /\ k + n \in k .. Len(s)
  BY <1>1
<1>3. SubSeq(s, 1, k) \o SubSeq(s, k + 1, k + n) = SubSeq(s, 1, k + n)
  BY <1>2, ConcatAdjacentSubSeq
<1>4. \A i \in 1 .. k + n : s[i] \in Bytes
  BY <1>1
<1>5. /\ SubSeq(s, 1, k + n) \in Seq(Bytes)
      /\ Len(SubSeq(s, 1, k + n)) = IF 1 <= k + n THEN k + n - 1 + 1 ELSE 0
  BY <1>4, SubSeqProperties
<1>6. QED BY <1>3, <1>5

------------------------------------------------------------------------------
LEMMA InitIInv == Init => IInv
BY JobType, EmptySeq
   DEF Init, IInv, Types, Hashed, Decoding, WholeIsAsRecorded, IntactIsRead

USE DEF IInv, Types, Decoding

LEMMA ChooseIInv == ASSUME IInv, Choose PROVE IInv'
<1>1. PICK i \in Chosen : chosen' = i
  BY DEF Choose
<1>2. i \in 1 .. Len(job.index)
  BY <1>1, JobType DEF Chosen, Files
<1>3. job.index[i].decoded \in Seq(Bytes)
  BY <1>2, JobType, ZipAssumption
<1>4. Hashed'
  <2>1. SubSeq(job.index[i].decoded, 1, 0) = <<>>
    BY SubSeqEmpty
  <2>2. Len(<<>>) = 0 /\ 0 <= Len(job.index[i].decoded)
    BY <1>3, LenProperties, EmptySeq
  <2>3. QED BY <1>1, <1>2, <2>1, <2>2, JobType DEF Choose, Hashed, Member
<1>5. QED
  BY <1>1, <1>2, <1>4, JobType
     DEF Choose, WholeIsAsRecorded, IntactIsRead

LEMMA NoneIInv == ASSUME IInv, ChooseNone \/ IndexFails PROVE IInv'
BY DEF ChooseNone, IndexFails, Goto, Hashed, Member, WholeIsAsRecorded, IntactIsRead

LEMMA RejectIInv == ASSUME IInv, Reject PROVE IInv'
BY DEF Reject, Goto, Hashed, Member, Readable, WholeIsAsRecorded, IntactIsRead

LEMMA OpenStoredIInv == ASSUME IInv, OpenStored PROVE IInv'
BY DEF OpenStored, StoredMatches, Goto, Hashed, Member, Readable,
       WholeIsAsRecorded, IntactIsRead

LEMMA OpenCompressedIInv == ASSUME IInv, OpenCompressed PROVE IInv'
BY DEF OpenCompressed, Goto, Hashed, Member, Readable, WholeIsAsRecorded,
       IntactIsRead

LEMMA ReadIInv == ASSUME IInv, Read PROVE IInv'
<1>1. chosen \in 1 .. Len(job.index)
  BY JobType DEF Read, Hashed
<1>2. Member.decoded \in Seq(Bytes) /\ Len(Member.decoded) \in Nat
  BY <1>1, MemberType
<1>3. PICK n \in 1 .. Asked :
          /\ n <= Left
          /\ got' = got + n
          /\ hashed' = hashed \o SubSeq(Member.decoded, Len(hashed) + 1, Len(hashed) + n)
  BY DEF Read
<1>4. Len(hashed) \in Nat
  BY LenProperties
<1>5. n \in Nat /\ n <= job.size - got /\ Len(hashed) + n <= Len(Member.decoded)
  BY <1>2, <1>3, <1>4, JobType DEF Asked, Left
<1>6. /\ hashed' = SubSeq(Member.decoded, 1, Len(hashed) + n)
      /\ hashed' \in Seq(Bytes)
      /\ Len(hashed') = Len(hashed) + n
  BY <1>1, <1>2, <1>3, <1>4, <1>5, ReadFollows DEF Hashed
<1>7. got' \in 0 .. job.size
  BY <1>3, <1>5, JobType
<1>8. Hashed'
  BY <1>1, <1>2, <1>4, <1>5, <1>6 DEF Read, Hashed, Member
<1>9. QED
  BY <1>6, <1>7, <1>8
     DEF Read, Member, Readable, WholeIsAsRecorded, IntactIsRead

LEMMA ReadEndIInv == ASSUME IInv, ReadEnd PROVE IInv'
<1>1. chosen \in 1 .. Len(job.index)
  BY JobType DEF ReadEnd, Hashed
<1>2. Member.decoded \in Seq(Bytes) /\ Len(Member.decoded) \in Nat
  BY <1>1, MemberType
<1>3. hashed = Member.decoded
  <2>1. Len(hashed) = Len(Member.decoded)
    BY <1>2, LenProperties DEF ReadEnd, DecoderAtEnd, Left
  <2>2. QED BY <1>1, <1>2, <2>1, SubSeqFull DEF Hashed
<1>4. QED
  BY <1>1, <1>3
     DEF ReadEnd, Matches, Goto, Hashed, Member, Readable, WholeIsAsRecorded,
         IntactIsRead

LEMMA DecoderFailsIInv == ASSUME IInv, DecoderFails PROVE IInv'
BY DEF DecoderFails, Goto, Hashed, Member, Readable, WholeIsAsRecorded, IntactIsRead

LEMMA BlockIInv == ASSUME IInv, NextBlock \/ HasItsRows PROVE IInv'
BY JobType DEF NextBlock, HasItsRows, Goto, Hashed, Member, Readable,
               WholeIsAsRecorded, IntactIsRead

LEMMA StutterIInv == ASSUME IInv, UNCHANGED vars PROVE IInv'
BY DEF vars, Hashed, Member, Readable, WholeIsAsRecorded, IntactIsRead

LEMMA Invariance == Spec => []IInv
<1>1. IInv /\ [Next]_vars => IInv'
  BY ChooseIInv, NoneIInv, RejectIInv, OpenStoredIInv, OpenCompressedIInv, ReadIInv,
     ReadEndIInv, DecoderFailsIInv, BlockIInv, StutterIInv DEF Next
<1>2. QED BY <1>1, InitIInv, PTL DEF Spec

------------------------------------------------------------------------------
(* Every variable has its type, and what was hashed begins the member.      *)
THEOREM TypeCorrect == Spec => []TypeInvariant
<1>1. IInv => TypeInvariant
  <2> SUFFICES ASSUME IInv, chosen # 0 PROVE IsPrefix(hashed, Member.decoded)
    BY DEF TypeInvariant
  <2>1. Len(hashed) \in Nat
    BY LenProperties
  <2>2. SubSeq(hashed, 1, Len(hashed)) = hashed
    BY SubSeqFull
  <2>3. QED BY <2>1, <2>2 DEF IsPrefix, Hashed
<1>2. QED BY <1>1, Invariance, PTL

(* A member taken for whole is the one its header describes.                *)
THEOREM NothingWrongIsTaken == Spec => []WholeIsAsRecorded
<1>1. IInv => WholeIsAsRecorded
  OBVIOUS
<1>2. QED BY <1>1, Invariance, PTL

(* A member as its header describes it is never refused.                    *)
THEOREM NoFalseAlarm == Spec => []IntactIsRead
<1>1. IInv => IntactIsRead
  OBVIOUS
<1>2. QED BY <1>1, Invariance, PTL
==============================================================================
