-------------------------- MODULE ParquetOutputProofs --------------------------
(***************************************************************************)
(* What ParquetOutput promises, for writes and buffers of any size and for *)
(* any number of refusals.                                                 *)
(***************************************************************************)
EXTENDS ParquetOutput, TLAPS

(* Three pieces that, one after another, are the file's first bytes.        *)
Places(s, o, i) ==
    /\ \A k \in 1 .. Len(s) : s[k] = k
    /\ \A k \in 1 .. Len(o) : o[k] = Len(s) + k
    /\ \A k \in 1 .. Len(i) : i[k] = Len(s) + Len(o) + k

Placed == Places(sink, outer, inner)

(* As long as nothing was refused, every byte written is in one of them.    *)
Complete ==
    result = "open" /\ ~failed =>
        /\ refused = "no"
        /\ Len(sink) + Len(outer) + Len(inner) = at

(* The buffers are emptied from the top, before the file ends well ...      *)
Emptied ==
    /\ failed => pc \in {"unwind", "drop", "done"}
    /\ pc \in {"close", "flush"} =>
           job.ending = "end" /\ made = Len(job.sizes) /\ inner = <<>>
    /\ pc = "unwind" /\ ~failed /\ job.ending = "end" =>
           made = Len(job.sizes) /\ inner = <<>> /\ outer = <<>>
    /\ pc \in {"drop", "done"} => inner = <<>>

(* ... and only then is there a result.                                     *)
Told ==
    /\ result = "open" <=> pc \in {"write", "close", "flush", "unwind"}
    /\ result = "ok" => /\ refused = "no" /\ made = Len(job.sizes)
                        /\ outer = <<>> /\ Len(sink) = at

IInv == TypeInvariant /\ Placed /\ Complete /\ Emptied /\ Told

------------------------------------------------------------------------------
LEMMA Concatenation ==
    ASSUME NEW a \in Seq(Nat), NEW b \in Seq(Nat)
    PROVE  /\ a \o b \in Seq(Nat) /\ Len(a \o b) = Len(a) + Len(b)
           /\ \A k \in 1 .. Len(a) : (a \o b)[k] = a[k]
           /\ \A k \in 1 .. Len(b) : (a \o b)[Len(a) + k] = b[k]
OBVIOUS

(* Driving out the first n bytes of a buffer moves them one piece down.     *)
LEMMA MovedIsPlaced ==
    ASSUME NEW s \in Seq(Nat), NEW o \in Seq(Nat), NEW i \in Seq(Nat),
           NEW n \in 0 .. Len(o), Places(s, o, i),
           NEW s2 \in Seq(Nat), Len(s2) = Len(s) + n,
           \A k \in 1 .. Len(s) : s2[k] = s[k],
           \A k \in 1 .. n : s2[Len(s) + k] = o[k],
           NEW o2 \in Seq(Nat), Len(o2) = Len(o) - n,
           \A k \in 1 .. Len(o) - n : o2[k] = o[n + k]
    PROVE  Places(s2, o2, i)
<1>1. ASSUME NEW k \in 1 .. Len(s2) PROVE s2[k] = k
  <2>1. CASE k <= Len(s)
    <3>1. k \in 1 .. Len(s)
      BY <2>1
    <3>2. s2[k] = s[k]
      BY <3>1
    <3>3. s[k] = k
      BY <3>1 DEF Places
    <3> QED BY <3>2, <3>3
  <2>2. CASE k > Len(s)
    <3>1. k - Len(s) \in 1 .. n /\ k = Len(s) + (k - Len(s))
      BY <2>2
    <3>2. s2[Len(s) + (k - Len(s))] = o[k - Len(s)]
      BY <3>1
    <3>3. o[k - Len(s)] = Len(s) + (k - Len(s))
      BY <3>1 DEF Places
    <3> QED BY <3>1, <3>2, <3>3
  <2> QED BY <2>1, <2>2
<1>2. ASSUME NEW k \in 1 .. Len(o2) PROVE o2[k] = Len(s2) + k
  BY DEF Places
<1>3. ASSUME NEW k \in 1 .. Len(i) PROVE i[k] = Len(s2) + Len(o2) + k
  BY DEF Places
<1> QED BY <1>1, <1>2, <1>3 DEF Places

LEMMA DrivingKeepsPlaces ==
    ASSUME NEW s \in Seq(Nat), NEW o \in Seq(Nat), NEW i \in Seq(Nat),
           NEW n \in 0 .. Len(o), Places(s, o, i)
    PROVE  /\ s \o SubSeq(o, 1, n) \in Seq(Nat)
           /\ SubSeq(o, n + 1, Len(o)) \in Seq(Nat)
           /\ Len(s \o SubSeq(o, 1, n)) = Len(s) + n
           /\ Len(SubSeq(o, n + 1, Len(o))) = Len(o) - n
           /\ Places(s \o SubSeq(o, 1, n), SubSeq(o, n + 1, Len(o)), i)
<1>1. /\ SubSeq(o, 1, n) \in Seq(Nat) /\ Len(SubSeq(o, 1, n)) = n
      /\ \A k \in 1 .. n : SubSeq(o, 1, n)[k] = o[k]
  OBVIOUS
<1>2. /\ SubSeq(o, n + 1, Len(o)) \in Seq(Nat)
      /\ Len(SubSeq(o, n + 1, Len(o))) = Len(o) - n
      /\ \A k \in 1 .. Len(o) - n : SubSeq(o, n + 1, Len(o))[k] = o[n + k]
  OBVIOUS
<1> DEFINE t == SubSeq(o, 1, n)
<1>3. /\ s \o t \in Seq(Nat) /\ Len(s \o t) = Len(s) + n
      /\ \A k \in 1 .. Len(s) : (s \o t)[k] = s[k]
      /\ \A k \in 1 .. n : (s \o t)[Len(s) + k] = o[k]
  <2>1. t \in Seq(Nat) /\ Len(t) = n /\ \A k \in 1 .. n : t[k] = o[k]
    BY <1>1
  <2> HIDE DEF t
  <2> QED BY <2>1, Concatenation
<1> QED BY <1>2, <1>3, MovedIsPlaced

(* Bytes that follow one another do so still once they are in one piece.    *)
LEMMA JoinedFollow ==
    ASSUME NEW a \in Seq(Nat), NEW b \in Seq(Nat), NEW from \in Nat,
           \A k \in 1 .. Len(a) : a[k] = from + k,
           \A k \in 1 .. Len(b) : b[k] = from + Len(a) + k
    PROVE  /\ a \o b \in Seq(Nat) /\ Len(a \o b) = Len(a) + Len(b)
           /\ \A k \in 1 .. Len(a \o b) : (a \o b)[k] = from + k
<1>1. /\ a \o b \in Seq(Nat) /\ Len(a \o b) = Len(a) + Len(b)
      /\ \A k \in 1 .. Len(a) : (a \o b)[k] = a[k]
      /\ \A k \in 1 .. Len(b) : (a \o b)[Len(a) + k] = b[k]
  BY Concatenation
<1> DEFINE ab == a \o b
<1> HIDE DEF ab
<1>2. ASSUME NEW k \in 1 .. Len(ab) PROVE ab[k] = from + k
  <2>1. /\ Len(ab) = Len(a) + Len(b)
        /\ \A j \in 1 .. Len(a) : ab[j] = a[j]
        /\ \A j \in 1 .. Len(b) : ab[Len(a) + j] = b[j]
    BY <1>1 DEF ab
  <2>2. CASE k <= Len(a)
    BY <2>1, <2>2
  <2>3. CASE k > Len(a)
    <3>1. k - Len(a) \in 1 .. Len(b) /\ k = Len(a) + (k - Len(a))
      BY <2>1, <2>3
    <3>2. ab[Len(a) + (k - Len(a))] = b[k - Len(a)]
      BY <2>1, <3>1
    <3> QED BY <3>1, <3>2
  <2> QED BY <2>2, <2>3
<1> QED BY <1>1, <1>2 DEF ab

(* So does gathering one buffer's bytes into the one below.                 *)
LEMMA JoiningKeepsPlaces ==
    ASSUME NEW s \in Seq(Nat), NEW o \in Seq(Nat), NEW i \in Seq(Nat),
           Places(s, o, i)
    PROVE  /\ o \o i \in Seq(Nat) /\ Len(o \o i) = Len(o) + Len(i)
           /\ Places(s, o \o i, <<>>)
<1>1. /\ Len(s) \in Nat
      /\ \A k \in 1 .. Len(o) : o[k] = Len(s) + k
      /\ \A k \in 1 .. Len(i) : i[k] = Len(s) + Len(o) + k
  BY DEF Places
<1>2. /\ o \o i \in Seq(Nat) /\ Len(o \o i) = Len(o) + Len(i)
      /\ \A k \in 1 .. Len(o \o i) : (o \o i)[k] = Len(s) + k
  BY <1>1, JoinedFollow
<1> QED BY <1>2 DEF Places

(* Tracked's buffer takes bytes that are next in the file.                  *)
LEMMA AcceptKeepsPlaces ==
    ASSUME NEW b \in Seq(Nat), TypeInvariant, Places(sink, outer, b),
           Len(b) <= Capacity, Accept(b)
    PROVE  /\ sink' \in Seq(Nat) /\ outer' \in Seq(Nat)
           /\ Len(outer') <= Capacity
           /\ Len(sink') + Len(outer') = Len(sink) + Len(outer) + Len(b)
           /\ Places(sink', outer', <<>>)
           /\ error' = "no" /\ refused' = refused
<1>1. error' = "no" /\ refused' = refused
  BY DEF Accept, Track
<1>2. CASE Len(outer) + Len(b) <= Capacity
  <2>1. outer' = outer \o b /\ sink' = sink
    BY <1>2 DEF Accept
  <2> QED BY <1>1, <1>2, <2>1, JoiningKeepsPlaces DEF TypeInvariant
<1>3. CASE ~(Len(outer) + Len(b) <= Capacity)
  <2>1. outer' = b /\ sink' = sink \o SubSeq(outer, 1, Len(outer))
    BY <1>3 DEF Accept, DriveOut
  <2> DEFINE rest == SubSeq(outer, Len(outer) + 1, Len(outer))
  <2>2. /\ sink' \in Seq(Nat) /\ Len(sink') = Len(sink) + Len(outer)
        /\ Places(sink', rest, b) /\ Len(rest) = 0
    <3>1. outer \in Seq(Nat) /\ sink \in Seq(Nat) /\ Len(outer) \in 0 .. Len(outer)
      BY DEF TypeInvariant
    <3>2. /\ sink \o SubSeq(outer, 1, Len(outer)) \in Seq(Nat)
          /\ SubSeq(outer, Len(outer) + 1, Len(outer)) \in Seq(Nat)
          /\ Len(sink \o SubSeq(outer, 1, Len(outer))) = Len(sink) + Len(outer)
          /\ Len(SubSeq(outer, Len(outer) + 1, Len(outer))) = Len(outer) - Len(outer)
          /\ Places(sink \o SubSeq(outer, 1, Len(outer)),
                    SubSeq(outer, Len(outer) + 1, Len(outer)), b)
      BY <3>1, DrivingKeepsPlaces, Zenon
    <3>3. Len(outer) - Len(outer) = 0
      BY <3>1
    <3> QED BY <2>1, <3>2, <3>3
  <2>4. Places(sink', outer', <<>>)
    <3> HIDE DEF rest
    <3> QED BY <2>1, <2>2 DEF Places
  <2> QED BY <1>1, <2>1, <2>2, <2>4
<1> QED BY <1>2, <1>3

(* It refuses them with its own bytes, or what is left of them, in place.   *)
LEMMA DeclineKeepsPlaces ==
    ASSUME NEW b \in Seq(Nat), TypeInvariant, Places(sink, outer, b), Decline(b)
    PROVE  /\ sink' \in Seq(Nat) /\ outer' \in Seq(Nat)
           /\ Len(outer') <= Capacity
           /\ Places(sink', outer', b)
           /\ refused' \in RefusalKinds /\ error' \in RefusalKinds
<1>1. PICK n \in 0 .. Len(outer) - 1 :
          Refuse(n) /\ outer' = SubSeq(outer, n + 1, Len(outer))
  BY DEF Decline
<1>2. sink' = sink \o SubSeq(outer, 1, n) /\ n \in 0 .. Len(outer)
  BY <1>1 DEF Refuse, DriveOut, TypeInvariant
<1>3. refused' \in RefusalKinds /\ error' \in RefusalKinds
  BY <1>1 DEF Refuse, Decline, Track
<1>4. Capacity \in Nat
  BY OutputAssumption
<1>5. outer \in Seq(Nat) /\ sink \in Seq(Nat) /\ Len(outer) <= Capacity
  BY DEF TypeInvariant
<1>6. /\ sink \o SubSeq(outer, 1, n) \in Seq(Nat)
      /\ SubSeq(outer, n + 1, Len(outer)) \in Seq(Nat)
      /\ Len(sink \o SubSeq(outer, 1, n)) = Len(sink) + n
      /\ Len(SubSeq(outer, n + 1, Len(outer))) = Len(outer) - n
      /\ Places(sink \o SubSeq(outer, 1, n), SubSeq(outer, n + 1, Len(outer)), b)
  BY <1>2, <1>5, DrivingKeepsPlaces, Zenon
<1> QED BY <1>1, <1>2, <1>3, <1>4, <1>5, <1>6

LEMMA BytesAreInPlace ==
    ASSUME NEW from \in Nat, NEW size \in Nat
    PROVE  /\ Bytes(from, size) \in Seq(Nat) /\ Len(Bytes(from, size)) = size
           /\ \A k \in 1 .. size : Bytes(from, size)[k] = from + k
BY DEF Bytes

(* The next bytes to be written.                                            *)
LEMMA SizeFits ==
    ASSUME TypeInvariant, More
    PROVE  /\ Size \in Nat \ {0} /\ Size < Capacity
           /\ made + 1 \in 0 .. Len(job.sizes)
<1>1. job.sizes \in Seq(1 .. Capacity - 1) /\ Capacity \in Nat
  BY OutputAssumption DEF TypeInvariant
<1>2. made + 1 \in 1 .. Len(job.sizes)
  BY <1>1 DEF TypeInvariant, More
<1> QED BY <1>1, <1>2 DEF Size

------------------------------------------------------------------------------
LEMMA Lengths ==
    ASSUME TypeInvariant
    PROVE  /\ Len(sink) \in Nat /\ Len(outer) \in Nat /\ Len(inner) \in Nat
           /\ Len(job.sizes) \in Nat /\ at \in Nat /\ made \in Nat
           /\ Inner \in Nat /\ Capacity \in Nat /\ Inner < Capacity
<1>1. job.sizes \in Seq(1 .. Capacity - 1) /\ Inner < Capacity
  BY OutputAssumption DEF TypeInvariant
<1> QED BY <1>1, OutputAssumption DEF TypeInvariant

LEMMA InitIInv == Init => IInv
<1> SUFFICES ASSUME Init PROVE IInv
  OBVIOUS
<1>1. job \in Jobs /\ job.sizes \in Seq(1 .. Capacity - 1) /\ Capacity \in Nat
      /\ Inner \in Nat
  BY OutputAssumption DEF Init
<1>2. TypeInvariant
  <2>1. <<>> \in Seq(Nat) /\ Len(<<>>) = 0 /\ Len(job.sizes) \in Nat
    BY <1>1
  <2>2. failed \in BOOLEAN
    BY DEF Init
  <2>3. made \in 0 .. Len(job.sizes) /\ Len(inner) <= Inner /\ Len(outer) <= Capacity
    BY <1>1, <2>1 DEF Init
  <2> QED BY <1>1, <2>1, <2>2, <2>3 DEF Init, TypeInvariant
<1> QED BY <1>2 DEF Init, IInv, Placed, Places, Complete, Emptied, Told

LEMMA GatherStep == IInv /\ Gather => IInv'
<1> SUFFICES ASSUME IInv, Gather PROVE IInv'
  OBVIOUS
<1> USE DEF IInv
<1> DEFINE b == Bytes(at, Size)
<1>1. /\ inner' = inner \o b /\ made' = made + 1 /\ at' = at + Size
      /\ More /\ Len(inner) + Size <= Inner
      /\ UNCHANGED <<job, pc, outer, sink, error, refused, failed, result>>
  BY DEF Gather, Fits, Made
<1>2. Size \in Nat \ {0} /\ made + 1 \in 0 .. Len(job.sizes)
  BY <1>1, SizeFits
<1>3. b \in Seq(Nat) /\ Len(b) = Size /\ \A k \in 1 .. Size : b[k] = at + k
  BY <1>2, BytesAreInPlace DEF TypeInvariant
<1>4. pc = "write" /\ ~failed /\ result = "open" /\ refused = "no"
      /\ Len(sink) + Len(outer) + Len(inner) = at
  BY <1>1 DEF More, Emptied, Told, Complete
<1> HIDE DEF b
<1>5. /\ inner' \in Seq(Nat) /\ Len(inner') = Len(inner) + Size
      /\ \A k \in 1 .. Len(inner) : inner'[k] = inner[k]
      /\ \A k \in 1 .. Size : inner'[Len(inner) + k] = b[k]
  BY <1>1, <1>3, Concatenation DEF TypeInvariant
<1>6. TypeInvariant'
  BY <1>1, <1>2, <1>5 DEF TypeInvariant
<1>7. Placed'
  <2>1. ASSUME NEW k \in 1 .. Len(inner')
        PROVE  inner'[k] = Len(sink) + Len(outer) + k
    <3>1. CASE k \in 1 .. Len(inner)
      BY <3>1, <1>5 DEF Placed, Places
    <3>2. CASE k > Len(inner)
      <4>1. k - Len(inner) \in 1 .. Size /\ k = Len(inner) + (k - Len(inner))
        BY <1>2, <1>5, <3>2, Lengths
      <4>2. inner'[Len(inner) + (k - Len(inner))] = at + (k - Len(inner))
        BY <4>1, <1>3, <1>5
      <4> QED BY <4>1, <4>2, <1>4, Lengths
    <3> QED BY <3>1, <3>2, <1>2, <1>5, Lengths
  <2> QED BY <2>1, <1>1 DEF Placed, Places
<1>8. Complete'
  BY <1>1, <1>2, <1>4, <1>5, Lengths DEF Complete
<1>9. Emptied' /\ Told'
  BY <1>1, <1>4 DEF Emptied, Told
<1> QED BY <1>6, <1>7, <1>8, <1>9

LEMMA StraightStep == IInv /\ Straight => IInv'
<1> SUFFICES ASSUME IInv, Straight PROVE IInv'
  OBVIOUS
<1> USE DEF IInv
<1> DEFINE b == Bytes(at, Size)
<1>1. /\ More /\ inner = <<>> /\ inner' = <<>>
      /\ made' = made + 1 /\ at' = at + Size
      /\ UNCHANGED <<job, result>>
  BY DEF Straight, GoesStraight, Made
<1>2. /\ Size \in Nat \ {0} /\ Size < Capacity
      /\ made + 1 \in 0 .. Len(job.sizes) /\ Inner \in Nat /\ Capacity \in Nat
  BY <1>1, SizeFits, OutputAssumption
<1>3. b \in Seq(Nat) /\ Len(b) = Size /\ \A k \in 1 .. Size : b[k] = at + k
  BY <1>2, BytesAreInPlace DEF TypeInvariant
<1>4. pc = "write" /\ ~failed /\ result = "open" /\ refused = "no"
      /\ Len(sink) + Len(outer) = at
  BY <1>1 DEF More, Emptied, Told, Complete, TypeInvariant
<1>5. \/ Accept(b) /\ UNCHANGED <<pc, failed>>
      \/ Decline(b) /\ Fail
  BY DEF Straight
<1> HIDE DEF b
<1>6. Places(sink, outer, b)
  BY <1>3, <1>4 DEF Placed, Places, TypeInvariant
<1>7. CASE Accept(b) /\ UNCHANGED <<pc, failed>>
  <2>1. /\ sink' \in Seq(Nat) /\ outer' \in Seq(Nat)
        /\ Len(outer') <= Capacity
        /\ Len(sink') + Len(outer') = Len(sink) + Len(outer) + Len(b)
        /\ Places(sink', outer', <<>>)
        /\ error' = "no" /\ refused' = refused
    <3>1. Len(b) <= Capacity
      BY <1>2, <1>3
    <3> QED BY <1>3, <1>6, <1>7, <3>1, AcceptKeepsPlaces
  <2>2. TypeInvariant'
    BY <1>1, <1>2, <1>7, <2>1 DEF TypeInvariant
  <2>3. Placed' /\ Complete'
    <3>1. Len(inner') = 0 /\ Len(sink') \in Nat /\ Len(outer') \in Nat
      BY <1>1, <2>1
    <3> QED BY <1>1, <1>2, <1>3, <1>4, <1>7, <2>1, <3>1, Lengths DEF Placed, Complete
  <2>4. Emptied' /\ Told'
    BY <1>1, <1>4, <1>7 DEF Emptied, Told
  <2> QED BY <2>2, <2>3, <2>4
<1>8. CASE Decline(b) /\ Fail
  <2>1. /\ sink' \in Seq(Nat) /\ outer' \in Seq(Nat)
        /\ Len(outer') <= Capacity
        /\ Places(sink', outer', b)
        /\ refused' \in RefusalKinds /\ error' \in RefusalKinds
    BY <1>3, <1>6, <1>8, DeclineKeepsPlaces
  <2>2. pc' = "unwind" /\ failed' = TRUE
    BY <1>8 DEF Fail
  <2>3. TypeInvariant'
    BY <1>1, <1>2, <2>1, <2>2 DEF TypeInvariant
  <2>4. Placed' /\ Complete' /\ Emptied' /\ Told'
    BY <1>1, <1>4, <2>1, <2>2 DEF Placed, Places, Complete, Emptied, Told
  <2> QED BY <2>3, <2>4
<1> QED BY <1>5, <1>7, <1>8

LEMMA EmptyStep == IInv /\ Empty => IInv'
<1> SUFFICES ASSUME IInv, Empty PROVE IInv'
  OBVIOUS
<1> USE DEF IInv
<1>1. MustEmpty /\ UNCHANGED <<job, made, at, result>>
  BY DEF Empty
<1>2. pc = "write" /\ ~failed /\ result = "open" /\ refused = "no"
      /\ Len(sink) + Len(outer) + Len(inner) = at
  BY <1>1 DEF MustEmpty, More, Emptied, Told, Complete
<1>3. inner \in Seq(Nat) /\ Places(sink, outer, inner)
  BY DEF Placed, TypeInvariant
<1>4. Inner \in Nat /\ Capacity \in Nat /\ Inner < Capacity
  BY OutputAssumption DEF TypeInvariant
<1>5. CASE Accept(inner) /\ inner' = <<>> /\ UNCHANGED <<pc, failed>>
  <2>1. /\ sink' \in Seq(Nat) /\ outer' \in Seq(Nat)
        /\ Len(outer') <= Capacity
        /\ Len(sink') + Len(outer') = Len(sink) + Len(outer) + Len(inner)
        /\ Places(sink', outer', <<>>)
        /\ error' = "no" /\ refused' = refused
    <3> DEFINE b == inner
    <3>1. /\ b \in Seq(Nat) /\ Places(sink, outer, b) /\ Len(b) <= Capacity
          /\ Accept(b) /\ Len(b) = Len(inner)
      BY <1>3, <1>5, Lengths DEF TypeInvariant
    <3> HIDE DEF b
    <3> QED BY <3>1, AcceptKeepsPlaces
  <2>2. TypeInvariant'
    BY <1>1, <1>4, <1>5, <2>1 DEF TypeInvariant
  <2>3. Placed' /\ Complete'
    <3>1. Len(inner') = 0 /\ Len(sink') \in Nat /\ Len(outer') \in Nat
      BY <1>5, <2>1
    <3> QED BY <1>1, <1>2, <1>5, <2>1, <3>1 DEF Placed, Complete
  <2>4. Emptied' /\ Told'
    BY <1>1, <1>2, <1>5 DEF Emptied, Told
  <2> QED BY <2>2, <2>3, <2>4
<1>6. CASE Decline(inner) /\ UNCHANGED inner /\ Fail
  <2>1. /\ sink' \in Seq(Nat) /\ outer' \in Seq(Nat)
        /\ Len(outer') <= Capacity
        /\ Places(sink', outer', inner)
        /\ refused' \in RefusalKinds /\ error' \in RefusalKinds
    BY <1>3, <1>6, DeclineKeepsPlaces
  <2>2. pc' = "unwind" /\ failed' = TRUE
    BY <1>6 DEF Fail
  <2>3. TypeInvariant'
    BY <1>1, <1>6, <2>1, <2>2 DEF TypeInvariant
  <2>4. Placed' /\ Complete' /\ Emptied' /\ Told'
    BY <1>1, <1>2, <1>6, <2>1, <2>2 DEF Placed, Complete, Emptied, Told
  <2> QED BY <2>3, <2>4
<1> QED BY <1>5, <1>6 DEF Empty

LEMMA EndStep == IInv /\ End => IInv'
<1> SUFFICES ASSUME IInv, End PROVE IInv'
  OBVIOUS
<1> USE DEF IInv
<1>1. /\ pc = "write" /\ ~More
      /\ UNCHANGED <<job, made, at, inner, outer, sink, error, refused, failed, result>>
  BY DEF End
<1>2. TypeInvariant' /\ Placed'
  BY <1>1 DEF End, TypeInvariant, Placed
<1>3. made = Len(job.sizes)
  <2>1. job.sizes \in Seq(1 .. Capacity - 1)
    BY OutputAssumption DEF TypeInvariant
  <2> QED BY <1>1, <2>1 DEF More, TypeInvariant
<1>4. Complete'
  BY <1>1 DEF Complete
<1>5. Emptied' /\ Told'
  BY <1>1, <1>3 DEF End, Emptied, Told
<1> QED BY <1>2, <1>4, <1>5

(* A flush that succeeds empties Tracked's buffer, and is the only way to   *)
(* a good end; one that fails has driven out some of it.                    *)
LEMMA FlushStep == IInv /\ Flush => IInv'
<1> SUFFICES ASSUME IInv, Flush PROVE IInv'
  OBVIOUS
<1> USE DEF IInv
<1>1. /\ pc \in {"close", "flush"} /\ result = "open" /\ ~failed /\ refused = "no"
      /\ inner = <<>> /\ inner' = <<>> /\ UNCHANGED <<job, made, at, result>>
      /\ made = Len(job.sizes) /\ job.ending = "end" /\ Len(sink) + Len(outer) = at
  BY Lengths DEF Flush, Emptied, Told, Complete
<1>2. outer \in Seq(Nat) /\ sink \in Seq(Nat) /\ Places(sink, outer, <<>>)
      /\ <<>> \in Seq(Nat)
  BY <1>1 DEF Placed, TypeInvariant
<1>3. CASE /\ DriveOut(Len(outer)) /\ outer' = <<>>
           /\ Track("no")
           /\ pc' = IF pc = "close" THEN "flush" ELSE "unwind"
           /\ UNCHANGED <<refused, failed>>
  <2>1. sink' = sink \o SubSeq(outer, 1, Len(outer)) /\ error' = "no"
    BY <1>3 DEF DriveOut, Track
  <2>2. /\ sink' \in Seq(Nat) /\ Len(sink') = Len(sink) + Len(outer)
        /\ Places(sink', SubSeq(outer, Len(outer) + 1, Len(outer)), <<>>)
    <3>1. Len(outer) \in 0 .. Len(outer)
      BY Lengths
    <3>2. /\ sink \o SubSeq(outer, 1, Len(outer)) \in Seq(Nat)
          /\ SubSeq(outer, Len(outer) + 1, Len(outer)) \in Seq(Nat)
          /\ Len(sink \o SubSeq(outer, 1, Len(outer))) = Len(sink) + Len(outer)
          /\ Len(SubSeq(outer, Len(outer) + 1, Len(outer))) = Len(outer) - Len(outer)
          /\ Places(sink \o SubSeq(outer, 1, Len(outer)),
                    SubSeq(outer, Len(outer) + 1, Len(outer)), <<>>)
      BY <1>2, <3>1, DrivingKeepsPlaces, Zenon
    <3> QED BY <2>1, <3>2
  <2>3. TypeInvariant'
    BY <1>1, <1>2, <1>3, <2>1, <2>2, Lengths DEF TypeInvariant
  <2>4. Placed'
    BY <1>1, <1>3, <2>2 DEF Placed, Places
  <2>5. Complete'
    BY <1>1, <1>2, <1>3, <2>2, Lengths DEF Complete
  <2>6. Emptied' /\ Told'
    BY <1>1, <1>3 DEF Emptied, Told
  <2> QED BY <2>3, <2>4, <2>5, <2>6
<1>4. CASE /\ \E n \in 0 .. Len(outer) :
                 Refuse(n) /\ outer' = SubSeq(outer, n + 1, Len(outer))
           /\ Track(refused')
           /\ Fail
  <2>1. PICK n \in 0 .. Len(outer) :
            Refuse(n) /\ outer' = SubSeq(outer, n + 1, Len(outer))
    BY <1>4
  <2>2. sink' = sink \o SubSeq(outer, 1, n)
    BY <2>1 DEF Refuse, DriveOut
  <2>3. /\ sink' \in Seq(Nat) /\ outer' \in Seq(Nat)
        /\ Len(outer') = Len(outer) - n /\ Places(sink', outer', <<>>)
    <3>1. /\ sink \o SubSeq(outer, 1, n) \in Seq(Nat)
          /\ SubSeq(outer, n + 1, Len(outer)) \in Seq(Nat)
          /\ Len(sink \o SubSeq(outer, 1, n)) = Len(sink) + n
          /\ Len(SubSeq(outer, n + 1, Len(outer))) = Len(outer) - n
          /\ Places(sink \o SubSeq(outer, 1, n), SubSeq(outer, n + 1, Len(outer)), <<>>)
      BY <1>2, DrivingKeepsPlaces, Zenon
    <3> QED BY <2>1, <2>2, <3>1
  <2>4. /\ refused' \in RefusalKinds /\ error' \in RefusalKinds
        /\ pc' = "unwind" /\ failed' = TRUE
    BY <1>4, <2>1 DEF Refuse, Track, Fail
  <2>5. Len(outer') <= Capacity
    BY <2>3, Lengths DEF TypeInvariant
  <2>6. TypeInvariant'
    BY <1>1, <1>2, <2>3, <2>4, <2>5 DEF TypeInvariant
  <2>7. Placed' /\ Complete' /\ Emptied' /\ Told'
    BY <1>1, <2>3, <2>4 DEF Placed, Complete, Emptied, Told
  <2> QED BY <2>6, <2>7
<1> QED BY <1>3, <1>4 DEF Flush

(* A refusal's kind is none of the other results.                           *)
LEMMA OutcomeIsNoFalseOk ==
    ASSUME TypeInvariant, error' \in {"no"} \cup RefusalKinds,
           UNCHANGED <<job, failed>>
    PROVE  /\ Outcome \in {"ok", "parse", "other"} \cup RefusalKinds
           /\ Outcome = "ok" => job.ending = "end" /\ ~failed
           /\ Outcome # "open"
<1>1. "ok" \notin RefusalKinds /\ "open" \notin RefusalKinds
  BY OutputAssumption
<1>2. CASE job.ending = "parseError" /\ ~failed
  <2>1. Outcome = "parse"
    BY <1>2 DEF Outcome
  <2> QED BY <1>2, <2>1
<1>3. CASE job.ending = "end" /\ ~failed
  <2>1. Outcome = "ok"
    BY <1>3 DEF Outcome
  <2> QED BY <1>3, <2>1
<1>4. CASE /\ ~(job.ending = "parseError" /\ ~failed)
           /\ ~(job.ending = "end" /\ ~failed)
  <2>1. CASE error' # "no"
    <3>1. Outcome = error' /\ error' \in RefusalKinds
      BY <1>4, <2>1 DEF Outcome
    <3> QED BY <1>1, <3>1
  <2>2. CASE error' = "no"
    <3>1. Outcome = "other"
      BY <1>4, <2>2 DEF Outcome
    <3> QED BY <3>1
  <2> QED BY <2>1, <2>2
<1> QED BY <1>2, <1>3, <1>4

(* The format writer's buffer goes down once more, or is lost.              *)
LEMMA UnwindStep == IInv /\ Unwind => IInv'
<1> SUFFICES ASSUME IInv, Unwind PROVE IInv'
  OBVIOUS
<1> USE DEF IInv
<1>1. /\ pc = "unwind" /\ pc' = "drop" /\ inner' = <<>> /\ result' = Outcome
      /\ result = "open" /\ UNCHANGED <<job, made, at, failed>>
  BY DEF Unwind, Told
<1>2. inner \in Seq(Nat) /\ Places(sink, outer, inner) /\ Len(inner) <= Capacity
  BY Lengths DEF Placed, TypeInvariant
<1>3. /\ sink' \in Seq(Nat) /\ outer' \in Seq(Nat) /\ Len(outer') <= Capacity
      /\ Places(sink', outer', <<>>)
      /\ error' \in {"no"} \cup RefusalKinds
      /\ refused' \in {"no"} \cup RefusalKinds
  <2>1. CASE inner = <<>> /\ UNCHANGED <<outer, sink, error, refused>>
    BY <1>2, <2>1 DEF TypeInvariant, Placed
  <2> DEFINE b == inner
  <2>2. b \in Seq(Nat) /\ Places(sink, outer, b) /\ Len(b) <= Capacity
    BY <1>2
  <2>3. CASE Accept(b)
    <3> HIDE DEF b
    <3> QED BY <2>2, <2>3, AcceptKeepsPlaces DEF TypeInvariant
  <2>4. CASE Decline(b)
    <3> HIDE DEF b
    <3>1. /\ sink' \in Seq(Nat) /\ outer' \in Seq(Nat) /\ Len(outer') <= Capacity
          /\ Places(sink', outer', b)
          /\ refused' \in RefusalKinds /\ error' \in RefusalKinds
      BY <2>2, <2>4, DeclineKeepsPlaces
    <3> QED BY <3>1 DEF Places
  <2> QED BY <2>1, <2>3, <2>4 DEF Unwind
<1>4. /\ Outcome \in {"ok", "parse", "other"} \cup RefusalKinds
      /\ Outcome = "ok" => job.ending = "end" /\ ~failed
      /\ Outcome # "open"
  BY <1>1, <1>3, OutcomeIsNoFalseOk
<1>5. TypeInvariant'
  BY <1>1, <1>3, <1>4, Lengths DEF TypeInvariant
<1>6. Placed' /\ Complete' /\ Emptied'
  BY <1>1, <1>3, <1>4 DEF Placed, Complete, Emptied
<1>7. Told'
  <2>1. ASSUME result' = "ok"
        PROVE  /\ refused' = "no" /\ made' = Len(job'.sizes)
               /\ outer' = <<>> /\ Len(sink') = at'
    <3>1. job.ending = "end" /\ ~failed
      BY <1>1, <1>4, <2>1
    <3>2. /\ refused = "no" /\ made = Len(job.sizes)
          /\ inner = <<>> /\ outer = <<>> /\ Len(sink) = at
      BY <1>1, <3>1, Lengths DEF Complete, Emptied
    <3>3. UNCHANGED <<outer, sink, refused>>
      BY <3>2 DEF Unwind
    <3> QED BY <1>1, <3>2, <3>3
  <2> QED BY <1>1, <1>4, <2>1 DEF Told
<1> QED BY <1>5, <1>6, <1>7

(* Tracked's buffer goes with it.                                           *)
LEMMA DropStep == IInv /\ Drop => IInv'
<1> SUFFICES ASSUME IInv, Drop PROVE IInv'
  OBVIOUS
<1> USE DEF IInv
<1>1. /\ pc = "drop" /\ pc' = "done" /\ inner = <<>> /\ outer' = <<>>
      /\ UNCHANGED <<job, made, at, inner, error, failed, result>>
  BY DEF Drop, Emptied
<1>2. PICK n \in 0 .. Len(outer) :
          /\ sink' = sink \o SubSeq(outer, 1, n)
          /\ \/ UNCHANGED refused
             \/ outer # <<>> /\ refused' \in RefusalKinds
  <2>1. CASE DriveOut(Len(outer)) /\ UNCHANGED refused
    <3>1. Len(outer) \in 0 .. Len(outer)
      BY Lengths
    <3> QED BY <2>1, <3>1 DEF DriveOut
  <2>2. CASE \E n \in 0 .. Len(outer) - 1 : Refuse(n)
    <3>1. PICK n \in 0 .. Len(outer) - 1 : Refuse(n)
      BY <2>2
    <3>2. n \in 0 .. Len(outer) /\ outer # <<>>
      BY <3>1, Lengths
    <3> QED BY <3>1, <3>2 DEF Refuse, DriveOut
  <2> QED BY <2>1, <2>2 DEF Drop
<1>3. outer \in Seq(Nat) /\ sink \in Seq(Nat) /\ <<>> \in Seq(Nat)
      /\ Places(sink, outer, <<>>)
  BY <1>1 DEF TypeInvariant, Placed
<1>4. /\ sink' \in Seq(Nat) /\ Len(sink') = Len(sink) + n
      /\ Places(sink', SubSeq(outer, n + 1, Len(outer)), <<>>)
  <2>1. /\ sink \o SubSeq(outer, 1, n) \in Seq(Nat)
        /\ SubSeq(outer, n + 1, Len(outer)) \in Seq(Nat)
        /\ Len(sink \o SubSeq(outer, 1, n)) = Len(sink) + n
        /\ Len(SubSeq(outer, n + 1, Len(outer))) = Len(outer) - n
        /\ Places(sink \o SubSeq(outer, 1, n), SubSeq(outer, n + 1, Len(outer)), <<>>)
    BY <1>2, <1>3, DrivingKeepsPlaces, Zenon
  <2> QED BY <1>2, <2>1
<1>5. TypeInvariant'
  BY <1>1, <1>2, <1>3, <1>4, Lengths DEF TypeInvariant
<1>6. Placed'
  BY <1>1, <1>4 DEF Placed, Places
<1>7. Told' /\ Complete' /\ Emptied'
  <2>1. result = "ok" => refused' = "no" /\ Len(sink') = at
    BY <1>2, <1>4, Lengths DEF Told
  <2> QED BY <1>1, <2>1 DEF Told, Complete, Emptied
<1> QED BY <1>5, <1>6, <1>7

LEMMA StutterStep == IInv /\ UNCHANGED vars => IInv'
BY DEF IInv, vars, TypeInvariant, Placed, Complete, Emptied, Told

(* Every behaviour keeps the inductive invariant (writer.rs 166-195,        *)
(* 301-310).                                                                *)
THEOREM Invariant == Spec => []IInv
<1>1. IInv /\ [Next]_vars => IInv'
  BY GatherStep, StraightStep, EmptyStep, EndStep, FlushStep, UnwindStep,
     DropStep, StutterStep DEF Next
<1> QED BY InitIInv, <1>1, PTL DEF Spec

------------------------------------------------------------------------------
(* The variables keep their types, and neither buffer overflows (writer.rs  *)
(* 103-106).                                                                *)
THEOREM TypeCorrect == Spec => []TypeInvariant
<1>1. IInv => TypeInvariant
  BY DEF IInv
<1> QED BY Invariant, <1>1, PTL

(* Whatever the sizes of the writes and of the buffers, and however often   *)
(* the destination refuses and takes again, the bytes in it are the file's  *)
(* first (writer.rs 103-106, 166-167, 195).                                 *)
THEOREM BytesInOrder == Spec => []FirstBytes
<1>1. IInv => FirstBytes
  <2> SUFFICES ASSUME IInv PROVE FirstBytes
    OBVIOUS
  <2> DEFINE first == 0
  <2>1. /\ sink \in Seq(Nat) /\ outer \in Seq(Nat) /\ inner \in Seq(Nat)
        /\ \A k \in 1 .. Len(sink) : sink[k] = first + k
        /\ \A k \in 1 .. Len(outer) : outer[k] = first + Len(sink) + k
        /\ \A k \in 1 .. Len(inner) : inner[k] = first + (Len(sink) + Len(outer)) + k
        /\ first \in Nat
    BY Lengths DEF IInv, TypeInvariant, Placed, Places
  <2>2. /\ sink \o outer \in Seq(Nat)
        /\ Len(sink \o outer) = Len(sink) + Len(outer)
        /\ \A k \in 1 .. Len(sink \o outer) : (sink \o outer)[k] = first + k
    <3> HIDE DEF first
    <3> QED BY <2>1, JoinedFollow
  <2> DEFINE upper == sink \o outer
             all == upper \o inner
  <2>3. /\ all \in Seq(Nat)
        /\ \A k \in 1 .. Len(all) : all[k] = first + k
    <3>1. /\ upper \in Seq(Nat) /\ inner \in Seq(Nat)
          /\ \A k \in 1 .. Len(upper) : upper[k] = first + k
          /\ \A k \in 1 .. Len(inner) : inner[k] = first + Len(upper) + k
      BY <2>1, <2>2, Lengths DEF IInv
    <3> HIDE DEF upper, first
    <3> QED BY <2>1, <3>1, JoinedFollow
  <2>4. all = Bytes(0, Len(all))
    <3> HIDE DEF all
    <3> QED BY <2>3 DEF Bytes
  <2> QED BY <2>4 DEF FirstBytes
<1> QED BY Invariant, <1>1, PTL

(* A write that returns Ok has had nothing refused, and all of the file is  *)
(* in the destination (writer.rs 89-91, 118-127, 301-310).                  *)
THEOREM OkMeansAll == Spec => []OkIsAll
<1>1. IInv => OkIsAll
  <2> SUFFICES ASSUME IInv, result = "ok" PROVE OkIsAll
    BY DEF OkIsAll
  <2>1. refused = "no" /\ made = Len(job.sizes) /\ Len(sink) = at
    BY DEF IInv, Told
  <2>2. sink \in Seq(Nat) /\ \A k \in 1 .. Len(sink) : sink[k] = 0 + k
    BY DEF IInv, TypeInvariant, Placed, Places
  <2>3. sink = Bytes(0, at)
    BY <2>1, <2>2 DEF Bytes
  <2> QED BY <2>1, <2>3 DEF OkIsAll
<1> QED BY Invariant, <1>1, PTL
==============================================================================
