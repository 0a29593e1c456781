---------------------------- MODULE RowGroupsProofs ----------------------------
(***************************************************************************)
(* What holds of every Parquet write, for any rows, waves, groups' size    *)
(* and number of fields, and in whatever order fields are encoded and      *)
(* closed: the file has the row groups that a single writer makes.         *)
(***************************************************************************)
EXTENDS RowGroups, TLAPS, SequenceTheorems, NaturalsInduction, WellFoundedInduction

(* Where the loops are.  A group is full only on its way to the file; a     *)
(* wave is done with when all of its rows are sliced.                       *)
Placed ==
    /\ rows <= row
    /\ pc \in {"wave", "slice"} => rows < Limit
    /\ pc \in {"wave", "footer"} => batch = taken /\ row = BatchEnd
    /\ pc \in {"encode", "close"} /\ rows < Limit => batch = taken /\ row = BatchEnd
    /\ over => taken = Len(job.ends)
    /\ pc = "close" => rows > 0 /\ (rows < Limit => over /\ job.ending = "end")
    /\ pc = "footer" => over /\ job.ending = "end" /\ rows = 0

(* The rows of the current group: every field has them, or has them once    *)
(* the pieces are encoded into it.                                          *)
Current == RowsOf(row - rows + 1, rows)

Held == /\ encoded # {} => pc \in {"encode", "failed"}
        /\ pc \in {"wave", "close", "footer"} => pieces = <<>>
        /\ \A f \in Columns :
               IF f \in encoded THEN fields[f] = Current
               ELSE fields[f] \o pieces = Current

(* The columns of the group appended so far are the first fields'.          *)
Appended ==
    /\ closed \in Seq(Columns)
    /\ group # <<>> => pc \in {"close", "failed"}
    /\ Len(group) <= Fields
    /\ group = [f \in 1 .. Len(group) |-> [field |-> f, rows |-> fields[f]]]

(* The file's groups hold the rows before the current group's.              *)
InFile == Abstract!Grouped = row - rows

IInv == TypeInvariant /\ Placed /\ Held /\ Appended /\ InFile

------------------------------------------------------------------------------
LEMMA RowsType ==
    ASSUME NEW a \in Nat, NEW n \in Nat
    PROVE  /\ RowsOf(a, n) \in Seq(Nat) /\ Len(RowsOf(a, n)) = n
           /\ \A i \in 1 .. n : RowsOf(a, n)[i] = a + i - 1
<1>1. \A i \in 1 .. n : a + i - 1 \in Nat
  OBVIOUS
<1>2. RowsOf(a, n) \in [1 .. n -> Nat]
  BY <1>1 DEF RowsOf
<1>3. RowsOf(a, n) \in Seq(Nat)
  BY <1>2
<1>4. Len(RowsOf(a, n)) = n
  BY <1>2, <1>3, LenProperties
<1> QED
  BY <1>3, <1>4 DEF RowsOf

(* Rows that follow on others are, with them, consecutive.                  *)
LEMMA RowsMeet ==
    ASSUME NEW a \in Nat, NEW n \in Nat, NEW m \in Nat
    PROVE  RowsOf(a, n) \o RowsOf(a + n, m) = RowsOf(a, n + m)
<1> DEFINE s == RowsOf(a, n)
           t == RowsOf(a + n, m)
           u == RowsOf(a, n + m)
<1>1. /\ s \in Seq(Nat) /\ Len(s) = n /\ \A i \in 1 .. n : s[i] = a + i - 1
      /\ t \in Seq(Nat) /\ Len(t) = m /\ \A i \in 1 .. m : t[i] = a + n + i - 1
      /\ u \in Seq(Nat) /\ Len(u) = n + m /\ \A i \in 1 .. n + m : u[i] = a + i - 1
  <2>1. a + n \in Nat /\ n + m \in Nat
    OBVIOUS
  <2> QED
    BY <2>1, RowsType
<1> HIDE DEF s, t, u
<1>2. /\ s \o t \in Seq(Nat) /\ Len(s \o t) = n + m
      /\ \A i \in 1 .. n + m : (s \o t)[i] = IF i <= n THEN s[i] ELSE t[i - n]
  BY <1>1, ConcatProperties
<1>3. ASSUME NEW i \in 1 .. n + m PROVE (s \o t)[i] = u[i]
  <2>1. CASE i <= n
    <3>1. s[i] = a + i - 1
      BY <1>1, <2>1
    <3>2. u[i] = a + i - 1
      BY <1>1
    <3>3. (s \o t)[i] = s[i]
      BY <1>2, <2>1
    <3> QED BY <3>1, <3>2, <3>3
  <2>2. CASE ~(i <= n)
    <3>1. i - n \in 1 .. m
      BY <2>2
    <3>2. t[i - n] = a + n + (i - n) - 1
      BY <1>1, <3>1
    <3>3. u[i] = a + i - 1
      BY <1>1
    <3>4. (s \o t)[i] = t[i - n]
      BY <1>2, <2>2
    <3>5. a + n + (i - n) - 1 = a + i - 1
      OBVIOUS
    <3> QED BY <3>2, <3>3, <3>4, <3>5
  <2> QED BY <2>1, <2>2
<1>4. s \o t = u
  BY <1>1, <1>2, <1>3, SeqEqual
<1> QED
  BY <1>4 DEF s, t, u

LEMMA SmallestOf ==
    ASSUME NEW S \in SUBSET Nat, S # {}
    PROVE  \E m \in S : \A n \in S : m <= n
<1> DEFINE less == OpToRel(<, Nat)
<1>1. \A m, n \in Nat : m < n => <<m, n>> \in less
  BY DEF OpToRel
<1>2. \E m \in S : \A n \in S : ~ (<<n, m>> \in less)
  <2> HIDE DEF less
  <2>1. IsWellFoundedOn(less, Nat)
    BY NatLessThanWellFounded DEF less
  <2> QED BY <2>1, WFMin, Zenon
<1> HIDE DEF less
<1>3. PICK m \in S : \A n \in S : ~ (n < m)
  BY <1>1, <1>2
<1> QED
  BY <1>3

(* No batch ends past the last.                                             *)
LEMMA EndsGrow ==
    ASSUME NEW ends \in Seq(Nat), \A i \in 2 .. Len(ends) : ends[i - 1] <= ends[i],
           NEW i \in 1 .. Len(ends)
    PROVE  ends[i] <= ends[Len(ends)]
<1> DEFINE n == Len(ends)
           below == {k \in Nat : k < n /\ ~(ends[n - k] <= ends[n])}
<1>1. n \in Nat
  BY LenProperties
<1>2. \A k \in 1 .. n : ends[k] \in Nat
  OBVIOUS
<1>3. below = {}
  <2>1. SUFFICES ASSUME below # {} PROVE FALSE
    OBVIOUS
  <2>2. PICK k \in below : \A l \in below : k <= l
    BY <2>1, SmallestOf
  <2>3. k # 0 /\ k \in Nat /\ k < n
    BY <1>1, <1>2, <2>2
  <2>4. k - 1 \in Nat /\ k - 1 \notin below
    BY <2>2, <2>3
  <2>5. ends[n - (k - 1)] <= ends[n]
    BY <1>1, <2>3, <2>4
  <2>6. (n - k) + 1 \in 2 .. n
    BY <1>1, <2>3
  <2>7. ends[((n - k) + 1) - 1] <= ends[(n - k) + 1]
    BY <2>6
  <2>8. ((n - k) + 1) - 1 = n - k /\ (n - k) + 1 = n - (k - 1)
    BY <1>1, <2>3
  <2>9. ends[n - k] <= ends[n]
    <3>1. n - k \in 1 .. n /\ n - (k - 1) \in 1 .. n /\ n \in 1 .. n
      BY <1>1, <2>3
    <3> QED BY <1>2, <2>5, <2>7, <2>8, <3>1
  <2> QED
    BY <2>2, <2>9
<1>4. n - i \in Nat /\ n - i < n /\ n - (n - i) = i
  BY <1>1
<1> QED
  BY <1>3, <1>4

LEMMA JobFacts ==
    ASSUME TypeInvariant
    PROVE  /\ job.ends \in Seq(Nat) /\ Len(job.ends) \in Nat
           /\ job.ending \in {"end", "parseError"}
           /\ \A i \in 1 .. Len(job.ends) : job.ends[i] \in Nat
           /\ \A i \in 2 .. Len(job.ends) : job.ends[i - 1] <= job.ends[i]
           /\ taken \in Nat /\ batch \in Nat /\ BatchEnd \in Nat
           /\ row \in Nat /\ rows \in Nat
           /\ Limit \in Nat /\ Limit > 0 /\ WaveSize \in Nat /\ WaveSize > 0
           /\ Fields \in Nat /\ Fields > 0
<1>1. /\ job.ends \in Seq(Nat) /\ job.ending \in {"end", "parseError"}
      /\ \A i \in 2 .. Len(job.ends) : job.ends[i - 1] <= job.ends[i]
  BY RowsAssumption DEF TypeInvariant
<1>2. Len(job.ends) \in Nat /\ \A i \in 1 .. Len(job.ends) : job.ends[i] \in Nat
  BY <1>1, LenProperties
<1>3. taken \in Nat /\ batch \in Nat /\ taken <= Len(job.ends) /\ batch <= taken
  BY <1>2 DEF TypeInvariant
<1>4. BatchEnd \in Nat
  BY <1>2, <1>3 DEF BatchEnd
<1>5. row \in Nat /\ rows \in Nat
  BY <1>4, RowsAssumption DEF TypeInvariant
<1> QED
  BY <1>1, <1>2, <1>3, <1>4, <1>5, RowsAssumption

(* What was sliced is part of the input.                                    *)
LEMMA RowWithin == TypeInvariant => row <= Abstract!Total /\ Abstract!Total \in Nat
<1> SUFFICES ASSUME TypeInvariant PROVE row <= Abstract!Total /\ Abstract!Total \in Nat
  OBVIOUS
<1>1. row <= BatchEnd
  BY JobFacts DEF TypeInvariant
<1>2. CASE job.ends = <<>>
  <2>1. batch = 0
    BY <1>2, JobFacts DEF TypeInvariant
  <2> QED
    BY <1>1, <1>2, <2>1, JobFacts DEF BatchEnd, Abstract!Total
<1>3. CASE job.ends # <<>>
  <2>1. Len(job.ends) \in 1 .. Len(job.ends)
    BY <1>3, JobFacts, EmptySeq
  <2>2. Abstract!Total = job.ends[Len(job.ends)]
    BY <1>3 DEF Abstract!Total
  <2>3. batch # 0 => job.ends[batch] <= job.ends[Len(job.ends)]
    <3>1. batch # 0 => batch \in 1 .. Len(job.ends)
      BY JobFacts DEF TypeInvariant
    <3> QED
      BY <3>1, JobFacts, EndsGrow
  <2>4. job.ends[Len(job.ends)] \in Nat
    BY <2>1, JobFacts
  <2>5. BatchEnd <= job.ends[Len(job.ends)]
    BY <2>3, <2>4 DEF BatchEnd
  <2> QED
    BY <1>1, <2>2, <2>4, <2>5, JobFacts
<1> QED
  BY <1>2, <1>3

(* Once every batch is sliced, so is the input.                             *)
LEMMA AllSliced ==
    ASSUME TypeInvariant, batch = Len(job.ends), row = BatchEnd
    PROVE  row = Abstract!Total
<1>1. job.ends = <<>> <=> Len(job.ends) = 0
  BY JobFacts, EmptySeq
<1> QED
  BY <1>1 DEF BatchEnd, Abstract!Total

------------------------------------------------------------------------------
LEMMA InitIInv == Init => IInv
<1> SUFFICES ASSUME Init PROVE IInv
  OBVIOUS
<1> USE RowsAssumption DEF Init
<1>1. BatchEnd = 0 /\ \A j \in Jobs : Len(j.ends) \in Nat
  BY LenProperties DEF BatchEnd
<1>2. TypeInvariant
  <2>1. job.ends \in Seq(Nat) /\ Len(job.ends) \in Nat
    BY <1>1
  <2>2. ToSet(closed) = {}
    BY DEF ToSet
  <2>3. fields \in [Columns -> Seq(Nat)]
    BY DEF NewWriters
  <2>4. batch \in 0 .. taken /\ taken \in 0 .. Len(job.ends) /\ row \in 0 .. BatchEnd
    BY <1>1, <2>1
  <2>5. rows \in 0 .. Limit
    OBVIOUS
  <2>6. /\ pieces \in Seq(Nat) /\ group \in Seq([field : Columns, rows : Seq(Nat)])
        /\ groups \in Seq(Seq([field : Columns, rows : Seq(Nat)]))
    OBVIOUS
  <2> QED
    BY <2>2, <2>3, <2>4, <2>5, <2>6 DEF TypeInvariant
<1>3. Placed
  BY <1>1 DEF Placed
<1>4. Held
  <2>1. Current = <<>>
    BY RowsType, EmptySeq DEF Current
  <2>2. <<>> \o <<>> = <<>>
    OBVIOUS
  <2> QED
    BY <2>1, <2>2 DEF Held, NewWriters
<1>5. Appended
  BY DEF Appended
<1>6. InFile
  BY DEF InFile, Abstract!Grouped
<1> QED
  BY <1>2, <1>3, <1>4, <1>5, <1>6 DEF IInv

(* The steps that leave the group's rows and the file as they are.          *)
LEMMA SourceKeeps ==
    ASSUME UNCHANGED <<fields, pieces, encoded, fileVars>>, InFile,
           row' - rows' = row - rows
    PROVE  InFile'
BY DEF InFile, Abstract!Grouped, fileVars

LEMMA NextWaveInv == IInv /\ NextWave => IInv'
<1> SUFFICES ASSUME IInv, NextWave PROVE IInv'
  OBVIOUS
<1> USE DEF IInv
<1>1. /\ UNCHANGED <<job, batch, row, rows, pieces, fields, encoded>>
      /\ UNCHANGED <<closed, group, groups>>
      /\ pc = "wave" /\ pc' = "slice" /\ taken' = WaveEnd
      /\ over' = IF job.ending = "end" THEN taken' = taken
                 ELSE taken' < taken + WaveSize
  BY DEF NextWave, sliceVars, fileVars
<1>2. UNCHANGED <<BatchEnd, Current>>
  BY <1>1 DEF BatchEnd, Current
<1>3. /\ taken' \in taken .. Len(job.ends)
      /\ taken' < taken + WaveSize => taken' = Len(job.ends)
  <2>1. taken \in 0 .. Len(job.ends)
    BY DEF TypeInvariant
  <2> QED
    BY <1>1, <2>1, JobFacts DEF WaveEnd
<1>4. TypeInvariant'
  <2>1. over' \in BOOLEAN
    <3>1. CASE job.ending = "end"
      BY <1>1, <3>1, Zenon
    <3>2. CASE job.ending # "end"
      <4>1. over' = (taken' < taken + WaveSize)
        BY <1>1, <3>2
      <4>2. (taken' < taken + WaveSize) \in BOOLEAN
        BY <1>3, JobFacts
      <4> QED BY <4>1, <4>2
    <3> QED BY <3>1, <3>2
  <2>2. batch' \in 0 .. taken' /\ taken' \in 0 .. Len(job.ends)
    BY <1>1, <1>3, JobFacts DEF TypeInvariant
  <2> QED
    BY <1>1, <1>2, <2>1, <2>2 DEF TypeInvariant
<1>5. over' => taken' = Len(job.ends)
  <2>1. taken' = taken => taken' < taken + WaveSize
    BY JobFacts
  <2>2. over' => taken' < taken + WaveSize
    BY <1>1, <2>1, Zenon
  <2> QED
    BY <1>3, <2>2
<1>6. Placed'
  BY <1>1, <1>2, <1>5 DEF Placed
<1>7. Held' /\ Appended'
  BY <1>1, <1>2 DEF Held, Appended
<1>8. InFile'
  BY <1>1, SourceKeeps DEF fileVars
<1> QED
  BY <1>4, <1>6, <1>7, <1>8

LEMMA NextBatchInv == IInv /\ NextBatch => IInv'
<1> SUFFICES ASSUME IInv, NextBatch PROVE IInv'
  OBVIOUS
<1> USE DEF IInv
<1>1. /\ UNCHANGED <<job, taken, over, row, rows, pieces, fields, encoded>>
      /\ UNCHANGED <<closed, group, groups, pc>>
      /\ pc = "slice" /\ row = BatchEnd /\ batch < taken /\ batch' = batch + 1
  BY DEF NextBatch, sourceVars, fileVars
<1>2. UNCHANGED Current
  BY <1>1 DEF Current
<1>3. batch' \in 1 .. taken /\ batch' \in 1 .. Len(job.ends)
  <2>1. batch \in 0 .. taken /\ taken \in 0 .. Len(job.ends)
    BY DEF TypeInvariant
  <2> QED
    BY <1>1, <2>1, JobFacts
<1>4. BatchEnd' = job.ends[batch']
  BY <1>1, <1>3 DEF BatchEnd
<1>5. BatchEnd' \in Nat /\ BatchEnd <= BatchEnd'
  <2>1. CASE batch = 0
    BY <1>1, <1>3, <1>4, <2>1, JobFacts DEF BatchEnd
  <2>2. CASE batch # 0
    <3>1. batch' \in 2 .. Len(job.ends) /\ batch' - 1 = batch
      <4>1. \A b, n \in Nat :
                b # 0 /\ b + 1 \in 1 .. n => b + 1 \in 2 .. n /\ b + 1 - 1 = b
        OBVIOUS
      <4>2. batch \in Nat /\ Len(job.ends) \in Nat
        BY JobFacts DEF TypeInvariant
      <4>3. batch # 0 /\ batch + 1 \in 1 .. Len(job.ends)
        BY <1>1, <1>3, <2>2
      <4> QED
        BY <1>1, <4>1, <4>2, <4>3
    <3>2. job.ends[batch' - 1] <= job.ends[batch']
      BY <3>1, JobFacts
    <3> QED
      BY <1>3, <1>4, <2>2, <3>1, <3>2, JobFacts DEF BatchEnd
  <2> QED BY <2>1, <2>2
<1>6. row' \in 0 .. BatchEnd'
  BY <1>1, <1>5, JobFacts
<1>7. TypeInvariant'
  BY <1>1, <1>3, <1>6, JobFacts DEF TypeInvariant
<1>8. Placed'
  BY <1>1 DEF Placed
<1>9. Held' /\ Appended'
  BY <1>1, <1>2 DEF Held, Appended
<1>10. InFile'
  BY <1>1, SourceKeeps DEF fileVars
<1> QED
  BY <1>7, <1>8, <1>9, <1>10

(* A piece has a row at least, all of them of the batch, and fits the group.*)
LEMMA TakeFacts ==
    ASSUME TypeInvariant, Placed, pc = "slice", row < BatchEnd
    PROVE  /\ Take \in Nat /\ Take > 0
           /\ rows + Take <= Limit /\ row + Take <= BatchEnd
BY JobFacts DEF Take, Placed

LEMMA SlicePieceInv == IInv /\ SlicePiece => IInv'
<1> SUFFICES ASSUME IInv, SlicePiece PROVE IInv'
  OBVIOUS
<1> USE DEF IInv
<1>1. /\ UNCHANGED <<job, taken, over, batch, fields, encoded, closed, group, groups>>
      /\ pc = "slice" /\ row < BatchEnd /\ row' = row + Take /\ rows' = rows + Take
      /\ pieces' = pieces \o RowsOf(row + 1, Take)
      /\ pc' = IF rows' = Limit THEN "encode" ELSE "slice"
  BY DEF SlicePiece, sourceVars, fileVars
<1>2. UNCHANGED BatchEnd
  BY <1>1 DEF BatchEnd
<1>3. /\ Take \in Nat /\ Take > 0
      /\ rows + Take <= Limit /\ row + Take <= BatchEnd
  BY <1>1, TakeFacts
<1>4. /\ RowsOf(row + 1, Take) \in Seq(Nat)
      /\ pieces \in Seq(Nat) /\ pieces' \in Seq(Nat)
  <2>1. row + 1 \in Nat
    BY JobFacts
  <2>2. RowsOf(row + 1, Take) \in Seq(Nat)
    BY <1>3, <2>1, RowsType
  <2> QED
    BY <1>1, <2>2, ConcatProperties DEF TypeInvariant
<1>5. TypeInvariant'
  <2>1. row' \in 0 .. BatchEnd' /\ rows' \in 0 .. Limit
    BY <1>1, <1>2, <1>3, JobFacts
  <2> QED
    BY <1>1, <1>4, <2>1 DEF TypeInvariant
<1>6. Placed'
  <2>1. rows' <= row' /\ (rows' # Limit => rows' < Limit)
    BY <1>1, <1>3, JobFacts DEF Placed
  <2> QED
    BY <1>1, <2>1 DEF Placed
<1>7. Held'
  <2>1. encoded = {} /\ \A f \in Columns : fields[f] \o pieces = Current
    BY <1>1 DEF Held
  <2>2. Current' = Current \o RowsOf(row + 1, Take)
    <3>1. row' - rows' + 1 = row - rows + 1 /\ row + 1 = (row - rows + 1) + rows
      BY <1>1, <1>3, JobFacts
    <3>2. row - rows + 1 \in Nat
      BY JobFacts DEF Placed
    <3>3. RowsOf(row - rows + 1, rows) \o RowsOf((row - rows + 1) + rows, Take)
              = RowsOf(row - rows + 1, rows + Take)
      BY <1>3, <3>2, JobFacts, RowsMeet
    <3> QED
      BY <1>1, <3>1, <3>3 DEF Current
  <2>3. ASSUME NEW f \in Columns PROVE fields[f] \o pieces' = Current'
    <3>1. fields[f] \in Seq(Nat)
      BY DEF TypeInvariant
    <3>2. fields[f] \o pieces' = (fields[f] \o pieces) \o RowsOf(row + 1, Take)
      <4>1. (fields[f] \o pieces) \o RowsOf(row + 1, Take)
                = fields[f] \o (pieces \o RowsOf(row + 1, Take))
        <5>1. \A s, t, u \in Seq(Nat) : (s \o t) \o u = s \o (t \o u)
          BY ConcatAssociative
        <5> QED BY <1>4, <3>1, <5>1, Zenon
      <4> QED BY <1>1, <4>1
    <3> QED
      BY <2>1, <2>2, <3>2
  <2> QED
    BY <1>1, <2>1, <2>3 DEF Held
<1>8. Appended'
  BY <1>1 DEF Appended
<1>9. InFile'
  <2>1. row' - rows' = row - rows
    BY <1>1, <1>3, JobFacts
  <2> QED
    BY <1>1, <2>1 DEF InFile, Abstract!Grouped
<1> QED
  BY <1>5, <1>6, <1>7, <1>8, <1>9

LEMMA EndWaveInv == IInv /\ EndWave => IInv'
<1> SUFFICES ASSUME IInv, EndWave PROVE IInv'
  OBVIOUS
<1> USE DEF IInv
<1>1. /\ UNCHANGED <<job, taken, over, batch, row, rows, pieces, fields, encoded>>
      /\ UNCHANGED <<closed, group, groups>>
      /\ pc = "slice" /\ row = BatchEnd /\ batch = taken /\ pc' = "encode"
  BY DEF EndWave, sourceVars, sliceVars, fileVars
<1>2. UNCHANGED <<BatchEnd, Current>>
  BY <1>1 DEF BatchEnd, Current
<1>3. TypeInvariant' /\ Placed' /\ Held' /\ Appended'
  BY <1>1, <1>2 DEF TypeInvariant, Placed, Held, Appended
<1>4. InFile'
  BY <1>1, SourceKeeps DEF fileVars
<1> QED
  BY <1>3, <1>4

LEMMA EncodeFieldInv == ASSUME IInv, NEW f \in Columns, EncodeField(f) PROVE IInv'
<1> USE DEF IInv
<1>1. /\ UNCHANGED <<job, taken, over, batch, row, rows, pieces>>
      /\ UNCHANGED <<closed, group, groups, pc>>
      /\ pc = "encode" /\ f \notin encoded /\ encoded' = encoded \cup {f}
      /\ fields' = [fields EXCEPT ![f] = fields[f] \o pieces]
  BY DEF EncodeField, sourceVars, sliceVars, fileVars
<1>2. UNCHANGED <<BatchEnd, Current>>
  BY <1>1 DEF BatchEnd, Current
<1>3. /\ fields' \in [Columns -> Seq(Nat)]
      /\ \A g \in Columns : g # f => fields'[g] = fields[g]
  <2>1. fields[f] \o pieces \in Seq(Nat)
    BY ConcatProperties DEF TypeInvariant
  <2> QED
    BY <1>1, <2>1 DEF TypeInvariant
<1>4. TypeInvariant' /\ Placed'
  BY <1>1, <1>2, <1>3 DEF TypeInvariant, Placed
<1>5. Held'
  BY <1>1, <1>2, <1>3 DEF Held, TypeInvariant
<1>6. Appended'
  <2>1. group = <<>> /\ group' = <<>>
    BY <1>1 DEF Appended
  <2> QED
    BY <1>1, <2>1, RowsAssumption DEF Appended
<1>7. InFile'
  BY <1>1 DEF InFile, Abstract!Grouped
<1> QED
  BY <1>4, <1>5, <1>6, <1>7

LEMMA EncodeEndsInv == IInv /\ EncodeEnds => IInv'
<1> SUFFICES ASSUME IInv, EncodeEnds PROVE IInv'
  OBVIOUS
<1> USE DEF IInv
<1>1. /\ UNCHANGED <<job, taken, over, batch, row, rows, fields, closed, group, groups>>
      /\ pc = "encode" /\ encoded = Columns /\ encoded' = {} /\ pieces' = <<>>
      /\ pc' = IF rows = Limit THEN "close" ELSE "wave"
  BY DEF EncodeEnds, sourceVars, sliceVars, fileVars
<1>2. UNCHANGED <<BatchEnd, Current>>
  BY <1>1 DEF BatchEnd, Current
<1>3. TypeInvariant'
  BY <1>1, <1>2 DEF TypeInvariant
<1>4. Placed'
  <2>1. rows # Limit => rows < Limit
    BY JobFacts DEF TypeInvariant
  <2> QED
    BY <1>1, <1>2, <2>1, JobFacts DEF Placed
<1>5. Held'
  <2>1. \A f \in Columns : fields[f] \o <<>> = fields[f]
    BY ConcatEmptySeq DEF TypeInvariant
  <2> QED
    BY <1>1, <1>2, <2>1 DEF Held
<1>6. Appended'
  BY <1>1 DEF Appended
<1>7. InFile'
  BY <1>1 DEF InFile, Abstract!Grouped
<1> QED
  BY <1>3, <1>4, <1>5, <1>6, <1>7

LEMMA LastGroupInv == IInv /\ LastGroup => IInv'
<1> SUFFICES ASSUME IInv, LastGroup PROVE IInv'
  OBVIOUS
<1> USE DEF IInv
<1>1. /\ UNCHANGED <<job, taken, over, batch, row, rows, pieces, fields, encoded>>
      /\ UNCHANGED <<closed, group, groups>>
      /\ pc = "wave" /\ over
      /\ \/ job.ending = "parseError" /\ pc' = "parse"
         \/ job.ending = "end" /\ rows > 0 /\ pc' = "close"
         \/ job.ending = "end" /\ rows = 0 /\ pc' = "footer"
  BY JobFacts DEF LastGroup, LastGroupOpen, sourceVars, sliceVars, fileVars
<1>2. UNCHANGED <<BatchEnd, Current>>
  BY <1>1 DEF BatchEnd, Current
<1>3. TypeInvariant' /\ Placed' /\ Held' /\ Appended'
  BY <1>1, <1>2 DEF TypeInvariant, Ended, Placed, Held, Appended
<1>4. InFile'
  BY <1>1, SourceKeeps DEF fileVars
<1> QED
  BY <1>3, <1>4

LEMMA CloseColumnInv == ASSUME IInv, NEW f \in Columns, CloseColumn(f) PROVE IInv'
<1> USE DEF IInv
<1>1. /\ UNCHANGED <<job, taken, over, batch, row, rows, pieces, fields, encoded>>
      /\ UNCHANGED <<group, groups, pc>> /\ closed' = Append(closed, f)
  BY DEF CloseColumn, sourceVars, sliceVars
<1>2. UNCHANGED <<BatchEnd, Current>>
  BY <1>1 DEF BatchEnd, Current
<1>3. closed' \in Seq(Columns)
  BY <1>1 DEF Appended
<1>4. ToSet(closed') \subseteq Columns
  BY <1>3 DEF ToSet
<1>5. TypeInvariant' /\ Placed' /\ Held' /\ Appended'
  BY <1>1, <1>2, <1>3, <1>4 DEF TypeInvariant, Placed, Held, Appended
<1>6. InFile'
  BY <1>1 DEF InFile, Abstract!Grouped
<1> QED
  BY <1>5, <1>6

LEMMA AppendColumnInv == IInv /\ AppendColumn => IInv'
<1> SUFFICES ASSUME IInv, AppendColumn PROVE IInv'
  OBVIOUS
<1> USE DEF IInv
<1> DEFINE n == Len(group)
           next == [field |-> n + 1, rows |-> fields[n + 1]]
           upto(k) == [f \in 1 .. k |-> [field |-> f, rows |-> fields[f]]]
<1>1. group \in Seq([field : Columns, rows : Seq(Nat)]) /\ n \in Nat /\ n < Fields
  BY LenProperties DEF TypeInvariant, AppendColumn
<1>2. n + 1 \in Columns
  BY <1>1, JobFacts DEF Columns
<1>3. /\ UNCHANGED <<job, taken, over, batch, row, rows, pieces, fields, encoded>>
      /\ UNCHANGED <<closed, groups, pc>> /\ pc = "close"
      /\ group' = Append(group, next)
  BY <1>2 DEF AppendColumn, AppendOrder, sourceVars, sliceVars
<1>4. UNCHANGED <<BatchEnd, Current>>
  BY <1>3 DEF BatchEnd, Current
<1>5. next \in [field : Columns, rows : Seq(Nat)]
  BY <1>2 DEF TypeInvariant
<1>6. group' \in Seq([field : Columns, rows : Seq(Nat)]) /\ Len(group') = n + 1
  BY <1>1, <1>3, <1>5
<1>7. TypeInvariant' /\ Placed' /\ Held'
  BY <1>3, <1>4, <1>6 DEF TypeInvariant, Placed, Held
<1>8. group' = upto(n + 1)
  <2>1. ASSUME NEW f \in 1 .. n + 1 PROVE group'[f] = [field |-> f, rows |-> fields[f]]
    <3>1. CASE f = n + 1
      BY <1>1, <1>3, <3>1
    <3>2. CASE f # n + 1
      <4>1. f \in 1 .. n /\ group'[f] = group[f]
        BY <1>1, <1>3, <3>2
      <4>2. group = upto(n)
        BY DEF Appended
      <4>3. group[f] = [field |-> f, rows |-> fields[f]]
        BY <4>1, <4>2
      <4> QED BY <4>1, <4>3
    <3> QED BY <3>1, <3>2
  <2>2. DOMAIN group' = 1 .. n + 1
    BY <1>6
  <2>3. group' = [f \in DOMAIN group' |-> group'[f]]
    BY <1>6
  <2> QED BY <2>1, <2>2, <2>3
<1>9. Appended'
  BY <1>1, <1>3, <1>6, <1>8, JobFacts DEF Appended
<1>10. InFile'
  BY <1>3 DEF InFile, Abstract!Grouped
<1> QED
  BY <1>7, <1>9, <1>10

(* The group that is closed is whole: each field has all of its rows.       *)
LEMMA ClosedIsWhole ==
    ASSUME IInv, CloseGroup
    PROVE  AsOne(group) = [from |-> row - rows + 1, upto |-> row]
<1> USE DEF IInv
<1>1. /\ pc = "close" /\ Len(group) = Fields
      /\ rows \in Nat /\ row \in Nat /\ rows > 0 /\ rows <= row
  BY JobFacts DEF CloseGroup, Placed
<1>2. /\ Current \in Seq(Nat) /\ Len(Current) = rows
      /\ Current[1] = row - rows + 1 /\ Current[rows] = row
  <2>1. row - rows + 1 \in Nat /\ 1 \in 1 .. rows /\ rows \in 1 .. rows
    BY <1>1
  <2>2. /\ Current \in Seq(Nat) /\ Len(Current) = rows
        /\ \A i \in 1 .. rows : Current[i] = (row - rows + 1) + i - 1
    BY <1>1, <2>1, RowsType DEF Current
  <2> QED
    BY <1>1, <2>1, <2>2
<1>3. \A f \in Columns : fields[f] = Current
  <2>1. \A f \in Columns : fields[f] \o <<>> = fields[f]
    BY ConcatEmptySeq DEF TypeInvariant
  <2> QED
    BY <1>1, <2>1 DEF Held
<1>4. group = [f \in Columns |-> [field |-> f, rows |-> Current]]
  BY <1>1, <1>3 DEF Appended, Columns
<1>5. 1 \in Columns
  BY JobFacts DEF Columns
<1>6. group[1].rows = Current
  BY <1>4, <1>5
<1>7. Current # <<>> /\ Current = RowsOf(Current[1], Len(Current))
  BY <1>1, <1>2, EmptySeq DEF Current
<1> HIDE DEF Current
<1> QED
  BY <1>2, <1>4, <1>6, <1>7 DEF AsOne

Mapped == [g \in DOMAIN groups |-> AsOne(groups[g])]

LEMMA MappedGrows ==
    ASSUME IInv, groups' = Append(groups, group)
    PROVE  /\ Mapped' = Append(Mapped, AsOne(group))
           /\ Mapped' # <<>> /\ Mapped'[Len(Mapped')] = AsOne(group)
<1> DEFINE S == {AsOne(groups[g]) : g \in DOMAIN groups} \cup {AsOne(group)}
           n == Len(groups)
<1>1. groups \in Seq(Seq([field : Columns, rows : Seq(Nat)])) /\ n \in Nat
      /\ group \in Seq([field : Columns, rows : Seq(Nat)])
  BY LenProperties DEF IInv, TypeInvariant
<1>2. Mapped \in Seq(S) /\ Len(Mapped) = n
  <2>1. Mapped \in [1 .. n -> S]
    BY <1>1 DEF Mapped
  <2> HIDE DEF S
  <2>2. \A m \in Nat : \A s \in [1 .. m -> S] : s \in Seq(S)
    OBVIOUS
  <2>3. Mapped \in Seq(S)
    BY <1>1, <2>1, <2>2
  <2> QED
    BY <1>1, <2>1, <2>3, LenProperties
<1>3. /\ groups' \in Seq(Seq([field : Columns, rows : Seq(Nat)]))
      /\ Len(groups') = n + 1
      /\ \A g \in 1 .. n : groups'[g] = groups[g]
      /\ groups'[n + 1] = group
  BY <1>1
<1>4. Mapped' = [g \in 1 .. n + 1 |-> AsOne(groups'[g])]
  BY <1>1, <1>3 DEF Mapped, AsOne
<1> HIDE DEF S
<1>5. AsOne(group) \in S
  BY DEF S
<1>6. /\ Append(Mapped, AsOne(group)) \in Seq(S)
      /\ Len(Append(Mapped, AsOne(group))) = n + 1
      /\ \A g \in 1 .. n : Append(Mapped, AsOne(group))[g] = Mapped[g]
      /\ Append(Mapped, AsOne(group))[n + 1] = AsOne(group)
  BY <1>1, <1>2, <1>5
<1>7. \A g \in 1 .. n : Mapped[g] = AsOne(groups[g])
  BY <1>1 DEF Mapped
<1>8. \A g \in 1 .. n + 1 : AsOne(groups'[g]) = Append(Mapped, AsOne(group))[g]
  <2> TAKE g \in 1 .. n + 1
  <2>1. CASE g # n + 1
    <3>1. g \in 1 .. n
      BY <1>1, <2>1
    <3> QED BY <1>3, <1>6, <1>7, <3>1
  <2>2. CASE g = n + 1
    BY <1>3, <1>6, <2>2
  <2> QED BY <2>1, <2>2
<1>9. Append(Mapped, AsOne(group))
          = [g \in 1 .. n + 1 |-> Append(Mapped, AsOne(group))[g]]
  <2>1. \A s \in Seq(S) : s = [g \in 1 .. Len(s) |-> s[g]]
    OBVIOUS
  <2> QED BY <1>6, <2>1
<1>10. Mapped' = Append(Mapped, AsOne(group))
  BY <1>4, <1>8, <1>9
<1> QED
  BY <1>1, <1>6, <1>10, EmptySeq

LEMMA CloseGroupInv == IInv /\ CloseGroup => IInv'
<1> SUFFICES ASSUME IInv, CloseGroup PROVE IInv'
  OBVIOUS
<1> USE DEF IInv
<1>1. /\ UNCHANGED <<job, taken, over, batch, row, pieces, encoded>>
      /\ pc = "close" /\ rows' = 0
      /\ groups' = Append(groups, group) /\ group' = <<>> /\ closed' = <<>>
      /\ fields' = NewWriters
      /\ pc' = IF rows = Limit THEN "slice" ELSE "footer"
  BY DEF CloseGroup, sourceVars
<1>2. UNCHANGED BatchEnd
  BY <1>1 DEF BatchEnd
<1>3. TypeInvariant'
  <2>1. groups' \in Seq(Seq([field : Columns, rows : Seq(Nat)]))
    BY <1>1 DEF TypeInvariant
  <2>2. fields' \in [Columns -> Seq(Nat)]
    BY <1>1 DEF NewWriters
  <2>3. ToSet(closed') \subseteq Columns
    BY <1>1 DEF ToSet
  <2>4. rows' \in 0 .. Limit /\ group' \in Seq([field : Columns, rows : Seq(Nat)])
    BY <1>1, JobFacts
  <2> QED
    BY <1>1, <1>2, <2>1, <2>2, <2>3, <2>4 DEF TypeInvariant
<1>4. Placed'
  <2>1. rows # Limit => rows < Limit
    BY JobFacts DEF TypeInvariant
  <2> QED
    BY <1>1, <1>2, <2>1, JobFacts DEF Placed
<1>5. Held'
  <2>1. Current' = <<>>
    <3>1. row' - rows' + 1 \in Nat /\ rows' = 0
      BY <1>1, JobFacts
    <3>2. /\ Len(RowsOf(row' - rows' + 1, 0)) = 0
          /\ RowsOf(row' - rows' + 1, 0) \in Seq(Nat)
      BY <3>1, RowsType
    <3> QED
      BY <3>1, <3>2, EmptySeq DEF Current
  <2>2. <<>> \o <<>> = <<>>
    OBVIOUS
  <2>3. pieces = <<>> /\ encoded = {}
    BY <1>1 DEF Held
  <2> QED
    BY <1>1, <2>1, <2>2, <2>3 DEF Held, NewWriters
<1>6. Appended'
  BY <1>1, JobFacts DEF Appended
<1>7. InFile'
  <2>1. Abstract!Grouped' = AsOne(group).upto
    BY <1>1, MappedGrows DEF Abstract!Grouped, Mapped
  <2>2. AsOne(group).upto = row
    BY ClosedIsWhole
  <2> QED
    BY <1>1, <2>1, <2>2, JobFacts DEF InFile
<1> QED
  BY <1>3, <1>4, <1>5, <1>6, <1>7

LEMMA EndInv == IInv /\ (Close \/ WriteFails) => IInv'
<1> SUFFICES ASSUME IInv, Close \/ WriteFails PROVE IInv'
  OBVIOUS
<1> USE DEF IInv
<1>1. /\ UNCHANGED <<job, taken, over, batch, row, rows, pieces, fields, encoded>>
      /\ UNCHANGED <<closed, group, groups>>
      /\ (pc = "footer" /\ pc' = "closed") \/ pc' = "failed"
  BY DEF Close, WriteFails, sourceVars, sliceVars, fileVars
<1>2. UNCHANGED <<BatchEnd, Current>>
  BY <1>1 DEF BatchEnd, Current
<1>3. TypeInvariant' /\ Placed' /\ Held' /\ Appended'
  BY <1>1, <1>2 DEF TypeInvariant, Ended, Placed, Held, Appended
<1>4. InFile'
  BY <1>1, SourceKeeps DEF fileVars
<1> QED
  BY <1>3, <1>4

LEMMA NextIInv == IInv /\ [Next]_vars => IInv'
<1>1. IInv /\ UNCHANGED vars => IInv'
  <2> SUFFICES ASSUME IInv, UNCHANGED vars PROVE IInv'
    OBVIOUS
  <2>1. UNCHANGED <<BatchEnd, Current, Abstract!Grouped>>
    BY DEF BatchEnd, Current, Abstract!Grouped, vars
  <2>2. TypeInvariant' /\ Placed'
    BY <2>1 DEF IInv, TypeInvariant, Placed, vars
  <2> QED
    BY <2>1, <2>2 DEF IInv, Held, Appended, InFile, vars
<1> QED
  BY <1>1, NextWaveInv, NextBatchInv, SlicePieceInv, EndWaveInv, EncodeFieldInv,
     EncodeEndsInv, LastGroupInv, CloseColumnInv, AppendColumnInv, CloseGroupInv,
     EndInv DEF Next

LEMMA Invariance == Spec => []IInv
BY InitIInv, NextIInv, PTL DEF Spec

------------------------------------------------------------------------------
(* Of every write: its variables have their types, so no group ever has     *)
(* more rows than max_row_group_row_count and no row is sliced that the     *)
(* batch does not have (writer.rs 176-188).                                 *)
THEOREM TypeCorrect == Spec => []TypeInvariant
<1>1. IInv => TypeInvariant
  BY DEF IInv
<1> QED
  BY <1>1, Invariance, PTL

(* A group is added to the file when the single writer would: when its rows *)
(* are as many as asked for, or all that is left of an input that ends well.*)
LEMMA CloseGroupAdds ==
    ASSUME IInv, CloseGroup
    PROVE  Abstract!FullGroup \/ Abstract!LastGroup
<1> USE DEF IInv
<1>1. /\ pc = "close" /\ UNCHANGED job /\ groups' = Append(groups, group)
      /\ pc' = IF rows = Limit THEN "slice" ELSE "footer"
  BY DEF CloseGroup, sourceVars
<1>2. Mapped' = Append(Mapped, [from |-> row - rows + 1, upto |-> row])
  BY <1>1, MappedGrows, ClosedIsWhole
<1>3. Abstract!Grouped = row - rows
  BY DEF InFile
<1>4. /\ Abstract!Total \in Nat /\ row <= Abstract!Total /\ rows > 0
      /\ rows \in Nat /\ row \in Nat /\ Limit \in Nat /\ rows <= Limit
  BY <1>1, RowWithin, JobFacts DEF Placed, TypeInvariant
<1>5. Abstract!AddGroup(row)
  BY <1>1, <1>2, <1>3 DEF Abstract!AddGroup, Mapped, Ended
<1>6. CASE rows = Limit
  <2>1. Abstract!Grouped + Limit = row
    BY <1>3, <1>4, <1>6
  <2> QED
    BY <1>4, <1>5, <2>1 DEF Abstract!FullGroup
<1>7. CASE rows # Limit
  <2>1. rows < Limit
    BY <1>4, <1>7
  <2>2. over /\ job.ending = "end" /\ batch = Len(job.ends) /\ row = BatchEnd
    BY <1>1, <2>1 DEF Placed
  <2>3. row = Abstract!Total
    BY <2>2, AllSliced
  <2>4. Abstract!Grouped < row /\ row < Abstract!Grouped + Limit
    BY <1>3, <1>4, <2>1
  <2> QED
    BY <1>5, <2>2, <2>3, <2>4 DEF Abstract!LastGroup
<1> QED
  BY <1>6, <1>7

(* Every other step that is seen ends the write, and rightly.               *)
LEMMA StepMaps ==
    ASSUME IInv, [Next]_vars
    PROVE  [Abstract!Next]_(Abstract!fileVars)
<1> USE DEF IInv
<1>1. CASE CloseGroup
  BY <1>1, CloseGroupAdds DEF Abstract!Next
<1>2. CASE LastGroup
  <2>1. /\ UNCHANGED <<job, groups>> /\ pc = "wave" /\ over
        /\ \/ job.ending = "parseError" /\ pc' = "parse"
           \/ pc' \in {"close", "footer"}
    BY <1>2, JobFacts DEF LastGroup, sourceVars, fileVars
  <2>2. CASE pc' = "parse"
    <3>1. batch = Len(job.ends) /\ row = BatchEnd /\ rows < Limit
      BY <2>1 DEF Placed
    <3>2. Abstract!Total < Abstract!Grouped + Limit
      BY <3>1, AllSliced, JobFacts DEF InFile
    <3>3. Abstract!ParseError
      BY <2>1, <2>2, <3>2 DEF Abstract!ParseError, Abstract!End, Ended
    <3> QED BY <3>3 DEF Abstract!Next
  <2>3. CASE pc' # "parse"
    BY <2>1, <2>3 DEF Abstract!fileVars, Ended
  <2> QED BY <2>2, <2>3
<1>3. CASE Close
  <2>1. UNCHANGED <<job, groups>> /\ pc = "footer" /\ pc' = "closed"
    BY <1>3 DEF Close, sourceVars, fileVars
  <2>2. batch = Len(job.ends) /\ row = BatchEnd /\ rows = 0 /\ job.ending = "end"
    BY <2>1 DEF Placed
  <2>3. Abstract!Grouped = Abstract!Total
    BY <2>2, AllSliced, JobFacts DEF InFile
  <2>4. Abstract!Close
    BY <2>1, <2>2, <2>3 DEF Abstract!Close, Abstract!End, Ended
  <2> QED BY <2>4 DEF Abstract!Next
<1>4. CASE WriteFails
  <2>1. Abstract!End("failed")
    BY <1>4 DEF WriteFails, sourceVars, fileVars, Abstract!End, Ended
  <2> QED BY <2>1 DEF Abstract!Next
<1>5. ASSUME UNCHANGED <<job, groups>>, pc \notin Ended, pc' \notin Ended
      PROVE  UNCHANGED Abstract!fileVars
  BY <1>5 DEF Abstract!fileVars
<1>6. CASE NextWave \/ NextBatch \/ SlicePiece \/ EndWave \/ EncodeEnds \/ AppendColumn
  BY <1>5, <1>6 DEF NextWave, NextBatch, SlicePiece, EndWave, EncodeEnds, AppendColumn,
                    sourceVars, fileVars, Ended
<1>7. CASE \E f \in Columns : EncodeField(f) \/ CloseColumn(f)
  BY <1>5, <1>7 DEF EncodeField, CloseColumn, sourceVars, fileVars, Ended
<1>8. CASE UNCHANGED vars
  BY <1>8 DEF vars, Abstract!fileVars
<1> QED
  BY <1>1, <1>2, <1>3, <1>4, <1>6, <1>7, <1>8 DEF Next

(* Of every write: the file has the row groups that a single writer makes   *)
(* of the same rows, and ends as it would (writer.rs 154-155).              *)
THEOREM ImplementsOneWriter == Spec => WritesAsOneWriter
<1>1. Init => Abstract!Init
  BY DEF Init, Abstract!Init, Ended
<1> QED
  BY <1>1, StepMaps, Invariance, PTL DEF Spec, WritesAsOneWriter, Abstract!Spec

==============================================================================
