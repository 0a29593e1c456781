-------------------------- MODULE ParseByLayoutProofs --------------------------
(***************************************************************************)
(* What holds of every layout and every choice of columns, of any number of *)
(* fields and names: a layout is refused for its first fault and for no     *)
(* other, and a parser reads the columns asked for, each at its place. And  *)
(* of every unit parsed with them, in chunks of any size: the values are    *)
(* the unit's, and an error is placed at its byte and is the first of its   *)
(* column.                                                                  *)
(***************************************************************************)
EXTENDS ParseByLayout, TLAPS, SequenceTheorems

(* The schema's fields are the layout's first, and nothing is wrong with    *)
(* those.                                                                   *)
GoodField(field) ==
    /\ TypeOf(field) \in {"String", "Float64"}
    /\ field.position \in 1 .. U32Max /\ field.length \in 1 .. U32Max

Schema ==
    /\ job \in Jobs
    /\ fields \in Seq(Numbered) /\ Len(fields) <= Len(job.layout)
    /\ fields = [k \in 1 .. Len(fields) |-> FieldOf(job.layout[k])]
    /\ \A k \in 1 .. Len(fields) :
           /\ GoodField(job.layout[k])
           /\ \A i \in 1 .. k - 1 : job.layout[i].name # job.layout[k].name

(* Indexes that stand for names.                                            *)
StandFor(indexes, names) ==
    /\ indexes \in Seq(DOMAIN fields) /\ IsInjective(indexes)
    /\ Len(indexes) <= Len(names)
    /\ \A q \in 1 .. Len(indexes) : fields[indexes[q]].name = names[q]

(* The columns are the last call's, all of its names found, and what the    *)
(* call at hand has found are its first names.                              *)
Chosen ==
    /\ call \in 0 .. Len(job.calls)
    /\ IF call < Len(job.calls) THEN StandFor(picked, Names) ELSE picked = <<>>
    /\ IF call = 0 THEN columns = <<>>
       ELSE /\ columns = <<columns[1]>>
            /\ StandFor(columns[1], job.calls[call])
            /\ Len(columns[1]) = Len(job.calls[call])

(* How far the layout was read, and what was made of it.                    *)
Stage ==
    /\ pc \in {"schema", "columns", "done"}
    /\ pc = "schema" => call = 0 /\ picked = <<>>
    /\ pc # "done" => error = NoError /\ parser = <<>>
    /\ pc = "columns" \/ (pc = "done" /\ error = NoError) =>
           Len(fields) = Len(job.layout)
    /\ error # NoError => parser = <<>>
    /\ pc = "done" /\ error = NoError =>
           /\ call = Len(job.calls)
           /\ parser = IF columns = <<>> THEN fields
                       ELSE [k \in DOMAIN columns[1] |-> fields[columns[1][k]]]

LInv == Schema /\ Chosen /\ Stage /\ RefusesTheFirst

------------------------------------------------------------------------------
LEMMA JobFacts ==
    ASSUME job \in Jobs
    PROVE  /\ Len(job.layout) \in Nat /\ DOMAIN job.layout = 1 .. Len(job.layout)
           /\ \A k \in 1 .. Len(job.layout) :
                  job.layout[k].position \in Nat /\ job.layout[k].length \in Nat
           /\ Len(job.calls) \in Nat /\ (job.calls = <<>> <=> Len(job.calls) = 0)
           /\ \A c \in 1 .. Len(job.calls) : Len(job.calls[c]) \in Nat
<1>1. /\ job.layout \in Seq(ToSet(job.layout)) /\ job.calls \in Seq(ToSet(job.calls))
      /\ \A f \in ToSet(job.layout) : f.position \in Nat /\ f.length \in Nat
      /\ \A names \in ToSet(job.calls) : names \in Seq(ToSet(names))
  BY LayoutAssumption
<1>2. /\ Len(job.layout) \in Nat /\ DOMAIN job.layout = 1 .. Len(job.layout)
      /\ \A k \in 1 .. Len(job.layout) : job.layout[k] \in ToSet(job.layout)
  BY <1>1, LenProperties
<1>3. /\ Len(job.calls) \in Nat /\ (job.calls = <<>> <=> Len(job.calls) = 0)
      /\ \A c \in 1 .. Len(job.calls) : job.calls[c] \in ToSet(job.calls)
  BY <1>1, LenProperties, EmptySeq
<1>4. \A names \in ToSet(job.calls) : Len(names) \in Nat
  BY <1>1, LenProperties
<1> QED
  BY <1>1, <1>2, <1>3, <1>4

LEMMA FieldFacts ==
    ASSUME Schema
    PROVE  /\ Len(fields) \in Nat /\ DOMAIN fields = 1 .. Len(fields)
           /\ \A k \in 1 .. Len(fields) : fields[k] = FieldOf(job.layout[k])
BY LenProperties DEF Schema

LEMMA ChecksAre ==
    ASSUME NEW field
    PROVE  /\ DOMAIN Checks(field) = {1, 2, 3, 4}
           /\ Checks(field)[1].kind = "UnknownType"
           /\ Checks(field)[2].kind = "ZeroPosition"
           /\ Checks(field)[3].kind = "ZeroLength"
           /\ Checks(field)[4].kind = "DuplicateName"
           /\ Checks(field)[1].bad <=> TypeOf(field) \notin {"String", "Float64"}
           /\ Checks(field)[2].bad <=> field.position = 0
           /\ Checks(field)[3].bad <=> field.length = 0
           /\ Checks(field)[4].bad <=> AlreadyNamed(field.name)
<1>1. DOMAIN Checks(field) = {1, 2, 3, 4}
  <2>1. DOMAIN Checks(field) = 1 .. 4
    BY DEF Checks
  <2> QED BY <2>1
<1>2. /\ Checks(field)[1].kind = "UnknownType"
      /\ Checks(field)[2].kind = "ZeroPosition"
      /\ Checks(field)[3].kind = "ZeroLength"
      /\ Checks(field)[4].kind = "DuplicateName"
  BY DEF Checks
<1>3. Checks(field)[1].bad <=> TypeOf(field) \notin {"String", "Float64"}
  BY DEF Checks
<1>4. Checks(field)[2].bad <=> field.position = 0
  BY DEF Checks
<1>5. Checks(field)[3].bad <=> field.length = 0
  BY DEF Checks
<1>6. Checks(field)[4].bad <=> AlreadyNamed(field.name)
  BY DEF Checks
<1> QED
  BY <1>1, <1>2, <1>3, <1>4, <1>5, <1>6

LEMMA PassesIff ==
    ASSUME NEW field
    PROVE  Passes(field) <=> /\ TypeOf(field) \in {"String", "Float64"}
                             /\ field.position # 0 /\ field.length # 0
                             /\ ~AlreadyNamed(field.name)
BY ChecksAre, Zenon DEF Passes

(* A name is among the schema's fields if it is among the layout's before.  *)
LEMMA NamedBefore ==
    ASSUME Schema, NEW name
    PROVE  AlreadyNamed(name) <=> \E i \in 1 .. Len(fields) : job.layout[i].name = name
BY FieldFacts DEF AlreadyNamed, FieldOf

(* Nothing is wrong with the layout's fields that are in the schema.        *)
LEMMA GoodIsReadable ==
    ASSUME Schema, NEW k \in 1 .. Len(fields)
    PROVE  k \notin Unreadable
<1>1. /\ GoodField(job.layout[k])
      /\ \A i \in 1 .. k - 1 : job.layout[i].name # job.layout[k].name
  BY DEF Schema
<1>2. job.layout[k].type \in {"none", "String", "Float64"}
  BY <1>1 DEF GoodField, TypeOf
<1>3. job.layout[k].position # 0 /\ job.layout[k].length # 0
  BY <1>1 DEF GoodField
<1> QED
  BY <1>1, <1>2, <1>3 DEF Unreadable

(* The field rejected is the first of the layout that something is wrong    *)
(* with.                                                                    *)
LEMMA RejectedIsFirst ==
    ASSUME Schema, RejectField
    PROVE  /\ Unreadable # {} /\ Min(Unreadable) = Len(fields) + 1
           /\ error'.name = RawField.name
           /\ error'.kind \notin {"no", "SchemaJson"}
<1> DEFINE k == Len(fields) + 1
<1>1. /\ Len(fields) < Len(job.layout) /\ Len(fields) \in Nat /\ Len(job.layout) \in Nat
      /\ DOMAIN job.layout = 1 .. Len(job.layout)
  BY JobFacts, FieldFacts DEF RejectField, AtField, Schema
<1>2. k \in DOMAIN job.layout
  BY <1>1
<1>3. PICK c \in DOMAIN Checks(RawField) :
          Checks(RawField)[c].bad /\ Fail(Checks(RawField)[c].kind, RawField.name)
  BY DEF RejectField
<1>4. c \in {1, 2, 3, 4}
  BY ChecksAre
<1>5. ~Passes(RawField)
  BY <1>3, Zenon DEF Passes
<1>6. /\ error'.name = RawField.name
      /\ error'.kind \notin {"no", "SchemaJson"}
  <2>1. error' = [kind |-> Checks(RawField)[c].kind, name |-> RawField.name]
    BY <1>3 DEF Fail
  <2>2. Checks(RawField)[c].kind
            \in {"UnknownType", "ZeroPosition", "ZeroLength", "DuplicateName"}
    BY <1>4, ChecksAre
  <2> HIDE DEF RawField
  <2> QED BY <2>1, <2>2
<1>7. k \in Unreadable
  <2>1. RawField = job.layout[k]
    BY DEF RawField
  <2>2. CASE TypeOf(RawField) \notin {"String", "Float64"}
    BY <1>2, <2>1, <2>2 DEF Unreadable, TypeOf
  <2>3. CASE RawField.position = 0 \/ RawField.length = 0
    BY <1>2, <2>1, <2>3 DEF Unreadable
  <2>4. CASE AlreadyNamed(RawField.name)
    <3>1. PICK i \in 1 .. Len(fields) : job.layout[i].name = RawField.name
      BY <2>4, NamedBefore
    <3>2. i \in 1 .. k - 1
      BY <1>1
    <3> QED
      BY <1>2, <2>1, <3>1, <3>2 DEF Unreadable
  <2> QED
    BY <1>5, <2>2, <2>3, <2>4, PassesIff
<1>8. Unreadable \subseteq 1 .. Len(job.layout)
  BY <1>1 DEF Unreadable
<1>9. \A u \in Unreadable : k <= u
  BY <1>1, <1>8, GoodIsReadable
<1>10. Min(Unreadable) = k
  <2> DEFINE m == CHOOSE x \in Unreadable : \A y \in Unreadable : x <= y
  <2>1. m \in Unreadable /\ \A y \in Unreadable : m <= y
    BY <1>7, <1>9
  <2> HIDE DEF m
  <2>2. m \in Nat /\ k \in Nat
    BY <1>1, <1>8, <2>1
  <2>3. m <= k /\ k <= m
    BY <1>7, <1>9, <2>1
  <2>4. m = k
    BY <2>2, <2>3
  <2> QED
    BY <2>4 DEF m, Min
<1> QED
  BY <1>6, <1>7, <1>10

(* A schema that has all of the layout's fields has nothing wrong with it.  *)
LEMMA AllReadable ==
    ASSUME Schema, Len(fields) = Len(job.layout)
    PROVE  Unreadable = {}
BY JobFacts, GoodIsReadable DEF Unreadable, Schema

LEMMA NothingPicked == ASSUME NEW names, Len(names) \in Nat PROVE StandFor(<<>>, names)
BY DEF StandFor, IsInjective

LEMMA InitLInv == Init => LInv
<1> SUFFICES ASSUME Init PROVE LInv
  OBVIOUS
<1>1. /\ job \in Jobs /\ pc = "schema" /\ fields = <<>> /\ call = 0 /\ picked = <<>>
      /\ columns = <<>> /\ parser = <<>> /\ error = NoError
  BY DEF Init
<1>2. Schema
  <2>1. fields \in Seq(Numbered) /\ Len(fields) = 0 /\ Len(job.layout) \in Nat
    BY <1>1, JobFacts
  <2>2. fields = [k \in 1 .. Len(fields) |-> FieldOf(job.layout[k])]
    BY <1>1, <2>1
  <2> QED
    BY <1>1, <2>1, <2>2 DEF Schema
<1>3. Chosen
  <2>1. call < Len(job.calls) => Len(Names) \in Nat
    BY <1>1, JobFacts DEF Names
  <2> QED
    BY <1>1, <2>1, JobFacts, NothingPicked DEF Chosen
<1>4. Stage /\ RefusesTheFirst
  BY <1>1 DEF Stage, RefusesTheFirst
<1> QED
  BY <1>2, <1>3, <1>4 DEF LInv

(* What is refused is refused for the field or the name at hand.            *)
LEMMA RefusalInv == LInv /\ (NotJson \/ RejectField \/ RejectName) => LInv'
<1> SUFFICES ASSUME LInv, NotJson \/ RejectField \/ RejectName PROVE LInv'
  OBVIOUS
<1> USE DEF LInv
<1>1. /\ UNCHANGED <<job, fields, call, picked, columns, parser>>
      /\ pc # "done" /\ pc' = "done"
  BY DEF NotJson, RejectField, RejectName, AtField, AtName, Fail
<1>2. error'.kind # "no" /\ error' # NoError
  <2>1. CASE NotJson
    BY <2>1 DEF NotJson, Fail, NoError
  <2>2. CASE RejectField
    BY <2>2, RejectedIsFirst DEF NoError
  <2>3. CASE RejectName
    BY <2>3 DEF RejectName, Fail, NoError
  <2> QED BY <2>1, <2>2, <2>3
<1>3. UNCHANGED <<Numbered, Names, Unreadable, RawField>>
  BY <1>1 DEF Numbered, Names, Unreadable, RawField
<1>4. Schema'
  BY <1>1, <1>3 DEF Schema, FieldOf, GoodField, TypeOf
<1>5. Chosen'
  BY <1>1, <1>3 DEF Chosen, StandFor
<1>6. Stage'
  BY <1>1, <1>2 DEF Stage
<1>7. RefusesTheFirst'
  <2>1. CASE NotJson
    BY <1>1, <2>1 DEF RefusesTheFirst, NotJson, Fail
  <2>2. CASE RejectField
    BY <1>1, <1>3, <2>2, RejectedIsFirst DEF RefusesTheFirst, RawField
  <2>3. CASE RejectName
    <3>1. Len(fields) = Len(job.layout)
      BY <2>3 DEF RejectName, AtName, Stage
    <3> QED
      BY <1>1, <1>3, <3>1, AllReadable DEF RefusesTheFirst
  <2> QED BY <2>1, <2>2, <2>3
<1> QED
  BY <1>4, <1>5, <1>6, <1>7

LEMMA AddFieldInv == LInv /\ AddField => LInv'
<1> SUFFICES ASSUME LInv, AddField PROVE LInv'
  OBVIOUS
<1> USE DEF LInv
<1> DEFINE n == Len(fields)
<1>1. /\ UNCHANGED <<job, pc, call, picked, columns, parser, error>>
      /\ fields' = Append(fields, FieldOf(RawField)) /\ Passes(RawField)
      /\ pc = "schema" /\ IsSchema /\ n < Len(job.layout)
  BY DEF AddField, AtField
<1>2. UNCHANGED <<Numbered, Names, Unreadable>>
  BY <1>1 DEF Numbered, Names, Unreadable
<1>3. /\ n \in Nat /\ n + 1 \in DOMAIN job.layout /\ RawField = job.layout[n + 1]
      /\ Len(job.layout) \in Nat
  BY <1>1, JobFacts, FieldFacts DEF RawField, Schema
<1>4. GoodField(RawField)
  <2>1. RawField.position \in Nat /\ RawField.length \in Nat
    BY <1>3, JobFacts DEF Schema
  <2>2. RawField.position <= U32Max /\ RawField.length <= U32Max
    BY <1>1, <1>3 DEF IsSchema, FitsRawField
  <2> QED
    BY <1>1, <2>1, <2>2, PassesIff, LayoutAssumption DEF GoodField
<1>5. FieldOf(RawField) \in Numbered
  <2>1. /\ RawField.position - 1 \in 0 .. UsizeMax /\ RawField.length \in 1 .. UsizeMax
        /\ TypeOf(RawField) \in {"String", "Float64"}
    BY <1>4, LayoutAssumption DEF GoodField
  <2>2. RawField.name \in {job.layout[k].name : k \in DOMAIN job.layout}
    BY <1>3
  <2> QED
    BY <2>1, <2>2 DEF FieldOf, Numbered
<1>6. /\ fields' \in Seq(Numbered) /\ Len(fields') = n + 1
      /\ \A k \in 1 .. n : fields'[k] = fields[k]
      /\ fields'[n + 1] = FieldOf(RawField)
  BY <1>1, <1>5 DEF Schema
<1>7. Schema'
  <2>1. \A k \in 1 .. n + 1 : fields'[k] = FieldOf(job.layout[k])
    <3> TAKE k \in 1 .. n + 1
    <3>1. CASE k = n + 1
      BY <1>3, <1>6, <3>1
    <3>2. CASE k # n + 1
      <4>1. k \in 1 .. n
        BY <1>3, <3>2
      <4> QED BY <1>6, <4>1, FieldFacts
    <3> QED BY <3>1, <3>2
  <2>2. fields' = [k \in 1 .. n + 1 |-> FieldOf(job.layout[k])]
    <3>1. \A s \in Seq(Numbered) : s = [k \in 1 .. Len(s) |-> s[k]]
      OBVIOUS
    <3> QED BY <1>6, <2>1, <3>1
  <2>3. ASSUME NEW k \in 1 .. n + 1
        PROVE  /\ GoodField(job.layout[k])
               /\ \A i \in 1 .. k - 1 : job.layout[i].name # job.layout[k].name
    <3>1. CASE k = n + 1
      <4>1. ~AlreadyNamed(RawField.name)
        BY <1>1, PassesIff
      <4>2. \A i \in 1 .. n : job.layout[i].name # RawField.name
        BY <4>1, NamedBefore
      <4> QED BY <1>3, <1>4, <3>1, <4>2
    <3>2. CASE k # n + 1
      <4>1. k \in 1 .. n
        BY <1>3, <3>2
      <4> QED BY <4>1 DEF Schema
    <3> QED BY <3>1, <3>2
  <2>4. n + 1 <= Len(job.layout)
    BY <1>1, <1>3
  <2> HIDE DEF n
  <2> QED
    BY <1>1, <1>2, <1>6, <2>2, <2>3, <2>4 DEF Schema, FieldOf, GoodField, TypeOf
<1>8. Chosen'
  <2>1. call = 0 /\ picked = <<>> /\ columns = <<>>
    BY <1>1 DEF Stage, Chosen
  <2>2. ASSUME call < Len(job.calls) PROVE StandFor(picked, Names)'
    <3>1. Len(Names) \in Nat
      BY <2>1, <2>2, JobFacts DEF Names, Schema
    <3> QED
      BY <1>1, <1>2, <2>1, <3>1 DEF StandFor, IsInjective
  <2> QED
    BY <1>1, <1>2, <2>1, <2>2 DEF Chosen
<1>9. Stage' /\ RefusesTheFirst'
  BY <1>1 DEF Stage, RefusesTheFirst
<1> QED
  BY <1>7, <1>8, <1>9

LEMMA EndSchemaInv == LInv /\ EndSchema => LInv'
<1> SUFFICES ASSUME LInv, EndSchema PROVE LInv'
  OBVIOUS
<1>1. /\ UNCHANGED <<job, fields, call, picked, columns, parser, error>>
      /\ pc = "schema" /\ pc' = "columns" /\ Len(fields) = Len(job.layout)
  BY DEF EndSchema
<1>2. UNCHANGED <<Numbered, Names>>
  BY <1>1 DEF Numbered, Names
<1>3. Schema' /\ Chosen'
  BY <1>1, <1>2 DEF LInv, Schema, Chosen, StandFor, FieldOf, GoodField, TypeOf
<1>4. Stage' /\ RefusesTheFirst'
  BY <1>1 DEF LInv, Stage, RefusesTheFirst
<1> QED
  BY <1>3, <1>4 DEF LInv

LEMMA PickNameInv == LInv /\ PickName => LInv'
<1> SUFFICES ASSUME LInv, PickName PROVE LInv'
  OBVIOUS
<1> USE DEF LInv
<1>1. PICK column \in Found \ ToSet(picked) : picked' = Append(picked, column)
  BY DEF PickName
<1>2. /\ UNCHANGED <<job, pc, fields, call, columns, parser, error>>
      /\ pc = "columns" /\ call < Len(job.calls) /\ Len(picked) < Len(Names)
  BY DEF PickName, AtName
<1>3. UNCHANGED <<Numbered, Names>>
  BY <1>2 DEF Numbered, Names
<1>4. Schema'
  BY <1>2, <1>3 DEF Schema, FieldOf, GoodField, TypeOf
<1>5. StandFor(picked', Names)
  <2>1. StandFor(picked, Names) /\ Len(Names) \in Nat
    <3>1. call + 1 \in 1 .. Len(job.calls)
      BY <1>2, JobFacts DEF Chosen, Schema
    <3> QED
      BY <1>2, <3>1, JobFacts DEF Chosen, Names, Schema
  <2>2. /\ picked \in Seq(DOMAIN fields) /\ Len(picked) \in Nat
        /\ column \in DOMAIN fields /\ fields[column].name = Names[Len(picked) + 1]
    BY <1>1, <2>1, LenProperties DEF StandFor, Found, Name
  <2>3. /\ picked' \in Seq(DOMAIN fields) /\ Len(picked') = Len(picked) + 1
        /\ \A q \in 1 .. Len(picked) : picked'[q] = picked[q]
        /\ picked'[Len(picked) + 1] = column
    BY <1>1, <2>2
  <2>4. \A q \in 1 .. Len(picked) : picked[q] # column
    BY <1>1, <2>2 DEF ToSet
  <2>5. ASSUME NEW q \in 1 .. Len(picked), NEW r \in 1 .. Len(picked),
               picked[q] = picked[r]
        PROVE  q = r
    BY <2>1, <2>2, <2>5 DEF StandFor, IsInjective
  <2>6. IsInjective(picked')
    <3>1. DOMAIN picked' = 1 .. Len(picked) + 1
      BY <2>3
    <3>2. ASSUME NEW q \in 1 .. Len(picked) + 1, NEW r \in 1 .. Len(picked) + 1,
                 picked'[q] = picked'[r]
          PROVE  q = r
      <4>1. \A i \in 1 .. Len(picked) + 1 :
                i = Len(picked) + 1 \/ i \in 1 .. Len(picked)
        BY <2>2
      <4> QED
        BY <2>3, <2>4, <2>5, <3>2, <4>1
    <3> QED
      BY <3>1, <3>2 DEF IsInjective
  <2>7. ASSUME NEW q \in 1 .. Len(picked) + 1 PROVE fields[picked'[q]].name = Names[q]
    <3>1. CASE q = Len(picked) + 1
      BY <2>2, <2>3, <3>1
    <3>2. CASE q # Len(picked) + 1
      <4>1. q \in 1 .. Len(picked)
        BY <2>2, <3>2
      <4> QED BY <2>1, <2>3, <4>1 DEF StandFor
    <3> QED BY <3>1, <3>2
  <2>8. Len(picked') <= Len(Names)
    BY <1>2, <2>1, <2>2, <2>3
  <2> QED
    BY <2>3, <2>6, <2>7, <2>8 DEF StandFor
<1>6. Chosen'
  BY <1>2, <1>3, <1>5 DEF Chosen, StandFor
<1>7. Stage' /\ RefusesTheFirst'
  BY <1>2 DEF Stage, RefusesTheFirst
<1> QED
  BY <1>4, <1>6, <1>7

LEMMA EndCallInv == LInv /\ EndCall => LInv'
<1> SUFFICES ASSUME LInv, EndCall PROVE LInv'
  OBVIOUS
<1> USE DEF LInv
<1>1. /\ UNCHANGED <<job, pc, fields, parser, error>>
      /\ pc = "columns" /\ call < Len(job.calls) /\ Len(picked) = Len(Names)
      /\ columns' = <<picked>> /\ picked' = <<>> /\ call' = call + 1
  BY DEF EndCall, ColumnsAfter
<1>2. UNCHANGED Numbered
  BY <1>1 DEF Numbered
<1>3. Schema'
  BY <1>1, <1>2 DEF Schema, FieldOf, GoodField, TypeOf
<1>4. call' \in 1 .. Len(job.calls) /\ call + 1 \in 1 .. Len(job.calls)
  BY <1>1, JobFacts DEF Chosen, Schema
<1>5. StandFor(picked, Names) /\ Names = job.calls[call + 1]
  BY <1>1 DEF Chosen, Names
<1>6. /\ columns' = <<columns'[1]>> /\ columns'[1] = picked
      /\ job'.calls[call'] = Names
  BY <1>1, <1>5
<1>7. /\ StandFor(columns[1], job.calls[call])'
      /\ Len(columns'[1]) = Len(job'.calls[call'])
  <2>1. Len(columns'[1]) = Len(job'.calls[call'])
    BY <1>1, <1>6
  <2>2. StandFor(columns[1], job.calls[call])'
    BY <1>1, <1>5, <1>6 DEF StandFor
  <2> QED BY <2>1, <2>2
<1>8. ASSUME call' < Len(job.calls) PROVE StandFor(<<>>, Names')
  <2>1. call' + 1 \in 1 .. Len(job.calls)
    <3>1. \A c, n \in Nat : c \in 1 .. n /\ c < n => c + 1 \in 1 .. n
      OBVIOUS
    <3>2. Len(job.calls) \in Nat /\ call' \in Nat
      BY <1>4, JobFacts DEF Schema
    <3> QED
      BY <1>4, <1>8, <3>1, <3>2
  <2>2. Names' = job.calls[call' + 1]
    BY <1>1 DEF Names
  <2> QED
    BY <2>1, <2>2, JobFacts, NothingPicked DEF Schema
<1>9. Chosen'
  <2>1. call' # 0 /\ call' \in 0 .. Len(job'.calls)
    BY <1>1, <1>4
  <2>3. IF call' = 0 THEN columns' = <<>>
        ELSE /\ columns' = <<columns'[1]>>
             /\ StandFor(columns[1], job.calls[call])'
             /\ Len(columns'[1]) = Len(job'.calls[call'])
    BY <1>6, <1>7, <2>1
  <2>2. IF call' < Len(job'.calls) THEN StandFor(picked, Names)' ELSE picked' = <<>>
    <3>1. CASE call' < Len(job'.calls)
      BY <1>1, <1>8, <3>1 DEF StandFor
    <3>2. CASE ~(call' < Len(job'.calls))
      BY <1>1, <3>2
    <3> QED
      BY <3>1, <3>2
  <2> QED
    BY <2>1, <2>2, <2>3 DEF Chosen
<1>10. Stage' /\ RefusesTheFirst'
  BY <1>1 DEF Stage, RefusesTheFirst
<1> QED
  BY <1>3, <1>9, <1>10

LEMMA NewParserInv == LInv /\ NewParser => LInv'
<1> SUFFICES ASSUME LInv, NewParser PROVE LInv'
  OBVIOUS
<1> USE DEF LInv
<1>1. /\ UNCHANGED <<job, fields, call, picked, columns, error>>
      /\ pc = "columns" /\ pc' = "done" /\ call = Len(job.calls)
      /\ parser' = IF columns = <<>> THEN fields
                   ELSE [k \in DOMAIN columns[1] |-> fields[columns[1][k]]]
  BY DEF NewParser
<1>2. UNCHANGED <<Numbered, Names, Unreadable>>
  BY <1>1 DEF Numbered, Names, Unreadable
<1>3. Len(fields) = Len(job.layout) /\ error = NoError
  BY <1>1 DEF Stage
<1>4. Schema' /\ Chosen'
  BY <1>1, <1>2 DEF Schema, Chosen, StandFor, FieldOf, GoodField, TypeOf
<1>5. Stage'
  BY <1>1, <1>3 DEF Stage
<1>6. RefusesTheFirst'
  BY <1>1, <1>2, <1>3, AllReadable DEF RefusesTheFirst
<1> QED
  BY <1>4, <1>5, <1>6

LEMMA NextLInv == LInv /\ [Next]_vars => LInv'
<1>1. LInv /\ UNCHANGED vars => LInv'
  <2> SUFFICES ASSUME LInv, UNCHANGED vars PROVE LInv'
    OBVIOUS
  <2>1. UNCHANGED <<Numbered, Names, Unreadable>>
    BY DEF Numbered, Names, Unreadable, vars
  <2>2. Schema' /\ Chosen'
    BY <2>1 DEF LInv, Schema, Chosen, StandFor, FieldOf, GoodField, TypeOf, vars
  <2>3. Stage' /\ RefusesTheFirst'
    BY <2>1 DEF LInv, Stage, RefusesTheFirst, vars
  <2> QED
    BY <2>2, <2>3 DEF LInv
<1> QED
  BY <1>1, RefusalInv, AddFieldInv, EndSchemaInv, PickNameInv, EndCallInv,
     NewParserInv DEF Next

LEMMA LayoutInvariance == SpecAll => []LInv
<1>1. InitAll => LInv
  BY InitLInv DEF InitAll
<1>2. LInv /\ [NextAll]_<<vars, parseVars>> => LInv'
  BY NextLInv DEF NextAll, MakeParser, ParseUnit
<1> QED
  BY <1>1, <1>2, PTL DEF SpecAll

------------------------------------------------------------------------------
(* Of every layout: it is refused if and only if one of its fields cannot   *)
(* be read, and for the first that cannot, whatever is wrong with it and    *)
(* with those after it (schema.rs 38-63).                                   *)
THEOREM RefusedForTheFirst == SpecAll => []RefusesTheFirst
<1>1. LInv => RefusesTheFirst
  BY DEF LInv
<1> QED
  BY <1>1, LayoutInvariance, PTL

(* Two fields of a whole schema have two names, so only one has the name.   *)
LEMMA OneHasTheName ==
    ASSUME Schema, Len(fields) = Len(job.layout), NEW k \in 1 .. Len(fields)
    PROVE  {i \in DOMAIN job.layout : job.layout[i].name = job.layout[k].name} = {k}
<1>1. /\ Len(fields) \in Nat /\ DOMAIN job.layout = 1 .. Len(fields)
  BY JobFacts, FieldFacts DEF Schema
<1>2. \A i, j \in 1 .. Len(fields) : i < j => job.layout[i].name # job.layout[j].name
  BY <1>1 DEF Schema
<1> QED
  BY <1>1, <1>2

(* What a field of the schema gives the parser.                             *)
LEMMA FieldIsTheLayouts ==
    ASSUME Schema, NEW k \in 1 .. Len(fields)
    PROVE  /\ fields[k] = [name  |-> job.layout[k].name,
                           start |-> job.layout[k].position - 1,
                           len   |-> job.layout[k].length,
                           dtype |-> TypeOf(job.layout[k])]
           /\ fields[k].start + fields[k].len <= UsizeMax
<1>1. fields[k] = FieldOf(job.layout[k]) /\ GoodField(job.layout[k])
  BY FieldFacts DEF Schema
<1>2. U32Max \in Nat /\ UsizeMax \in Nat /\ 2 * U32Max <= UsizeMax
  BY LayoutAssumption
<1>3. \A p, l \in 1 .. U32Max : p - 1 + l <= UsizeMax
  BY <1>2
<1> QED
  BY <1>1, <1>3 DEF FieldOf, GoodField

LEMMA AskedIsRead == LInv => ReadsAsAsked
<1> SUFFICES ASSUME LInv, pc = "done", error = NoError
             PROVE  /\ Len(parser) = Len(Asked)
                    /\ \A p \in DOMAIN parser :
                          /\ \E k \in DOMAIN job.layout :
                                /\ {i \in DOMAIN job.layout :
                                       job.layout[i].name = Asked[p]} = {k}
                                /\ parser[p] = [name  |-> Asked[p],
                                       start |-> job.layout[k].position - 1,
                                       len   |-> job.layout[k].length,
                                       dtype |-> TypeOf(job.layout[k])]
                          /\ parser[p].start + parser[p].len <= UsizeMax
  BY Zenon DEF ReadsAsAsked
<1>1. /\ Schema /\ Len(fields) = Len(job.layout) /\ call = Len(job.calls)
      /\ DOMAIN job.layout = 1 .. Len(fields) /\ DOMAIN fields = 1 .. Len(fields)
      /\ parser = IF columns = <<>> THEN fields
                  ELSE [k \in DOMAIN columns[1] |-> fields[columns[1][k]]]
  BY JobFacts, FieldFacts DEF LInv, Stage, Schema
<1>2. CASE job.calls = <<>>
  <2>1. columns = <<>> /\ parser = fields
    BY <1>1, <1>2, JobFacts DEF LInv, Chosen, Schema
  <2>2. Asked = [k \in 1 .. Len(fields) |-> job.layout[k].name]
    BY <1>1, <1>2 DEF Asked
  <2>3. Len(parser) = Len(Asked)
    BY <1>1, <2>1, <2>2, FieldFacts
  <2>4. \A p \in 1 .. Len(fields) : Asked[p] = job.layout[p].name
    BY <2>2
  <2> QED
    BY <1>1, <2>1, <2>3, <2>4, OneHasTheName, FieldIsTheLayouts
<1>3. CASE job.calls # <<>>
  <2> DEFINE names == job.calls[call]
  <2>1. /\ call # 0 /\ names = Asked
    BY <1>1, <1>3, JobFacts DEF Asked, Last, Schema
  <2>2. /\ columns = <<columns[1]>> /\ StandFor(columns[1], names)
        /\ Len(columns[1]) = Len(names)
    BY <2>1 DEF LInv, Chosen
  <2>3. /\ columns # <<>>
        /\ columns[1] \in Seq(1 .. Len(fields))
        /\ \A q \in 1 .. Len(names) : fields[columns[1][q]].name = Asked[q]
    <3>1. columns # <<>>
      <4>1. \A x : <<x>> # <<>>
        OBVIOUS
      <4> QED BY <2>2, <4>1, Zenon
    <3>2. \A q \in 1 .. Len(columns[1]) : fields[columns[1][q]].name = names[q]
      BY <2>2 DEF StandFor
    <3>3. columns[1] \in Seq(DOMAIN fields)
      BY <2>2 DEF StandFor
    <3> HIDE DEF names
    <3> QED
      BY <1>1, <2>1, <2>2, <3>1, <3>2, <3>3
  <2>4. /\ DOMAIN columns[1] = 1 .. Len(names) /\ Len(names) \in Nat
        /\ \A q \in 1 .. Len(names) : columns[1][q] \in 1 .. Len(fields)
    BY <2>2, <2>3, LenProperties
  <2>5. parser = [q \in 1 .. Len(names) |-> fields[columns[1][q]]]
    BY <1>1, <2>3, <2>4
  <2>6. Len(parser) = Len(Asked) /\ DOMAIN parser = 1 .. Len(names)
    BY <2>1, <2>4, <2>5
  <2>7. ASSUME NEW p \in DOMAIN parser
        PROVE  /\ \E k \in DOMAIN job.layout :
                     /\ {i \in DOMAIN job.layout : job.layout[i].name = Asked[p]} = {k}
                     /\ parser[p] = [name  |-> Asked[p],
                            start |-> job.layout[k].position - 1,
                            len   |-> job.layout[k].length,
                            dtype |-> TypeOf(job.layout[k])]
               /\ parser[p].start + parser[p].len <= UsizeMax
    <3> DEFINE k == columns[1][p]
    <3>1. k \in 1 .. Len(fields) /\ parser[p] = fields[k] /\ fields[k].name = Asked[p]
      BY <2>3, <2>4, <2>5, <2>6, <2>7
    <3> HIDE DEF k
    <3>2. job.layout[k].name = Asked[p]
      <4>1. fields[k] = FieldOf(job.layout[k])
        BY <1>1, <3>1, FieldFacts
      <4>2. fields[k].name = job.layout[k].name
        BY <4>1 DEF FieldOf
      <4> QED BY <3>1, <4>2
    <3> QED
      BY <1>1, <3>1, <3>2, OneHasTheName, FieldIsTheLayouts
  <2> QED
    BY <2>6, <2>7
<1> QED
  BY <1>2, <1>3

(* Of every layout and however often with_columns is called: the parser     *)
(* reads the columns asked for last, in that order, each with the place and *)
(* type the one field of the layout with its name gives it, and an end that *)
(* does not overflow (options.rs 56-57, schema.rs 14-20, 77-86).            *)
THEOREM ColumnsAsAsked == SpecAll => []ReadsAsAsked
BY LayoutInvariance, AskedIsRead, PTL

LEMMA LayoutTypes == LInv => TypeInvariant
<1> SUFFICES ASSUME LInv PROVE TypeInvariant
  OBVIOUS
<1>1. /\ fields \in Seq(Numbered) /\ call \in 0 .. Len(job.calls)
      /\ pc \in {"schema", "columns", "done"}
      /\ DOMAIN fields = 1 .. Len(fields)
  BY FieldFacts DEF LInv, Schema, Chosen, Stage
<1>2. \A indexes, names : StandFor(indexes, names) =>
          /\ IsInjective(indexes) /\ ToSet(indexes) \subseteq DOMAIN fields
          /\ indexes \in Seq(DOMAIN fields)
  <2> TAKE indexes, names
  <2> HAVE StandFor(indexes, names)
  <2>1. IsInjective(indexes) /\ indexes \in Seq(DOMAIN fields)
    BY DEF StandFor
  <2>2. \A q \in DOMAIN indexes : indexes[q] \in DOMAIN fields
    BY <2>1
  <2> QED BY <2>1, <2>2 DEF ToSet
<1>3. IsInjective(picked) /\ ToSet(picked) \subseteq DOMAIN fields
  <2>1. IsInjective(<<>>) /\ ToSet(<<>>) = {}
    BY DEF IsInjective, ToSet
  <2> QED
    BY <1>2, <2>1 DEF LInv, Chosen
<1>4. \/ columns = <<>>
      \/ columns = <<columns[1]>> /\ \E names : StandFor(columns[1], names)
  BY DEF LInv, Chosen
<1>5. \A k \in DOMAIN columns :
          IsInjective(columns[k]) /\ ToSet(columns[k]) \subseteq DOMAIN fields
  <2>1. CASE columns = <<>>
    BY <2>1
  <2>2. CASE columns # <<>>
    <3>1. \A x : DOMAIN <<x>> = {1}
      OBVIOUS
    <3>2. DOMAIN columns = {1}
      BY <1>4, <2>2, <3>1, Zenon
    <3> QED
      BY <1>2, <1>4, <2>2, <3>2, Zenon
  <2> QED BY <2>1, <2>2
<1>6. parser \in Seq(Numbered)
  <2>1. CASE parser = <<>>
    BY <2>1, EmptySeq
  <2>2. CASE parser = fields
    BY <1>1, <2>2
  <2>3. CASE /\ columns # <<>>
             /\ parser = [k \in DOMAIN columns[1] |-> fields[columns[1][k]]]
    <3>1. columns[1] \in Seq(DOMAIN fields)
      BY <1>2, <1>4, <2>3
    <3>2. /\ DOMAIN columns[1] = 1 .. Len(columns[1]) /\ Len(columns[1]) \in Nat
          /\ \A k \in DOMAIN columns[1] : columns[1][k] \in DOMAIN fields
      BY <3>1, LenProperties
    <3>3. \A k \in DOMAIN fields : fields[k] \in Numbered
      BY <1>1
    <3>4. parser \in [1 .. Len(columns[1]) -> Numbered]
      BY <2>3, <3>2, <3>3
    <3>5. \A m \in Nat : \A s \in [1 .. m -> Numbered] : s \in Seq(Numbered)
      OBVIOUS
    <3> QED
      BY <3>2, <3>4, <3>5
  <2> QED
    BY <2>1, <2>2, <2>3 DEF LInv, Stage
<1> QED
  BY <1>1, <1>3, <1>5, <1>6 DEF TypeInvariant

(***************************************************************************)
(* Framing and sequences, of Columns                                       *)
(***************************************************************************)

(* What BothWaysProofs proves of framing.rs and of sequences, for any bytes:*)
(* the rest of that module is not meant, and its variables are no matter.   *)
Fr == INSTANCE BothWaysProofs WITH
    Jobs <- {}, NoLimit <- 0, job <- 0, pos <- 0, buf <- 0, offset <- 0, records <- 0,
    rowsLeft <- 0, atEnd <- 0, blocks <- 0, outcome <- 0, at <- 0, chunks <- 0, sliced <- 0

LEMMA FramingAssumptions ==
    /\ Fr!JobsAssumption /\ Fr!UsizeAssumption /\ Fr!SizesAssumption
    /\ Fr!MarkersDiffer
BY LayoutAssumption, ParseAssumption
   DEF Fr!JobsAssumption, Fr!UsizeAssumption, Fr!SizesAssumption, Fr!MarkersDiffer

(* Columns takes Framing's operators for its own: they are the same.        *)
LEMMA SameFraming ==
    ASSUME NEW s
    PROVE  /\ \A a, b : Parse!Slice(s, a, b) = Fr!Slice(s, a, b)
           /\ Parse!LineCount(s) = Fr!LineCount(s)
           /\ \A n : Parse!LineStart(s, n) = Fr!LineStart(s, n)
           /\ \A a : Parse!LineText(s, a) = Fr!LineText(s, a)
           /\ \A a, z : Parse!ChunkEnd(s, a, z) = Fr!ChunkEnd(s, a, z)
<1>1. \A t, a, b : Parse!Slice(t, a, b) = Fr!Slice(t, a, b)
  BY DEF Parse!Slice, Fr!Slice
<1>2. \A A : Parse!Cardinality(A) = Fr!Cardinality(A)
  BY DEF Parse!Cardinality, Fr!Cardinality
<1>3. Parse!LineStarts(s) = Fr!LineStarts(s)
  BY DEF Parse!LineStarts, Fr!LineStarts
<1>4. Parse!LineCount(s) = Fr!LineCount(s)
  BY <1>2, <1>3 DEF Parse!LineCount, Fr!LineCount
<1>5. \A n : Parse!LineStart(s, n) = Fr!LineStart(s, n)
  BY <1>3 DEF Parse!LineStart, Fr!LineStart, Parse!Cardinality, Fr!Cardinality
<1>6. \A a : Parse!LineFeeds(s, a) = Fr!LineFeeds(s, a)
  BY DEF Parse!LineFeeds, Fr!LineFeeds
<1>7. \A a : Parse!NextLineFeed(s, a) = Fr!NextLineFeed(s, a)
  BY DEF Parse!NextLineFeed, Fr!NextLineFeed, Parse!LineFeeds, Fr!LineFeeds
<1>8. \A a, b : Parse!Lesser(a, b) = Fr!Lesser(a, b)
  BY DEF Parse!Lesser, Fr!Lesser
<1>9. \A a : Parse!LineText(s, a) = Fr!LineText(s, a)
  <2> TAKE a
  <2> DEFINE e == IF Fr!LineFeeds(s, a) = {} THEN Len(s) ELSE Fr!NextLineFeed(s, a)
             line == Fr!Slice(s, a, e)
  <2>1. Parse!LineText(s, a) = IF line # <<>> /\ line[Len(line)] = CR
                               THEN Fr!Slice(line, 0, Len(line) - 1) ELSE line
    BY <1>1, <1>6, <1>7 DEF Parse!LineText
  <2>2. Fr!LineText(s, a) = IF line # <<>> /\ line[Len(line)] = CR
                            THEN Fr!Slice(line, 0, Len(line) - 1) ELSE line
    BY DEF Fr!LineText
  <2> QED BY <2>1, <2>2
<1>10. \A a, z : Parse!ChunkEnd(s, a, z) = Fr!ChunkEnd(s, a, z)
  BY <1>6, <1>7, <1>8 DEF Parse!ChunkEnd, Fr!ChunkEnd
<1> QED
  BY <1>1, <1>4, <1>5, <1>9, <1>10

(* Slices: their type, length and bytes.                                    *)
LEMMA SliceIs ==
    ASSUME NEW S, NEW s \in Seq(S), NEW a \in Nat, NEW b \in Nat, a <= b, b <= Len(s)
    PROVE  /\ Parse!Slice(s, a, b) \in Seq(S)
           /\ Len(Parse!Slice(s, a, b)) = b - a
           /\ \A i \in 1 .. b - a : Parse!Slice(s, a, b)[i] = s[a + i]
<1>1. /\ Fr!Slice(s, a, b) \in Seq(S)
      /\ Len(Fr!Slice(s, a, b)) = b - a
      /\ \A i \in 1 .. b - a : Fr!Slice(s, a, b)[i] = s[a + i]
  BY Fr!SliceType, FramingAssumptions
<1>2. Parse!Slice(s, a, b) = Fr!Slice(s, a, b)
  BY SameFraming
<1> QED
  BY <1>1, <1>2

(* A slice of a slice is a slice of the whole.                              *)
LEMMA PartOfSlice ==
    ASSUME NEW S, NEW s \in Seq(S), NEW a \in Nat, NEW b \in Nat, a <= b, b <= Len(s),
           NEW c \in Nat, NEW d \in Nat, c <= d, d <= b - a
    PROVE  Parse!Slice(Parse!Slice(s, a, b), c, d) = Parse!Slice(s, a + c, a + d)
<1>1. Fr!Slice(Fr!Slice(s, a, b), c, d) = Fr!Slice(s, a + c, a + d)
  BY Fr!SliceOfSlice, FramingAssumptions
<1>2. /\ Parse!Slice(s, a, b) = Fr!Slice(s, a, b)
      /\ Parse!Slice(s, a + c, a + d) = Fr!Slice(s, a + c, a + d)
  BY SameFraming
<1>3. Parse!Slice(Fr!Slice(s, a, b), c, d) = Fr!Slice(Fr!Slice(s, a, b), c, d)
  BY SameFraming
<1> QED
  BY <1>1, <1>2, <1>3

LEMMA CountType ==
    ASSUME NEW S, NEW s \in Seq(S)
    PROVE  Parse!LineCount(s) \in Nat
BY Fr!LineCountType, FramingAssumptions, SameFraming

(* Cut where a line starts, a unit has the lines of both its parts.         *)
LEMMA CountAtCut ==
    ASSUME NEW S, NEW s \in Seq(S), NEW a \in Nat, NEW b \in Nat, a <= b, b <= Len(s),
           a = 0 \/ s[a] = LF
    PROVE  Parse!LineCount(Parse!Slice(s, 0, b))
               = Parse!LineCount(Parse!Slice(s, 0, a)) + Parse!LineCount(Parse!Slice(s, a, b))
<1>1. Fr!LineCount(Fr!Slice(s, 0, b))
          = Fr!LineCount(Fr!Slice(s, 0, a)) + Fr!LineCount(Fr!Slice(s, a, b))
  BY Fr!LineCountAtCut, FramingAssumptions
<1> QED
  BY <1>1, SameFraming

(* A chunk is some bytes, and ends where a line or the unit does.           *)
LEMMA ChunkEndIs ==
    ASSUME NEW S, NEW s \in Seq(S), NEW a \in Nat, a < Len(s), NEW z \in Nat, z > 0
    PROVE  /\ Parse!ChunkEnd(s, a, z) \in Nat
           /\ a < Parse!ChunkEnd(s, a, z) /\ Parse!ChunkEnd(s, a, z) <= Len(s)
           /\ Parse!ChunkEnd(s, a, z) = Len(s) \/ s[Parse!ChunkEnd(s, a, z)] = LF
<1>1. /\ Fr!ChunkEnd(s, a, z) \in Nat
      /\ a < Fr!ChunkEnd(s, a, z) /\ Fr!ChunkEnd(s, a, z) <= Len(s)
  BY Fr!ChunkEndFacts, FramingAssumptions
<1>2. Fr!ChunkEnd(s, a, z) = Len(s) \/ s[Fr!ChunkEnd(s, a, z)] = LF
  BY Fr!ChunkEndsALine, FramingAssumptions
<1> QED
  BY <1>1, <1>2, SameFraming

(* A chunk's line is the unit's, as many lines further on.                  *)
LEMMA LineInUnit ==
    ASSUME NEW S, NEW s \in Seq(S), NEW a \in Nat, NEW b \in Nat, a <= b, b <= Len(s),
           a = 0 \/ s[a] = LF, b = Len(s) \/ s[b] = LF,
           NEW l \in 1 .. Parse!LineCount(Parse!Slice(s, a, b))
    PROVE  LET part == Parse!Slice(s, a, b)
               r    == Parse!LineCount(Parse!Slice(s, 0, a)) + l
           IN  /\ r \in 1 .. Parse!LineCount(s)
               /\ Parse!Lines(s)[r].at = a + Parse!Lines(part)[l].at
               /\ Parse!Lines(s)[r].text = Parse!Lines(part)[l].text
               /\ Parse!Lines(part)[l].at \in 0 .. b - a - 1
<1> DEFINE part == Parse!Slice(s, a, b)
           before == Parse!LineCount(Parse!Slice(s, 0, a))
           p == Parse!LineStart(part, l)
<1>1. /\ part = Fr!Slice(s, a, b) /\ before = Fr!LineCount(Fr!Slice(s, 0, a))
      /\ p = Fr!LineStart(Fr!Slice(s, a, b), l) /\ l \in 1 .. Fr!LineCount(Fr!Slice(s, a, b))
  BY SameFraming
<1>2. /\ before + l \in 1 .. Fr!LineCount(s)
      /\ Fr!LineStart(s, before + l) = a + p
      /\ Fr!LineText(s, a + p) = Fr!LineText(part, p)
      /\ p \in 0 .. b - a - 1
  <2>1. /\ Fr!LineCount(Fr!Slice(s, 0, a)) + l \in 1 .. Fr!LineCount(s)
        /\ Fr!LineStart(s, Fr!LineCount(Fr!Slice(s, 0, a)) + l)
               = a + Fr!LineStart(Fr!Slice(s, a, b), l)
        /\ Fr!LineText(s, a + Fr!LineStart(Fr!Slice(s, a, b), l))
               = Fr!LineText(Fr!Slice(s, a, b), Fr!LineStart(Fr!Slice(s, a, b), l))
        /\ Fr!LineStart(Fr!Slice(s, a, b), l) \in 0 .. b - a - 1
    BY <1>1, Fr!LineOfPart, FramingAssumptions
  <2> HIDE DEF part, before, p
  <2> QED BY <1>1, <2>1
<1>3. Parse!Lines(part)[l] = [at |-> p, text |-> Parse!LineText(part, p)]
  BY DEF Parse!Lines
<1>4. before + l \in 1 .. Parse!LineCount(s)
  BY <1>2, SameFraming
<1>5. Parse!Lines(s)[before + l]
          = [at   |-> Parse!LineStart(s, before + l),
             text |-> Parse!LineText(s, Parse!LineStart(s, before + l))]
  <2> HIDE DEF before
  <2> QED BY <1>4 DEF Parse!Lines
<1>6. /\ Parse!LineStart(s, before + l) = a + p
      /\ Parse!LineText(s, a + p) = Parse!LineText(part, p)
  BY <1>2, SameFraming, Zenon
<1> HIDE DEF part, before, p
<1>7. /\ before + l \in 1 .. Parse!LineCount(s)
      /\ Parse!Lines(s)[before + l].at = a + Parse!Lines(part)[l].at
      /\ Parse!Lines(s)[before + l].text = Parse!Lines(part)[l].text
      /\ Parse!Lines(part)[l].at \in 0 .. b - a - 1
  BY <1>2, <1>3, <1>4, <1>5, <1>6
<1> QED
  BY <1>7 DEF part, before

(* A line's text is a copy of the bytes from where it starts.               *)
LEMMA LineTextIs ==
    ASSUME NEW S, NEW s \in Seq(S), NEW a \in Nat, a <= Len(s)
    PROVE  LET t == Parse!LineText(s, a)
           IN  /\ t \in Seq(S) /\ a + Len(t) <= Len(s)
               /\ \A q \in 1 .. Len(t) : t[q] = s[a + q]
<1>1. Fr!LineText(s, a) \in Seq(S)
  BY Fr!LineTextType, FramingAssumptions
<1>2. a + Len(Fr!LineText(s, a)) <= Len(s)
  BY Fr!LineTextType, FramingAssumptions
<1>3. \A q \in 1 .. Len(Fr!LineText(s, a)) : Fr!LineText(s, a)[q] = s[a + q]
  BY Fr!LineTextType, FramingAssumptions
<1>4. Parse!LineText(s, a) = Fr!LineText(s, a)
  BY SameFraming
<1> QED
  BY <1>1, <1>2, <1>3, <1>4

LEMMA SameFlatten ==
    ASSUME NEW s
    PROVE  Parse!FlattenSeq(s) = Fr!FlattenSeq(s)
BY Zenon DEF Parse!FlattenSeq, Fr!FlattenSeq

LEMMA FlattenNone == Parse!FlattenSeq(<<>>) = <<>>
BY Fr!FlattenEmpty, FramingAssumptions, SameFlatten

(* One more sequence is flattened behind those before it.                   *)
LEMMA FlattenMore ==
    ASSUME NEW S, NEW s \in Seq(Seq(S)), NEW e \in Seq(S)
    PROVE  /\ Parse!FlattenSeq(s) \in Seq(S)
           /\ Parse!FlattenSeq(Append(s, e)) = Parse!FlattenSeq(s) \o e
BY Fr!FlattenType, Fr!FlattenAppend, FramingAssumptions, SameFlatten

(* What is the least of some offsets, and the greatest.                     *)
LEMMA MinIs ==
    ASSUME NEW S \in SUBSET Nat, NEW m \in S, \A y \in S : m <= y
    PROVE  Parse!Min(S) = m
<1> DEFINE c == CHOOSE x \in S : \A y \in S : x <= y
<1>1. c \in S /\ \A y \in S : c <= y
  OBVIOUS
<1>2. Parse!Min(S) = c
  BY DEF Parse!Min
<1> HIDE DEF c
<1>3. c <= m /\ m <= c /\ c \in Nat /\ m \in Nat
  BY <1>1
<1> QED
  BY <1>2, <1>3

LEMMA MaxIs ==
    ASSUME NEW S \in SUBSET Nat, NEW m \in S, \A y \in S : y <= m
    PROVE  Parse!Max(S) = m
<1> DEFINE c == CHOOSE x \in S : \A y \in S : x >= y
<1>0. \A y \in S : m >= y
  OBVIOUS
<1>1. c \in S /\ \A y \in S : c >= y
  BY <1>0
<1>2. Parse!Max(S) = c
  BY DEF Parse!Max
<1> HIDE DEF c
<1>3. c <= m /\ m <= c /\ c \in Nat /\ m \in Nat
  BY <1>1
<1> QED
  BY <1>2, <1>3

(* The least and the greatest of some offsets are among them.               *)
LEMMA Ends ==
    ASSUME NEW S \in SUBSET Nat, S # {}, NEW b \in Nat, \A y \in S : y <= b
    PROVE  /\ Parse!Min(S) \in S /\ \A y \in S : Parse!Min(S) <= y
           /\ Parse!Max(S) \in S /\ \A y \in S : y <= Parse!Max(S)
<1>1. PICK m \in S : \A y \in S : m <= y
  BY Fr!LeastOf, FramingAssumptions
<1>2. PICK n \in S : \A y \in S : y <= n
  BY Fr!GreatestOf, FramingAssumptions
<1> QED
  BY <1>1, <1>2, MinIs, MaxIs

(* The offsets that a line's field covers, from its start on, and that hold *)
(* no whitespace: the line's text is t, at offset a of u.                   *)
Kept(u, a, t, start, len) ==
    {p \in a + start .. a + start + len - 1 :
        p < a + Len(t) /\ u[p + 1] \notin Parse!Blank}

(* A part of a copy of some of u's bytes is a part of u.                   *)
LEMMA SliceOfCopy ==
    ASSUME NEW S, NEW u \in Seq(S), NEW b \in Nat, NEW t \in Seq(S),
           b + Len(t) <= Len(u), \A q \in 1 .. Len(t) : t[q] = u[b + q],
           NEW c \in Nat, NEW d \in Nat, c <= d, d <= Len(t)
    PROVE  Parse!Slice(t, c, d) = Parse!Slice(u, b + c, b + d)
<1> DEFINE e == b + c
           f == b + d
<1>1. /\ e \in Nat /\ f \in Nat /\ e <= f /\ f <= Len(u) /\ f - e = d - c
      /\ \A i \in 1 .. d - c : c + i \in 1 .. Len(t) /\ b + (c + i) = e + i
  BY LenProperties
<1> HIDE DEF e, f
<1>2. Parse!Slice(t, c, d) \in Seq(S)
  BY SliceIs
<1>3. Len(Parse!Slice(t, c, d)) = d - c
  BY SliceIs
<1>4. \A i \in 1 .. d - c : Parse!Slice(t, c, d)[i] = t[c + i]
  BY SliceIs
<1>5. Parse!Slice(u, e, f) \in Seq(S)
  BY <1>1, SliceIs
<1>6. Len(Parse!Slice(u, e, f)) = f - e
  BY <1>1, SliceIs
<1>7. \A i \in 1 .. f - e : Parse!Slice(u, e, f)[i] = u[e + i]
  BY <1>1, SliceIs
<1>8. \A i \in 1 .. d - c : Parse!Slice(t, c, d)[i] = Parse!Slice(u, e, f)[i]
  BY <1>1, <1>4, <1>7
<1>9. Len(Parse!Slice(u, e, f)) = d - c
  BY <1>1, <1>6
<1>10. Parse!Slice(t, c, d) = Parse!Slice(u, e, f)
  BY <1>2, <1>3, <1>5, <1>8, <1>9, SeqEqual
<1> QED
  BY <1>10 DEF e, f

(* The value v of a line at offset a of u is u's bytes from the first to    *)
(* the last of K, or nothing.                                               *)
CutOut(u, a, K, v) ==
    IF K = {} THEN v.bytes = <<>>
    ELSE /\ v.bytes = Parse!Slice(u, Parse!Min(K), Parse!Max(K) + 1)
         /\ a + v.at = Parse!Min(K)
         /\ Parse!Min(K) \in K /\ \A p \in K : Parse!Min(K) <= p
         /\ Parse!Max(K) \in K /\ \A p \in K : p <= Parse!Max(K)

(* A field's value is what is left of its bytes between the first and the   *)
(* last that is no whitespace, wherever the line is cut off.                *)
LEMMA ValueIs ==
    ASSUME NEW S, NEW u \in Seq(S), NEW a \in Nat, NEW t \in Seq(S),
           a + Len(t) <= Len(u), \A q \in 1 .. Len(t) : t[q] = u[a + q],
           NEW field, NEW start \in Nat, NEW len \in Nat, len > 0,
           field.start = start, field.len = len
    PROVE  CutOut(u, a, Kept(u, a, t, start, len), Parse!Value(t, field))
<1> DEFINE K == Kept(u, a, t, start, len)
           T == Len(t)
           from == Parse!Lesser(start, T)
           to == Parse!Lesser(start + len, T)
           raw == Parse!Slice(t, from, to)
           kept == {p \in DOMAIN raw : raw[p] \notin Parse!Blank}
<1>0. T \in Nat /\ Len(u) \in Nat
  BY LenProperties
<1>1. /\ from \in Nat /\ to \in Nat /\ from <= to /\ to <= T
      /\ from = start \/ (from = to /\ T < start)
      /\ to <= start + len
      /\ from = start => to = start + len \/ to = T
  <2> HIDE DEF T
  <2> QED BY <1>0 DEF Parse!Lesser
<1>2. /\ raw \in Seq(S) /\ Len(raw) = to - from
      /\ \A q \in 1 .. to - from : raw[q] = t[from + q]
  <2>1. from \in Nat /\ to \in Nat /\ from <= to /\ to <= Len(t)
    BY <1>1
  <2> HIDE DEF from, to
  <2>2. raw \in Seq(S)
    BY <2>1, SliceIs
  <2>3. Len(raw) = to - from
    BY <2>1, SliceIs
  <2>4. \A q \in 1 .. to - from : raw[q] = t[from + q]
    BY <2>1, SliceIs
  <2> QED BY <2>2, <2>3, <2>4
<1>3. /\ DOMAIN raw = 1 .. to - from
      /\ \A q \in 1 .. to - from : raw[q] = u[a + from + q]
  <2>1. from \in Nat /\ to \in Nat /\ from <= to /\ to <= T
    BY <1>1
  <2> HIDE DEF from, to, raw, T
  <2>2. \A q \in 1 .. to - from : from + q \in 1 .. T /\ a + (from + q) = a + from + q
    BY <1>0, <2>1
  <2>3. DOMAIN raw = 1 .. to - from
    BY <1>2, LenProperties
  <2>4. \A q \in 1 .. T : t[q] = u[a + q]
    BY DEF T
  <2> QED BY <1>2, <2>2, <2>3, <2>4
<1>4. Parse!Value(t, field)
          = [at |-> start + Parse!Trimmed(raw).at, bytes |-> Parse!Trimmed(raw).bytes]
  BY DEF Parse!Value, Parse!Raw
<1>5. Parse!Trimmed(raw)
          = IF kept = {} THEN [at |-> Len(raw), bytes |-> <<>>]
            ELSE [at    |-> Parse!Min(kept) - 1,
                  bytes |-> Parse!Slice(raw, Parse!Min(kept) - 1, Parse!Max(kept))]
  BY DEF Parse!Trimmed
<1> HIDE DEF from, to, raw, T
<1>6. \A p \in K : /\ from = start /\ p - a - from + 1 \in kept
                   /\ a + from + (p - a - from + 1) - 1 = p
  <2> SUFFICES ASSUME NEW p \in K
               PROVE  /\ from = start /\ p - a - from + 1 \in kept
                      /\ a + from + (p - a - from + 1) - 1 = p
    OBVIOUS
  <2>1. /\ p \in a + start .. a + start + len - 1
        /\ p < a + T /\ u[p + 1] \notin Parse!Blank
    BY DEF Kept, T
  <2> HIDE DEF kept, K
  <2>0. p \in Nat /\ a + start <= p /\ p < a + start + len
    BY <2>1
  <2>2. from = start
    BY <1>0, <1>1, <2>0, <2>1
  <2>4. to = start + len \/ to = T
    BY <1>1, <2>2
  <2>5. p < a + to /\ a + from <= p
    BY <1>0, <2>0, <2>1, <2>2, <2>4
  <2>3. /\ p - a - from + 1 \in 1 .. to - from
        /\ a + from + (p - a - from + 1) = p + 1
        /\ a + from + (p - a - from + 1) - 1 = p
    BY <1>1, <2>0, <2>5
  <2> QED BY <1>3, <2>1, <2>2, <2>3 DEF kept
<1>7. \A q \in kept : q \in 1 .. to - from /\ a + from + q - 1 \in K /\ from = start
  <2> SUFFICES ASSUME NEW q \in kept
               PROVE  /\ q \in 1 .. to - from /\ a + from + q - 1 \in K
                      /\ from = start
    OBVIOUS
  <2>1. q \in 1 .. to - from /\ raw[q] \notin Parse!Blank
    BY <1>3
  <2> HIDE DEF kept, K
  <2>4. q \in Nat /\ 1 <= q /\ from + q <= to
    BY <1>1, <2>1
  <2>5. from = start
    BY <1>1, <2>4
  <2>6. start + q <= T /\ start + q <= start + len
    BY <1>0, <1>1, <2>4, <2>5
  <2>2. /\ a + from + q - 1 < a + T
        /\ a + from + q - 1 \in a + start .. a + start + len - 1
        /\ (a + from + q - 1) + 1 = a + from + q
    BY <1>0, <2>4, <2>5, <2>6
  <2>3. u[(a + from + q - 1) + 1] \notin Parse!Blank
    BY <1>3, <2>1, <2>2
  <2> QED BY <2>1, <2>2, <2>3, <2>5 DEF Kept, T, K
<1>8. K = {} <=> kept = {}
  BY <1>6, <1>7
<1>9. CASE K = {}
  BY <1>4, <1>5, <1>8, <1>9 DEF CutOut
<1>10. CASE K # {}
  <2> DEFINE lo == Parse!Min(kept)
             hi == Parse!Max(kept)
  <2>1. kept \in SUBSET Nat /\ kept # {} /\ to - from \in Nat /\ \A q \in kept : q <= to - from
    <3>1. \A q \in kept : q \in Nat /\ q <= to - from
      BY <1>7
    <3>2. kept # {}
      BY <1>8, <1>10
    <3> HIDE DEF kept
    <3> QED BY <1>1, <3>1, <3>2
  <2>2. /\ lo \in kept /\ \A q \in kept : lo <= q
        /\ hi \in kept /\ \A q \in kept : q <= hi
    <3> HIDE DEF kept
    <3> QED BY <2>1, Ends
  <2> HIDE DEF kept
  <2>3. from = start /\ lo \in 1 .. to - from /\ hi \in 1 .. to - from /\ lo <= hi
    BY <1>7, <2>2
  <2> HIDE DEF lo, hi, K
  <2>4. K \in SUBSET Nat
    <3>1. \A p \in K : p \in Nat
      BY <1>1 DEF K, Kept
    <3> QED BY <3>1
  <2>5. /\ a + from + lo - 1 \in K /\ a + from + hi - 1 \in K
    BY <1>7, <2>2
  <2>0. lo \in Nat /\ hi \in Nat /\ 1 <= lo /\ hi <= to - from /\ lo <= hi
    BY <1>1, <2>3
  <2>6. \A p \in K : a + from + lo - 1 <= p /\ p <= a + from + hi - 1
    <3> TAKE p \in K
    <3>1. lo <= p - a - from + 1 /\ p - a - from + 1 <= hi
      BY <1>6, <2>2
    <3>2. p \in Nat
      BY <2>4
    <3> QED BY <1>1, <2>0, <3>1, <3>2
  <2>7. Parse!Min(K) = a + from + lo - 1 /\ Parse!Max(K) = a + from + hi - 1
    BY <2>4, <2>5, <2>6, MinIs, MaxIs
  <2>8. Parse!Slice(raw, lo - 1, hi) = Parse!Slice(u, a + from + lo - 1, a + from + hi)
    <3> DEFINE c == lo - 1
               b == a + from
    <3>1. c \in Nat /\ hi \in Nat /\ c <= hi /\ hi <= Len(raw)
      BY <1>1, <1>2, <2>0
    <3>2. b \in Nat /\ b + Len(raw) <= Len(u)
      BY <1>0, <1>1, <1>2 DEF T
    <3>3. /\ a + from + lo - 1 = b + c /\ a + from + hi = b + hi
      BY <1>1, <2>0
    <3>4. raw \in Seq(S) /\ \A q \in 1 .. Len(raw) : raw[q] = u[b + q]
      BY <1>2, <1>3
    <3> HIDE DEF b, c
    <3>5. Parse!Slice(raw, c, hi) = Parse!Slice(u, b + c, b + hi)
      BY <3>1, <3>2, <3>4, SliceOfCopy
    <3> QED
      BY <3>3, <3>5 DEF b, c
  <2>9. /\ (a + from + hi - 1) + 1 = a + from + hi
        /\ a + (start + (lo - 1)) = a + from + lo - 1
    BY <1>1, <2>0, <2>3
  <2>10. /\ Parse!Value(t, field).bytes = Parse!Slice(raw, lo - 1, hi)
         /\ Parse!Value(t, field).at = start + (lo - 1)
    BY <1>4, <1>5, <2>1 DEF lo, hi, kept
  <2>11. /\ Parse!Value(t, field).bytes = Parse!Slice(u, Parse!Min(K), Parse!Max(K) + 1)
         /\ a + Parse!Value(t, field).at = Parse!Min(K)
    BY <2>7, <2>8, <2>9, <2>10
  <2>12. /\ Parse!Min(K) \in K /\ \A p \in K : Parse!Min(K) <= p
         /\ Parse!Max(K) \in K /\ \A p \in K : p <= Parse!Max(K)
    BY <2>5, <2>6, <2>7
  <2> QED BY <1>10, <2>11, <2>12 DEF K, CutOut
<1> QED
  BY <1>9, <1>10

(***************************************************************************)
(* What the values and errors of a unit are (Columns)                      *)
(***************************************************************************)

(* The parser is made, and the unit can be parsed with it.                  *)
Ready == pc = "done" /\ error = NoError

(* Nothing of the unit is parsed yet.                                       *)
Untouched == /\ offset = 0 /\ values = <<>> /\ scratch = <<>>
             /\ built = <<>> /\ batches = <<>> /\ stopped = <<>>

(* Chunks are cut where lines are.                                          *)
AtALine == /\ offset \in 0 .. Len(job.unit)
           /\ offset = 0 \/ offset = Len(job.unit) \/ job.unit[offset] = LF

(* A column, or the start of one: field i of the chunk's first lines, none  *)
(* of which is bad.                                                         *)
Gathered(i, column) ==
    /\ column \in Seq(Seq(Parse!Chars))
    /\ Len(column) <= Parse!LineCount(Parse!Chunk)
    /\ \A r \in Parse!RecordsBefore + 1 .. Parse!RecordsBefore + Len(column) :
           /\ column[r - Parse!RecordsBefore] = Parse!Shown(r, i)
           /\ ~Parse!BadCell(r, i)

(* The finished columns and the one at hand.                                *)
InColumns ==
    /\ built \in Seq(Seq(Seq(Parse!Chars))) /\ Len(built) <= Len(parser)
    /\ values \in Seq(Seq(Parse!Chars))
    /\ \A i \in 1 .. Len(built) + 1 : Gathered(i, Append(built, values)[i])
    /\ \A i \in 1 .. Len(built) : Len(built[i]) = Parse!LineCount(Parse!Chunk)
    /\ Len(built) = Len(parser) => values = <<>>
    /\ scratch \in Seq(Parse!Chars)

(* A batch has as many values in each column as rows.                       *)
Batch == {b \in [rows : Nat, columns : Seq(Seq(Seq(Parse!Chars)))] :
             /\ Len(b.columns) = Len(parser)
             /\ \A i \in 1 .. Len(parser) : Len(b.columns[i]) = b.rows}

(* The parser has not failed, or at a place that is right.                  *)
Stopped ==
    \/ stopped = <<>>
    \/ \E p \in [record : Nat, field : Nat, byte : Nat] :
          stopped = <<p>> /\ Parse!PointsAtTheByte /\ Parse!FirstOfItsColumn

(* The inductive invariant: that of the layout, and that every whole batch, *)
(* whole column and value so far is the unit's, one chunk after another.    *)
VInv == /\ LInv
        /\ ~Ready => Untouched
        /\ AtALine /\ InColumns
        /\ batches \in Seq(Batch) /\ Parse!HoldsTheCells
        /\ Stopped

------------------------------------------------------------------------------
(* The unit at hand is the job's, its fields are the parser's.              *)
LEMMA ReadFacts ==
    ASSUME LInv
    PROVE  /\ ReadAtHand.unit = job.unit /\ ReadAtHand.size = job.size
           /\ ReadAtHand.table = job.table /\ ReadAtHand.fields = parser
           /\ job.unit \in Seq(Bytes) /\ Len(job.unit) \in Nat
           /\ job.size \in Nat /\ job.size > 0
           /\ DOMAIN job.table \subseteq High
           /\ parser \in Seq(Numbered) /\ Len(parser) \in Nat
           /\ DOMAIN parser = 1 .. Len(parser)
           /\ \A i \in 1 .. Len(parser) :
                  /\ parser[i].start \in Nat
                  /\ parser[i].len \in Nat /\ parser[i].len > 0
                  /\ parser[i].dtype \in {"String", "Float64"}
<1>1. /\ ReadAtHand.unit = job.unit /\ ReadAtHand.size = job.size
      /\ ReadAtHand.table = job.table /\ ReadAtHand.fields = parser
  BY DEF ReadAtHand
<1>2. job \in Jobs
  BY DEF LInv, Schema
<1>3. /\ job.unit \in Seq(Bytes) /\ job.size \in Nat /\ job.size > 0
      /\ DOMAIN job.table \subseteq High
  BY <1>2, ParseAssumption
<1>4. parser \in Seq(Numbered)
  BY LayoutTypes DEF TypeInvariant
<1>5. \A n \in Numbered : /\ n.start \in Nat /\ n.len \in Nat /\ n.len > 0
                          /\ n.dtype \in {"String", "Float64"}
  BY LayoutAssumption DEF Numbered
<1> QED
  BY <1>1, <1>3, <1>4, <1>5, LenProperties

(* The value at hand is the cell of its record in the unit, told there      *)
(* without chunks, short lines or trimming.                                 *)
LEMMA CellAtHand ==
    ASSUME LInv, AtALine, offset < Len(job.unit),
           NEW l \in 1 .. Parse!LineCount(Parse!Chunk), NEW i \in 1 .. Len(parser)
    PROVE  LET r    == Parse!RecordsBefore + l
               line == Parse!Lines(Parse!Chunk)[l]
               v    == Parse!Value(line.text, parser[i])
               K    == Parse!KeptBytes(r, i)
           IN  /\ r \in 1 .. Parse!LineCount(job.unit)
               /\ line.at \in Nat
               /\ v.bytes = Parse!Cell(r, i)
               /\ K # {} => /\ K \in SUBSET (0 .. Len(job.unit) - 1)
                            /\ offset + line.at + v.at = Parse!Min(K)
                            /\ Parse!Min(K) \in K /\ \A p \in K : Parse!Min(K) <= p
                            /\ Parse!Max(K) \in K /\ \A p \in K : p <= Parse!Max(K)
                            /\ \A p \in Parse!Min(K) .. Parse!Max(K) :
                                   job.unit[p + 1] \notin Parse!Blank => p \in K
<1> DEFINE u == job.unit
           b == Parse!ChunkEnd(u, offset, job.size)
           part == Parse!Slice(u, offset, b)
           r == Parse!RecordsBefore + l
           line == Parse!Lines(Parse!Chunk)[l]
           a == Parse!Lines(u)[r].at
           t == line.text
           start == parser[i].start
           len == parser[i].len
           K == Parse!KeptBytes(r, i)
           v == Parse!Value(t, parser[i])
<1>1. /\ u \in Seq(Bytes) /\ Len(u) \in Nat /\ job.size \in Nat /\ job.size > 0
      /\ offset \in Nat /\ offset < Len(u) /\ (offset = 0 \/ u[offset] = LF)
      /\ start \in Nat /\ len \in Nat /\ len > 0
  BY ReadFacts DEF AtALine
<1>2. Parse!Chunk = part /\ Parse!RecordsBefore = Parse!LineCount(Parse!Slice(u, 0, offset))
  BY ReadFacts DEF Parse!Chunk, Parse!ChunkLimit, Parse!RecordsBefore
<1>3. /\ b \in Nat /\ offset < b /\ b <= Len(u) /\ (b = Len(u) \/ u[b] = LF)
  <2> HIDE DEF u
  <2> QED BY <1>1, ChunkEndIs
<1>4. /\ r \in 1 .. Parse!LineCount(u)
      /\ a = offset + line.at
      /\ Parse!Lines(u)[r].text = t
      /\ line.at \in 0 .. b - offset - 1
  <2>1. /\ l \in 1 .. Parse!LineCount(Parse!Slice(u, offset, b))
        /\ offset <= b
    BY <1>1, <1>2, <1>3
  <2> HIDE DEF u, b
  <2>2. LET m == Parse!LineCount(Parse!Slice(u, 0, offset)) + l
        IN  /\ m \in 1 .. Parse!LineCount(u)
            /\ Parse!Lines(u)[m].at = offset + Parse!Lines(Parse!Slice(u, offset, b))[l].at
            /\ Parse!Lines(u)[m].text = Parse!Lines(Parse!Slice(u, offset, b))[l].text
            /\ Parse!Lines(Parse!Slice(u, offset, b))[l].at \in 0 .. b - offset - 1
    BY <1>1, <1>3, <2>1, LineInUnit
  <2> QED BY <1>2, <2>2
<1>5. Parse!Lines(u)[r] = [at   |-> Parse!LineStart(u, r),
                           text |-> Parse!LineText(u, Parse!LineStart(u, r))]
  <2> HIDE DEF u, r
  <2> QED BY <1>4 DEF Parse!Lines
<1>6. a \in Nat /\ a <= Len(u) /\ t = Parse!LineText(u, a) /\ line.at \in Nat
  <2> HIDE DEF u, r, line, b
  <2> QED BY <1>1, <1>3, <1>4, <1>5
<1>7. /\ t \in Seq(Bytes) /\ a + Len(t) <= Len(u) /\ Len(t) \in Nat
      /\ \A q \in 1 .. Len(t) : t[q] = u[a + q]
  <2> HIDE DEF u, r, line, b, a
  <2>1. Parse!LineText(u, a) \in Seq(Bytes)
    BY <1>1, <1>6, LineTextIs
  <2>2. a + Len(Parse!LineText(u, a)) <= Len(u)
    BY <1>1, <1>6, LineTextIs
  <2>3. \A q \in 1 .. Len(Parse!LineText(u, a)) : Parse!LineText(u, a)[q] = u[a + q]
    BY <1>1, <1>6, LineTextIs
  <2> QED BY <1>6, <2>1, <2>2, <2>3, LenProperties
<1>8. K = Kept(u, a, t, start, len)
  <2>1. Parse!KeptBytes(r, i)
            = {p \in a + start .. a + start + len - 1 :
                  p < a + Len(Parse!Lines(u)[r].text) /\ u[p + 1] \notin Parse!Blank}
    BY ReadFacts DEF Parse!KeptBytes
  <2> HIDE DEF u, a, r
  <2> QED BY <1>4, <2>1 DEF Kept
<1>9. IF K = {} THEN v.bytes = <<>>
      ELSE /\ v.bytes = Parse!Slice(u, Parse!Min(K), Parse!Max(K) + 1)
           /\ a + v.at = Parse!Min(K)
           /\ Parse!Min(K) \in K /\ \A p \in K : Parse!Min(K) <= p
           /\ Parse!Max(K) \in K /\ \A p \in K : p <= Parse!Max(K)
  <2> DEFINE f == parser[i]
  <2>1. f.start = start /\ f.len = len
    OBVIOUS
  <2> HIDE DEF u, a, t, start, len, K, f
  <2>2. CutOut(u, a, Kept(u, a, t, start, len), Parse!Value(t, f))
    BY <1>1, <1>6, <1>7, <2>1, ValueIs
  <2> QED BY <1>8, <2>2 DEF f, CutOut
<1>10. v.bytes = Parse!Cell(r, i)
  BY <1>9, ReadFacts DEF Parse!Cell
<1>11. /\ K \in SUBSET (0 .. Len(u) - 1)
       /\ \A x, y \in K : \A p \in x .. y : u[p + 1] \notin Parse!Blank => p \in K
  <2> HIDE DEF u, a, t, start, len, K
  <2>0. \A p : p \in K <=> /\ p \in Nat /\ a + start <= p /\ p < a + start + len
                           /\ p < a + Len(t) /\ u[p + 1] \notin Parse!Blank
    <3>1. \A p : p \in a + start .. a + start + len - 1
                    <=> p \in Nat /\ a + start <= p /\ p < a + start + len
      BY <1>1, <1>6
    <3> QED BY <1>8, <3>1 DEF Kept
  <2>1. \A p \in K : p \in 0 .. Len(u) - 1
    BY <1>1, <1>6, <1>7, <2>0
  <2>2. \A x, y \in K : \A p \in x .. y : u[p + 1] \notin Parse!Blank => p \in K
    <3> TAKE x, y \in K
    <3> TAKE p \in x .. y
    <3> HAVE u[p + 1] \notin Parse!Blank
    <3>1. /\ x \in Nat /\ a + start <= x /\ y \in Nat /\ y < a + start + len
          /\ y < a + Len(t)
      BY <2>0
    <3>2. p \in Int /\ x <= p /\ p <= y
      BY <3>1
    <3>3. p \in Nat /\ a + start <= p /\ p < a + start + len /\ p < a + Len(t)
      BY <1>1, <1>6, <1>7, <3>1, <3>2
    <3> QED BY <2>0, <3>3
  <2> QED BY <2>1, <2>2
<1> HIDE DEF K, v, line, r, a, u
<1>12. offset + line.at + v.at = a + v.at
  BY <1>4
<1>13. K # {} => /\ K \in SUBSET (0 .. Len(u) - 1)
                 /\ offset + line.at + v.at = Parse!Min(K)
                 /\ Parse!Min(K) \in K /\ \A p \in K : Parse!Min(K) <= p
                 /\ Parse!Max(K) \in K /\ \A p \in K : p <= Parse!Max(K)
                 /\ \A p \in Parse!Min(K) .. Parse!Max(K) :
                        u[p + 1] \notin Parse!Blank => p \in K
  BY <1>9, <1>11, <1>12
<1> QED
  BY <1>4, <1>6, <1>10, <1>13 DEF K, v, line, r, u

(* A cell is some of the unit's bytes, empty only if none is kept.          *)
LEMMA CellType ==
    ASSUME LInv, AtALine, offset < Len(job.unit),
           NEW l \in 1 .. Parse!LineCount(Parse!Chunk), NEW i \in 1 .. Len(parser)
    PROVE  LET r    == Parse!RecordsBefore + l
               cell == Parse!Cell(r, i)
               K    == Parse!KeptBytes(r, i)
           IN  /\ cell \in Seq(Bytes)
               /\ K = {} => cell = <<>>
               /\ K # {} => /\ Len(cell) = Parse!Max(K) + 1 - Parse!Min(K)
                            /\ \A k \in 1 .. Len(cell) :
                                   cell[k] = job.unit[Parse!Min(K) + k]
                            /\ Parse!Min(K) \in Nat /\ Parse!Max(K) \in Nat
                            /\ Parse!Min(K) <= Parse!Max(K)
<1> DEFINE r == Parse!RecordsBefore + l
           cell == Parse!Cell(r, i)
           K == Parse!KeptBytes(r, i)
           lo == Parse!Min(K)
           hi == Parse!Max(K)
           u == job.unit
<1>1. cell = IF K = {} THEN <<>> ELSE Parse!Slice(u, lo, hi + 1)
  BY ReadFacts DEF Parse!Cell
<1>2. K # {} => /\ K \in SUBSET (0 .. Len(u) - 1)
                /\ lo \in K /\ \A p \in K : lo <= p
                /\ hi \in K /\ \A p \in K : p <= hi
  BY CellAtHand, Zenon
<1>3. u \in Seq(Bytes) /\ Len(u) \in Nat
  BY ReadFacts
<1> HIDE DEF K, cell, u, lo, hi
<1>4. CASE K = {}
  BY <1>1, <1>4, EmptySeq DEF cell, K
<1>5. CASE K # {}
  <2>1. /\ lo \in Nat /\ hi \in Nat /\ hi + 1 \in Nat /\ lo <= hi /\ lo <= hi + 1
        /\ hi + 1 <= Len(u)
    BY <1>2, <1>3, <1>5
  <2>2. Parse!Slice(u, lo, hi + 1) \in Seq(Bytes)
    BY <1>3, <2>1, SliceIs
  <2>3. Len(Parse!Slice(u, lo, hi + 1)) = hi + 1 - lo
    BY <1>3, <2>1, SliceIs
  <2>4. \A k \in 1 .. hi + 1 - lo : Parse!Slice(u, lo, hi + 1)[k] = u[lo + k]
    BY <1>3, <2>1, SliceIs
  <2>5. /\ cell \in Seq(Bytes) /\ Len(cell) = hi + 1 - lo
        /\ \A k \in 1 .. Len(cell) : cell[k] = u[lo + k]
    BY <1>1, <1>5, <2>2, <2>3, <2>4
  <2> QED BY <1>5, <2>1, <2>5 DEF K, cell, u, lo, hi
<1> QED
  BY <1>4, <1>5

(* The code fails at a value just when its cell is bad.                     *)
LEMMA FailsIffBad ==
    ASSUME LInv, NEW r, NEW i \in 1 .. Len(parser), Parse!Cell(r, i) \in Seq(Bytes)
    PROVE  Parse!FailsAt(parser[i], Parse!Cell(r, i)) = {} <=> ~Parse!BadCell(r, i)
<1> DEFINE cell == Parse!Cell(r, i)
           wrong == High \ DOMAIN job.table
<1>1. ReadAtHand.table = job.table /\ ReadAtHand.fields = parser
  BY ReadFacts
<1>2. Parse!BadCell(r, i) <=> IF parser[i].dtype = "String"
                              THEN Parse!ToSet(cell) \cap wrong # {}
                              ELSE ~ (Parse!ToSet(cell) \subseteq Digits)
  BY <1>1 DEF Parse!BadCell
<1>3. Parse!ToSet(cell) = {cell[k] : k \in DOMAIN cell}
  BY DEF Parse!ToSet
<1>4. DOMAIN cell = 1 .. Len(cell) /\ Len(cell) \in Nat
  BY LenProperties
<1>5. Parse!UndefinedAt(cell) = {o \in 0 .. Len(cell) - 1 : cell[o + 1] \in wrong}
  BY <1>1 DEF Parse!UndefinedAt, Parse!Undefined
<1>6. Parse!FailsAt(parser[i], cell)
          = IF cell = <<>> THEN {}
            ELSE IF parser[i].dtype = "String" THEN Parse!UndefinedAt(cell)
            ELSE IF Parse!ToSet(cell) \subseteq Digits THEN {} ELSE {0}
  BY DEF Parse!FailsAt, Parse!IsFloat
<1> HIDE DEF cell, wrong
<1>7. CASE cell = <<>>
  <2>1. Parse!ToSet(cell) = {}
    BY <1>3, <1>7
  <2> QED BY <1>2, <1>6, <1>7, <2>1 DEF cell
<1>8. CASE cell # <<>> /\ parser[i].dtype = "String"
  <2>1. ASSUME NEW x \in Parse!ToSet(cell) \cap wrong PROVE Parse!UndefinedAt(cell) # {}
    <3>1. PICK k \in 1 .. Len(cell) : cell[k] = x
      BY <1>3, <1>4
    <3>2. k - 1 \in 0 .. Len(cell) - 1 /\ (k - 1) + 1 = k
      BY <1>4
    <3> QED BY <1>5, <3>1, <3>2
  <2>2. ASSUME NEW o \in Parse!UndefinedAt(cell) PROVE Parse!ToSet(cell) \cap wrong # {}
    <3>1. o \in 0 .. Len(cell) - 1 /\ cell[o + 1] \in wrong
      BY <1>5
    <3>2. o + 1 \in DOMAIN cell
      BY <1>4, <3>1
    <3>3. cell[o + 1] \in Parse!ToSet(cell)
      BY <1>3, <3>2, Zenon
    <3> QED BY <3>1, <3>3
  <2> QED BY <1>2, <1>6, <1>8, <2>1, <2>2 DEF cell
<1>9. CASE cell # <<>> /\ parser[i].dtype # "String"
  BY <1>2, <1>6, <1>9 DEF cell
<1> QED
  BY <1>7, <1>8, <1>9

(* A good cell is shown as itself, or character for character.              *)
LEMMA ShownIs ==
    ASSUME LInv, NEW r, NEW i \in 1 .. Len(parser), Parse!Cell(r, i) \in Seq(Bytes),
           ~Parse!BadCell(r, i)
    PROVE  LET cell == Parse!Cell(r, i)
           IN  /\ Parse!Shown(r, i) \in Seq(Parse!Chars)
               /\ \/ parser[i].dtype # "String"
                  \/ Parse!IsAscii(cell)
                  \/ cell = <<>>
                  => Parse!Shown(r, i) = cell
               /\ parser[i].dtype = "String" => Parse!Shown(r, i) = Parse!Decoded(cell)
<1> DEFINE cell == Parse!Cell(r, i)
           table == job.table
           text == [k \in DOMAIN cell |-> IF cell[k] \in High THEN table[cell[k]]
                                          ELSE cell[k]]
<1>1. ReadAtHand.table = table /\ ReadAtHand.fields = parser /\ DOMAIN table \subseteq High
  BY ReadFacts
<1>2. parser[i].dtype \in {"String", "Float64"}
  BY ReadFacts
<1>3. Parse!BadCell(r, i) <=> IF parser[i].dtype = "String"
                              THEN Parse!ToSet(cell) \cap (High \ DOMAIN table) # {}
                              ELSE ~ (Parse!ToSet(cell) \subseteq Digits)
  BY <1>1 DEF Parse!BadCell
<1>4. Parse!ToSet(cell) = {cell[k] : k \in DOMAIN cell}
  BY DEF Parse!ToSet
<1>5. /\ DOMAIN cell = 1 .. Len(cell) /\ Len(cell) \in Nat
      /\ \A k \in DOMAIN cell : cell[k] \in Bytes
  BY LenProperties
<1>6. Parse!Shown(r, i) = IF parser[i].dtype = "Float64" THEN cell ELSE text
  BY <1>1 DEF Parse!Shown
<1>7. Parse!Decoded(cell) = [k \in DOMAIN cell |-> IF cell[k] \in DOMAIN table
                                                   THEN table[cell[k]] ELSE cell[k]]
  BY <1>1 DEF Parse!Decoded, Parse!Char
<1>8. Bytes \subseteq Parse!Chars /\ \A x \in DOMAIN table : table[x] \in Parse!Chars
  BY <1>1, Zenon DEF Parse!Chars, Parse!Range
<1>9. Parse!IsAscii(cell) <=> Parse!ToSet(cell) \cap High = {}
  BY DEF Parse!IsAscii
<1>10. cell \in Seq(Bytes)
  OBVIOUS
<1> HIDE DEF cell, table
<1>11. \A k \in DOMAIN cell : cell[k] \in Parse!ToSet(cell)
  BY <1>4, Zenon
<1>12. CASE parser[i].dtype = "String"
  <2>1. \A k \in DOMAIN cell : cell[k] \in High <=> cell[k] \in DOMAIN table
    BY <1>1, <1>3, <1>11, <1>12
  <2>2. Parse!Shown(r, i) = text
    BY <1>6, <1>12
  <2>3. text = Parse!Decoded(cell)
    BY <1>7, <2>1
  <2>4. text \in Seq(Parse!Chars)
    <3>1. \A k \in DOMAIN cell : text[k] \in Parse!Chars
      BY <1>5, <1>8, <2>1
    <3>2. text \in [1 .. Len(cell) -> Parse!Chars]
      BY <1>5, <3>1
    <3>3. \A m \in Nat : \A s \in [1 .. m -> Parse!Chars] : s \in Seq(Parse!Chars)
      OBVIOUS
    <3> HIDE DEF text
    <3> QED BY <1>5, <3>2, <3>3, Zenon
  <2>5. Parse!IsAscii(cell) \/ cell = <<>> => text = cell
    <3>1. CASE cell = <<>>
      BY <3>1
    <3>2. CASE Parse!IsAscii(cell)
      <4>1. \A k \in DOMAIN cell : text[k] = cell[k]
        BY <1>9, <1>11, <3>2
      <4>2. cell = [k \in DOMAIN cell |-> cell[k]]
        BY <1>10
      <4> QED BY <4>1, <4>2
    <3> QED BY <3>1, <3>2
  <2> HIDE DEF text
  <2> QED BY <1>12, <2>2, <2>3, <2>4, <2>5 DEF cell
<1>13. CASE parser[i].dtype # "String"
  <2>1. Parse!Shown(r, i) = cell
    BY <1>2, <1>6, <1>13
  <2>2. cell \in Seq(Parse!Chars)
    <3>1. \A s \in Seq(Bytes) : s \in Seq(Parse!Chars)
      BY <1>8
    <3> QED BY <1>10, <3>1
  <2> QED BY <1>13, <2>1, <2>2 DEF cell
<1> QED
  BY <1>12, <1>13

(* Where the code says that a value cannot be read is where its cell is bad.*)
LEMMA FailsThere ==
    ASSUME LInv, AtALine, offset < Len(job.unit),
           NEW l \in 1 .. Parse!LineCount(Parse!Chunk), NEW i \in 1 .. Len(parser),
           NEW line, line = Parse!Lines(Parse!Chunk)[l],
           NEW v, v = Parse!Value(line.text, parser[i]),
           Parse!FailsAt(parser[i], v.bytes) # {}
    PROVE  LET K == Parse!KeptBytes(Parse!RecordsBefore + l, i)
               b == offset + line.at + v.at + Parse!Min(Parse!FailsAt(parser[i], v.bytes))
           IN  /\ b \in Nat
               /\ b = IF parser[i].dtype = "String"
                      THEN Parse!Min({p \in K : job.unit[p + 1] \in High \ DOMAIN job.table})
                      ELSE Parse!Min(K)
<1> DEFINE r == Parse!RecordsBefore + l
           K == Parse!KeptBytes(r, i)
           lo == Parse!Min(K)
           hi == Parse!Max(K)
           u == job.unit
           wrong == High \ DOMAIN job.table
           at == Parse!FailsAt(parser[i], v.bytes)
           cell == Parse!Cell(r, i)
           W == {p \in K : u[p + 1] \in wrong}
<1>1. /\ v.bytes = cell
      /\ K # {} => /\ K \in SUBSET (0 .. Len(u) - 1)
                   /\ offset + line.at + v.at = lo
                   /\ lo \in K /\ \A p \in K : lo <= p
                   /\ hi \in K /\ \A p \in K : p <= hi
                   /\ \A p \in lo .. hi : u[p + 1] \notin Parse!Blank => p \in K
  BY CellAtHand
<1>2. /\ cell \in Seq(Bytes)
      /\ K = {} => cell = <<>>
      /\ K # {} => /\ Len(cell) = hi + 1 - lo
                   /\ \A k \in 1 .. Len(cell) : cell[k] = u[lo + k]
                   /\ lo \in Nat /\ hi \in Nat /\ lo <= hi
  BY CellType
<1>3. at = IF cell = <<>> THEN {}
           ELSE IF parser[i].dtype = "String" THEN Parse!UndefinedAt(cell)
           ELSE IF Parse!IsFloat(cell) THEN {} ELSE {0}
  BY <1>1 DEF Parse!FailsAt
<1>4. Parse!UndefinedAt(cell) = {o \in 0 .. Len(cell) - 1 : cell[o + 1] \in wrong}
  BY ReadFacts DEF Parse!UndefinedAt, Parse!Undefined
<1>5. \A x \in wrong : x \notin Parse!Blank
  BY ParseAssumption DEF Parse!Blank
<1>6. at # {}
  OBVIOUS
<1> HIDE DEF r, K, lo, hi, u, wrong, at, cell, W
<1>7. /\ K # {} /\ cell # <<>> /\ Len(cell) = hi + 1 - lo /\ Len(cell) \in Nat
      /\ lo \in Nat /\ hi \in Nat /\ lo <= hi
  BY <1>2, <1>3, <1>6, LenProperties
<1>8. offset + line.at + v.at = lo
  BY <1>1, <1>7
<1>9. CASE parser[i].dtype = "String"
  <2>1. at = {o \in 0 .. Len(cell) - 1 : cell[o + 1] \in wrong}
    BY <1>3, <1>4, <1>7, <1>9
  <2>2. \A o \in at : o \in Nat /\ o <= Len(cell)
    BY <1>7, <2>1
  <2> DEFINE m == Parse!Min(at)
  <2>3. m \in at /\ \A o \in at : m <= o
    <3>1. at \in SUBSET Nat
      BY <2>2
    <3> QED BY <1>6, <1>7, <2>2, <3>1, Ends
  <2> HIDE DEF m
  <2>4. m \in Nat /\ m <= Len(cell) - 1 /\ cell[m + 1] \in wrong
    BY <1>7, <2>1, <2>3
  <2>5. \A o \in 0 .. Len(cell) - 1 : cell[o + 1] = u[lo + o + 1]
    <3> TAKE o \in 0 .. Len(cell) - 1
    <3>1. o + 1 \in 1 .. Len(cell) /\ lo + (o + 1) = lo + o + 1
      BY <1>7
    <3>2. cell[o + 1] = u[lo + (o + 1)]
      BY <1>2, <1>7, <3>1
    <3> QED BY <3>1, <3>2
  <2>6. lo + m \in lo .. hi /\ lo + m \in Nat /\ m \in 0 .. Len(cell) - 1
    BY <1>7, <2>4
  <2>7. u[lo + m + 1] \in wrong
    BY <2>4, <2>5, <2>6
  <2>8. lo + m \in W
    BY <1>1, <1>5, <1>7, <2>6, <2>7 DEF W
  <2>9. \A p \in W : p \in Nat /\ lo + m <= p
    <3> TAKE p \in W
    <3>1. p \in K /\ u[p + 1] \in wrong
      BY DEF W
    <3>2. p \in Nat /\ lo <= p /\ p <= hi
      BY <1>1, <1>7, <3>1
    <3>3. p - lo \in 0 .. Len(cell) - 1 /\ lo + (p - lo) + 1 = p + 1
      BY <1>7, <3>2
    <3>4. cell[(p - lo) + 1] \in wrong
      BY <2>5, <3>1, <3>3
    <3>5. m <= p - lo
      BY <2>1, <2>3, <3>3, <3>4
    <3> QED BY <1>7, <2>4, <3>2, <3>5
  <2>10. Parse!Min(W) = lo + m
    <3>1. W \in SUBSET Nat
      BY <2>9
    <3> QED BY <2>8, <2>9, <3>1, MinIs
  <2> QED BY <1>8, <1>9, <2>6, <2>10 DEF W, m, at, K, r, u, wrong
<1>10. CASE parser[i].dtype # "String"
  <2>1. at = {0}
    BY <1>3, <1>6, <1>7, <1>10
  <2>2. Parse!Min(at) = 0
    <3>1. {0} \in SUBSET Nat /\ 0 \in {0} /\ \A y \in {0} : 0 <= y
      OBVIOUS
    <3>2. Parse!Min({0}) = 0
      BY <3>1, MinIs
    <3> QED BY <2>1, <3>2
  <2>3. lo + 0 = lo
    BY <1>7
  <2> QED BY <1>7, <1>8, <1>10, <2>2, <2>3 DEF at, lo, K, r
<1> QED
  BY <1>9, <1>10

(* The chunk at hand: it holds some lines if the unit is not at its end,    *)
(* and where those are numbered from.                                       *)
LEMMA ChunkIs ==
    ASSUME LInv, AtALine
    PROVE  /\ Parse!LineCount(Parse!Chunk) \in Nat
           /\ Parse!RecordsBefore \in Nat
           /\ Parse!Chunk = Parse!Slice(job.unit, offset, Parse!ChunkLimit)
           /\ Parse!RecordsBefore = Parse!LineCount(Parse!Slice(job.unit, 0, offset))
           /\ offset < Len(job.unit) =>
                  /\ Parse!ChunkLimit \in Nat
                  /\ offset < Parse!ChunkLimit /\ Parse!ChunkLimit <= Len(job.unit)
                  /\ \/ Parse!ChunkLimit = Len(job.unit)
                     \/ job.unit[Parse!ChunkLimit] = LF
           /\ Len(Parse!ChunkLines) = Parse!LineCount(Parse!Chunk)
           /\ Parse!ChunkLines = Parse!Lines(Parse!Chunk)
<1> DEFINE u == job.unit
           b == Parse!ChunkEnd(u, offset, job.size)
<1>1. /\ u \in Seq(Bytes) /\ Len(u) \in Nat /\ job.size \in Nat /\ job.size > 0
      /\ offset \in Nat /\ offset <= Len(u) /\ (offset = 0 \/ offset = Len(u) \/ u[offset] = LF)
  BY ReadFacts DEF AtALine
<1>2. /\ Parse!Chunk = Parse!Slice(u, offset, b) /\ Parse!ChunkLimit = b
      /\ Parse!RecordsBefore = Parse!LineCount(Parse!Slice(u, 0, offset))
  BY ReadFacts DEF Parse!Chunk, Parse!ChunkLimit, Parse!RecordsBefore
<1>3. offset < Len(u) => /\ b \in Nat /\ offset < b /\ b <= Len(u)
                         /\ b = Len(u) \/ u[b] = LF
  <2> HIDE DEF u
  <2> QED BY <1>1, ChunkEndIs
<1>4. offset = Len(u) => b = Len(u)
  <2> SUFFICES ASSUME offset = Len(u) PROVE b = Len(u)
    OBVIOUS
  <2> HIDE DEF u
  <2>1. Parse!Lesser(offset + job.size - 1, Len(u)) = Len(u)
    BY <1>1 DEF Parse!Lesser
  <2>2. Parse!LineFeeds(u, Len(u)) = {}
    <3>1. Len(u) .. Len(u) - 1 = {}
      BY <1>1
    <3> QED BY <3>1 DEF Parse!LineFeeds
  <2> QED BY <2>1, <2>2 DEF Parse!ChunkEnd
<1>5. offset <= b /\ b <= Len(u) /\ b \in Nat
  BY <1>1, <1>3, <1>4
<1>6. Parse!Slice(u, offset, b) \in Seq(Bytes)
  <2> HIDE DEF u, b
  <2> QED BY <1>1, <1>5, SliceIs
<1>7. Parse!LineCount(Parse!Slice(u, offset, b)) \in Nat
  BY <1>6, CountType
<1>8. Parse!LineCount(Parse!Slice(u, 0, offset)) \in Nat
  <2>1. 0 \in Nat /\ 0 <= offset
    BY <1>1
  <2>2. Parse!Slice(u, 0, offset) \in Seq(Bytes)
    <3> HIDE DEF u
    <3> QED BY <1>1, <2>1, SliceIs
  <2> QED BY <2>2, CountType
<1>9. Len(Parse!Lines(Parse!Chunk)) = Parse!LineCount(Parse!Chunk)
  BY <1>2, <1>7 DEF Parse!Lines
<1> QED
  BY <1>2, <1>3, <1>7, <1>8, <1>9 DEF Parse!ChunkLines

(* No lines are before the first.                                           *)
LEMMA NoLines ==
    ASSUME LInv
    PROVE  Parse!LineCount(Parse!Slice(job.unit, 0, 0)) = 0
<1> DEFINE c == Parse!LineCount(Parse!Slice(job.unit, 0, 0))
<1>1. job.unit \in Seq(Bytes) /\ 0 \in Nat /\ 0 <= 0 /\ 0 <= Len(job.unit)
  BY ReadFacts
<1>2. c = c + c
  BY <1>1, CountAtCut
<1>3. Parse!Slice(job.unit, 0, 0) \in Seq(Bytes)
  BY <1>1, SliceIs
<1>4. c \in Nat
  BY <1>3, CountType
<1>5. c = 0
  <2> HIDE DEF c
  <2> QED BY <1>2, <1>4
<1> QED
  BY <1>5

(* Before the unit is read.                                                 *)
LEMMA UntouchedHolds ==
    ASSUME LInv, Untouched
    PROVE  VInv
<1>1. AtALine
  BY ReadFacts DEF Untouched, AtALine
<1>2. Len(<<>>) = 0 /\ \A S : <<>> \in Seq(S)
  OBVIOUS
<1>3. InColumns
  <2>1. Len(values) = 0 /\ Len(built) = 0 /\ 0 <= Len(parser)
    BY ReadFacts DEF Untouched
  <2>2. 0 <= Parse!LineCount(Parse!Chunk)
    BY <1>1, ChunkIs
  <2>3. /\ built \in Seq(Seq(Seq(Parse!Chars))) /\ values \in Seq(Seq(Parse!Chars))
        /\ scratch \in Seq(Parse!Chars) /\ values = <<>>
    BY <1>2, Zenon DEF Untouched
  <2>4. \A i \in 1 .. Len(built) + 1 : Append(built, values)[i] = <<>>
    <3>1. \A i \in 1 .. 0 + 1 : Append(<<>>, <<>>)[i] = <<>>
      OBVIOUS
    <3> QED BY <2>1, <3>1 DEF Untouched
  <2>5. Parse!RecordsBefore \in Nat
    BY <1>1, ChunkIs
  <2>6. Gathered(1, <<>>)
    BY <2>2, <1>2, <2>5 DEF Gathered
  <2>7. \A i \in 1 .. Len(built) + 1 : i = 1
    BY <2>1
  <2>8. \A i \in 1 .. Len(built) : FALSE
    BY <2>1
  <2>9. \A i \in 1 .. Len(built) + 1 : Gathered(i, Append(built, values)[i])
    BY <2>4, <2>6, <2>7
  <2> QED BY <2>1, <2>3, <2>8, <2>9, Zenon DEF InColumns
<1>4. batches \in Seq(Batch)
  BY <1>2 DEF Untouched
<1>5. Parse!HoldsTheCells
  <2>1. \A f : [k \in DOMAIN batches |-> f[k]] = <<>>
    BY DEF Untouched
  <2>2. Parse!RowsGiven = <<>>
    <3>1. [k \in DOMAIN batches |-> [r \in 1 .. batches[k].rows |-> r]] = <<>>
      BY DEF Untouched
    <3> QED BY <3>1, FlattenNone DEF Parse!RowsGiven
  <2>3. \A i : Parse!ColumnGiven(i) = <<>>
    <3>1. \A i : [k \in DOMAIN batches |-> batches[k].columns[i]] = <<>>
      BY DEF Untouched
    <3> QED BY <3>1, FlattenNone DEF Parse!ColumnGiven
  <2>4. Len(Parse!RowsGiven) = Parse!LineCount(Parse!Slice(ReadAtHand.unit, 0, offset))
    BY <2>2, NoLines, ReadFacts DEF Untouched
  <2>5. DOMAIN Parse!RowsGiven = {}
    BY <2>2
  <2>6. \A i : /\ \A r \in DOMAIN Parse!RowsGiven : ~Parse!BadCell(r, i)
               /\ Parse!ColumnGiven(i)
                      = [r \in DOMAIN Parse!RowsGiven |-> Parse!Shown(r, i)]
    BY <2>3, <2>5
  <2> QED BY <2>4, <2>6 DEF Parse!HoldsTheCells
<1>6. Stopped
  BY DEF Untouched, Stopped
<1> QED
  BY <1>1, <1>3, <1>4, <1>5, <1>6 DEF VInv

(* What is wanted of a unit does not change while it is read.               *)
LEMMA SameRead ==
    ASSUME UNCHANGED <<job, parser>>
    PROVE  /\ UNCHANGED <<ReadAtHand, Parse!Chars, Parse!Records, Parse!Fields, Batch>>
           /\ \A r, i : /\ Parse!KeptBytes(r, i)' = Parse!KeptBytes(r, i)
                        /\ Parse!Shown(r, i)' = Parse!Shown(r, i)
                        /\ Parse!BadCell(r, i)' <=> Parse!BadCell(r, i)
<1>1. ReadAtHand' = ReadAtHand
  BY DEF ReadAtHand
<1>2. Parse!Chars' = Parse!Chars
  BY <1>1 DEF Parse!Chars
<1>3. Parse!Records' = Parse!Records /\ Parse!Fields' = Parse!Fields
  BY <1>1 DEF Parse!Records, Parse!Fields
<1>4. Batch' = Batch
  BY <1>2 DEF Batch
<1>5. \A r, i : Parse!KeptBytes(r, i)' = Parse!KeptBytes(r, i)
  BY <1>1 DEF Parse!KeptBytes
<1>6. \A r, i : Parse!Cell(r, i)' = Parse!Cell(r, i)
  BY <1>1, <1>5 DEF Parse!Cell
<1>7. \A r, i : Parse!Shown(r, i)' = Parse!Shown(r, i)
  BY <1>1, <1>6 DEF Parse!Shown
<1>8. \A r, i : Parse!BadCell(r, i)' <=> Parse!BadCell(r, i)
  BY <1>1, <1>6 DEF Parse!BadCell
<1> QED
  BY <1>1, <1>2, <1>3, <1>4, <1>5, <1>7, <1>8

(* A step that cuts no chunk leaves the one at hand, the batches and the    *)
(* layout as they are.                                                      *)
LEMMA SameChunk ==
    ASSUME UNCHANGED <<job, parser, offset>>
    PROVE  UNCHANGED <<Parse!Chunk, Parse!RecordsBefore, Parse!LineCount(Parse!Chunk)>>
<1>1. ReadAtHand' = ReadAtHand
  BY DEF ReadAtHand
<1>2. Parse!Chunk' = Parse!Chunk
  BY <1>1 DEF Parse!Chunk, Parse!ChunkLimit
<1>3. Parse!RecordsBefore' = Parse!RecordsBefore
  BY <1>1 DEF Parse!RecordsBefore
<1> QED
  BY <1>2, <1>3

LEMMA SameBatches ==
    ASSUME UNCHANGED <<job, parser, offset, batches>>, Parse!HoldsTheCells
    PROVE  Parse!HoldsTheCells'
<1>1. ReadAtHand' = ReadAtHand
  BY DEF ReadAtHand
<1>2. Parse!RowsGiven' = Parse!RowsGiven
  BY DEF Parse!RowsGiven
<1>3. \A i : Parse!ColumnGiven(i)' = Parse!ColumnGiven(i)
  BY DEF Parse!ColumnGiven
<1>4. Parse!Fields' = Parse!Fields
  BY <1>1 DEF Parse!Fields
<1> QED
  BY <1>1, <1>2, <1>3, <1>4, SameRead DEF Parse!HoldsTheCells

(* Nothing is said of an error while there is none.                         *)
LEMMA NotStopped ==
    ASSUME stopped' = <<>>
    PROVE  Stopped'
BY DEF Stopped

LEMMA SameParser ==
    ASSUME LInv, UNCHANGED <<vars>>
    PROVE  LInv' /\ Ready' = Ready
<1>1. LInv'
  BY NextLInv
<1> QED
  BY <1>1 DEF Ready, vars

(* What is at hand inside a builder's loop.                                 *)
LEMMA Building ==
    ASSUME VInv, Parse!Building
    PROVE  LET l == Len(values) + 1
               i == Len(built) + 1
           IN  /\ offset < Len(job.unit) /\ stopped = <<>>
               /\ l \in 1 .. Parse!LineCount(Parse!Chunk) /\ i \in 1 .. Len(parser)
               /\ Len(values) \in Nat /\ Len(built) \in Nat
               /\ Parse!LineAtHand = Parse!Lines(Parse!Chunk)[l]
               /\ Parse!FieldAtHand = parser[i]
               /\ Parse!ValueAtHand = Parse!Value(Parse!Lines(Parse!Chunk)[l].text, parser[i])
<1>1. /\ offset < Len(job.unit) /\ stopped = <<>>
      /\ Len(built) < Len(parser) /\ Len(values) < Parse!LineCount(Parse!Chunk)
  BY ReadFacts, ChunkIs DEF VInv, Parse!Building, Parse!Parsing
<1>2. Len(values) \in Nat /\ Len(built) \in Nat
  BY LenProperties DEF VInv, InColumns
<1>3. Len(parser) \in Nat /\ Parse!LineCount(Parse!Chunk) \in Nat
  BY ReadFacts, ChunkIs DEF VInv
<1>4. Parse!LineAtHand = Parse!Lines(Parse!Chunk)[Len(values) + 1]
  BY ChunkIs DEF VInv, Parse!LineAtHand
<1>5. Parse!FieldAtHand = parser[Len(built) + 1]
  BY ReadFacts DEF VInv, Parse!FieldAtHand
<1>6. Parse!ValueAtHand = Parse!Value(Parse!Lines(Parse!Chunk)[Len(values) + 1].text,
                                      parser[Len(built) + 1])
  BY <1>4, <1>5 DEF Parse!ValueAtHand
<1> QED
  BY <1>1, <1>2, <1>3, <1>4, <1>5, <1>6

(* What is appended is the record's own value.                              *)
LEMMA AppendsTheCell ==
    ASSUME VInv, Parse!AppendValue
    PROVE  LET r == Parse!RecordsBefore + Len(values) + 1
               i == Len(built) + 1
           IN  /\ values' = Append(values, Parse!Shown(r, i))
               /\ Parse!Shown(r, i) \in Seq(Parse!Chars)
               /\ ~Parse!BadCell(r, i)
               /\ scratch' \in Seq(Parse!Chars)
<1> DEFINE r == Parse!RecordsBefore + Len(values) + 1
           i == Len(built) + 1
           l == Len(values) + 1
           cell == Parse!Cell(r, i)
<1>1. Parse!Building
  BY DEF Parse!AppendValue
<1>2. /\ offset < Len(job.unit)
      /\ l \in 1 .. Parse!LineCount(Parse!Chunk) /\ i \in 1 .. Len(parser)
      /\ Parse!FieldAtHand = parser[i]
      /\ Parse!ValueAtHand = Parse!Value(Parse!Lines(Parse!Chunk)[l].text, parser[i])
  BY <1>1, Building
<1>3. LInv /\ AtALine /\ scratch \in Seq(Parse!Chars)
  BY DEF VInv, InColumns
<1>4. r = Parse!RecordsBefore + l
  <2>1. Parse!RecordsBefore \in Nat /\ Len(values) \in Nat
    BY <1>1, <1>3, ChunkIs, Building
  <2> QED BY <2>1
<1>5. Parse!ValueAtHand.bytes = cell /\ cell \in Seq(Bytes)
  <2> HIDE DEF l, i
  <2>1. /\ Parse!Value(Parse!Lines(Parse!Chunk)[l].text, parser[i]).bytes
               = Parse!Cell(Parse!RecordsBefore + l, i)
        /\ Parse!Cell(Parse!RecordsBefore + l, i) \in Seq(Bytes)
    BY <1>2, <1>3, CellAtHand, CellType
  <2> HIDE DEF r
  <2> QED BY <1>2, <1>4, <2>1
<1>6. Parse!FailsAt(parser[i], cell) = {}
  BY <1>2, <1>5 DEF Parse!AppendValue
<1> HIDE DEF r, l, i
<1>7. ~Parse!BadCell(r, i)
  BY <1>2, <1>3, <1>5, <1>6, FailsIffBad
<1>8. /\ Parse!Shown(r, i) \in Seq(Parse!Chars)
      /\ (parser[i].dtype # "String" \/ Parse!IsAscii(cell) \/ cell = <<>>)
            => Parse!Shown(r, i) = cell
      /\ parser[i].dtype = "String" => Parse!Shown(r, i) = Parse!Decoded(cell)
  BY <1>2, <1>3, <1>5, <1>7, ShownIs
<1> HIDE DEF cell
<1>9. CASE Parse!AppendText
  <2>1. /\ parser[i].dtype = "String"
        /\ scratch' = IF Parse!IsAscii(cell) THEN scratch ELSE Parse!Decoded(cell)
        /\ values' = Append(values, IF Parse!IsAscii(cell) THEN cell ELSE scratch')
    BY <1>2, <1>5, <1>9 DEF Parse!AppendText
  <2>2. CASE Parse!IsAscii(cell)
    BY <1>3, <1>7, <1>8, <2>1, <2>2 DEF r, i
  <2>3. CASE ~Parse!IsAscii(cell)
    BY <1>7, <1>8, <2>1, <2>3 DEF r, i
  <2> QED BY <2>2, <2>3
<1>10. CASE Parse!AppendNullOrNumber
  <2>1. /\ parser[i].dtype = "String" => cell = <<>>
        /\ values' = Append(values, cell) /\ scratch' = scratch
    BY <1>2, <1>5, <1>10 DEF Parse!AppendNullOrNumber
  <2> QED BY <1>3, <1>7, <1>8, <2>1 DEF r, i
<1> QED
  BY <1>9, <1>10 DEF Parse!AppendValue

(* A value, null or not, joins its column (builder.rs 36-74).               *)
LEMMA AppendKeeps ==
    ASSUME VInv, Ready, UNCHANGED vars, Parse!AppendValue
    PROVE  VInv'
<1> DEFINE n == Len(values)
           i == Len(built) + 1
           before == Parse!RecordsBefore
           x == Parse!Shown(before + n + 1, i)
<1>1. /\ UNCHANGED <<job, parser, offset, built, batches, stopped>>
      /\ UNCHANGED ReadAtHand
  BY DEF Parse!AppendValue, vars, ReadAtHand
<1>2. LInv' /\ Ready'
  BY SameParser DEF VInv
<1>3. /\ values' = Append(values, x) /\ x \in Seq(Parse!Chars)
      /\ ~Parse!BadCell(before + n + 1, i)
      /\ scratch' \in Seq(Parse!Chars)
  BY AppendsTheCell
<1>4. /\ offset < Len(job.unit) /\ stopped = <<>> /\ n \in Nat /\ Len(built) \in Nat
      /\ n + 1 <= Parse!LineCount(Parse!Chunk) /\ i \in 1 .. Len(parser)
  <2>1. Parse!Building
    BY DEF Parse!AppendValue
  <2> QED BY <2>1, Building
<1>5. before \in Nat /\ AtALine' /\ Len(parser) \in Nat
  BY <1>1, ChunkIs, ReadFacts DEF VInv, AtALine
<1>6. /\ Parse!Chars' = Parse!Chars
      /\ before' = before
      /\ Parse!LineCount(Parse!Chunk)' = Parse!LineCount(Parse!Chunk)
      /\ \A r, k : /\ Parse!Shown(r, k)' = Parse!Shown(r, k)
                   /\ Parse!BadCell(r, k)' <=> Parse!BadCell(r, k)
  BY <1>1, SameRead, SameChunk
<1>7. /\ values \in Seq(Seq(Parse!Chars)) /\ built \in Seq(Seq(Seq(Parse!Chars)))
      /\ Len(built) <= Len(parser)
      /\ \A k \in 1 .. Len(built) + 1 : Gathered(k, Append(built, values)[k])
      /\ \A k \in 1 .. Len(built) : Len(built[k]) = Parse!LineCount(Parse!Chunk)
  BY DEF VInv, InColumns
<1>8. /\ values' \in Seq(Seq(Parse!Chars)) /\ Len(values') = n + 1
      /\ values'[n + 1] = x
      /\ \A k \in 1 .. n : values'[k] = values[k]
  BY <1>3, <1>4, <1>7, AppendProperties
<1>9. /\ Append(built, values)[i] = values /\ Append(built, values')[i] = values'
      /\ \A k \in 1 .. Len(built) : /\ Append(built, values)[k] = built[k]
                                    /\ Append(built, values')[k] = built[k]
  BY <1>7, <1>8, AppendProperties
<1> HIDE DEF n, i, x, before
<1>10. Gathered(i, values)
  <2>1. i \in 1 .. Len(built) + 1
    BY <1>4 DEF i
  <2> QED BY <1>7, <1>9, <2>1, Zenon
<1>11. \A k \in 1 .. Len(built) + 1 : Gathered(k, Append(built, values)[k])'
  <2> SUFFICES ASSUME NEW k \in 1 .. Len(built) + 1
               PROVE  Gathered(k, Append(built, values)[k])'
    OBVIOUS
  <2>1. CASE k \in 1 .. Len(built)
    <3>1. Gathered(k, built[k])
      BY <1>7, <1>9, <2>1
    <3>2. Append(built', values')[k] = built[k]
      BY <1>1, <1>9, <2>1
    <3> QED BY <1>6, <3>1, <3>2 DEF Gathered, before
  <2>2. CASE k = i
    <3>1. Append(built', values')[k] = values'
      BY <1>1, <1>9, <2>2
    <3>2. \A r \in before + 1 .. before + (n + 1) :
              values'[r - before] = Parse!Shown(r, k) /\ ~Parse!BadCell(r, k)
      <4> TAKE r \in before + 1 .. before + (n + 1)
      <4>1. CASE r = before + n + 1
        <5>1. r - before = n + 1
          BY <1>4, <1>5, <4>1
        <5> QED BY <1>3, <1>8, <2>2, <4>1, <5>1 DEF x
      <4>2. CASE r # before + n + 1
        <5>1. r - before \in 1 .. n /\ r \in before + 1 .. before + n
          BY <1>4, <1>5, <4>2
        <5>2. values[r - before] = Parse!Shown(r, k) /\ ~Parse!BadCell(r, k)
          BY <1>10, <2>2, <5>1 DEF Gathered, n, before
        <5> QED BY <1>8, <5>1, <5>2
      <4> QED BY <4>1, <4>2
    <3>3. \A r \in before' + 1 .. before' + Len(values') :
              values'[r - before'] = Parse!Shown(r, k)' /\ ~Parse!BadCell(r, k)'
      BY <1>6, <1>8, <3>2
    <3> QED BY <1>4, <1>6, <1>8, <3>1, <3>3 DEF Gathered, before
  <2>3. k \in 1 .. Len(built) \/ k = i
    BY <1>4 DEF i
  <2> QED BY <2>1, <2>2, <2>3
<1>12. InColumns'
  <2>1. Len(built) # Len(parser)
    BY <1>4, <1>5 DEF i
  <2> QED BY <1>1, <1>3, <1>6, <1>7, <1>8, <1>11, <2>1 DEF InColumns
<1>13. batches' \in Seq(Batch') /\ Parse!HoldsTheCells' /\ Stopped'
  BY <1>1, <1>4, SameRead, SameBatches, NotStopped DEF VInv
<1> QED
  BY <1>2, <1>5, <1>12, <1>13 DEF VInv

(* A batch's rows and columns are sequences of one length, and so are those *)
(* of all batches.                                                          *)
LEMMA BatchFacts ==
    ASSUME NEW b \in Batch
    PROVE  /\ b.rows \in Nat
           /\ [r \in 1 .. b.rows |-> r] \in Seq(Nat)
           /\ \A i \in 1 .. Len(parser) :
                  b.columns[i] \in Seq(Seq(Parse!Chars)) /\ Len(b.columns[i]) = b.rows
<1>1. /\ b.rows \in Nat /\ b.columns \in Seq(Seq(Seq(Parse!Chars)))
      /\ Len(b.columns) = Len(parser)
      /\ \A i \in 1 .. Len(parser) : Len(b.columns[i]) = b.rows
  BY DEF Batch
<1>2. \A n \in Nat : [r \in 1 .. n |-> r] \in Seq(Nat)
  OBVIOUS
<1>3. \A i \in 1 .. Len(parser) : b.columns[i] \in Seq(Seq(Parse!Chars))
  BY <1>1
<1> QED
  BY <1>1, <1>2, <1>3

(* The batches' parts, to be put one after another.                         *)
LEMMA Mapped ==
    ASSUME NEW S, NEW T, NEW s \in Seq(S), NEW f, \A k \in 1 .. Len(s) : f[k] \in T
    PROVE  [k \in DOMAIN s |-> f[k]] \in Seq(T)
<1>1. DOMAIN s = 1 .. Len(s) /\ Len(s) \in Nat
  BY LenProperties
<1>2. [k \in DOMAIN s |-> f[k]] \in [1 .. Len(s) -> T]
  BY <1>1
<1>3. \A n \in Nat : \A t \in [1 .. n -> T] : t \in Seq(T)
  OBVIOUS
<1> QED
  BY <1>1, <1>2, <1>3, Zenon

LEMMA RowsType ==
    ASSUME batches \in Seq(Batch)
    PROVE  /\ [k \in DOMAIN batches |-> [r \in 1 .. batches[k].rows |-> r]]
                  \in Seq(Seq(Nat))
           /\ Parse!RowsGiven \in Seq(Nat)
           /\ \A i \in 1 .. Len(parser) :
                  /\ [k \in DOMAIN batches |-> batches[k].columns[i]]
                         \in Seq(Seq(Seq(Parse!Chars)))
                  /\ Parse!ColumnGiven(i) \in Seq(Seq(Parse!Chars))
<1>1. DOMAIN batches = 1 .. Len(batches) /\ \A k \in DOMAIN batches : batches[k] \in Batch
  BY LenProperties
<1>2. [k \in DOMAIN batches |-> [r \in 1 .. batches[k].rows |-> r]] \in Seq(Seq(Nat))
  <2> DEFINE f == [k \in DOMAIN batches |-> [r \in 1 .. batches[k].rows |-> r]]
  <2>1. \A k \in DOMAIN batches : f[k] \in Seq(Nat)
    BY <1>1, BatchFacts
  <2>2. f = [k \in DOMAIN batches |-> f[k]]
    OBVIOUS
  <2> HIDE DEF f
  <2>3. [k \in DOMAIN batches |-> f[k]] \in Seq(Seq(Nat))
    BY <1>1, <2>1, Mapped
  <2> QED BY <2>2, <2>3 DEF f
<1>3. ASSUME NEW i \in 1 .. Len(parser)
      PROVE  [k \in DOMAIN batches |-> batches[k].columns[i]]
                 \in Seq(Seq(Seq(Parse!Chars)))
  <2> DEFINE f == [k \in DOMAIN batches |-> batches[k].columns[i]]
  <2>1. \A k \in DOMAIN batches : f[k] \in Seq(Seq(Parse!Chars))
    BY <1>1, BatchFacts
  <2>2. f = [k \in DOMAIN batches |-> f[k]]
    OBVIOUS
  <2> HIDE DEF f
  <2>3. [k \in DOMAIN batches |-> f[k]] \in Seq(Seq(Seq(Parse!Chars)))
    BY <1>1, <2>1, Mapped
  <2> QED BY <2>2, <2>3 DEF f
<1>4. Parse!RowsGiven \in Seq(Nat)
  <2>1. <<>> \in Seq(Nat)
    OBVIOUS
  <2> QED BY <1>2, <2>1, FlattenMore DEF Parse!RowsGiven
<1>5. ASSUME NEW i \in 1 .. Len(parser)
      PROVE  Parse!ColumnGiven(i) \in Seq(Seq(Parse!Chars))
  <2>1. <<>> \in Seq(Seq(Parse!Chars))
    OBVIOUS
  <2> QED BY <1>3, <2>1, FlattenMore DEF Parse!ColumnGiven
<1> QED
  BY <1>2, <1>3, <1>4, <1>5

(* What scratch is used for leaves the columns alone.                       *)
LEMMA SameColumns ==
    ASSUME UNCHANGED <<job, parser, offset, built, values>>, InColumns,
           scratch' \in Seq(Parse!Chars)
    PROVE  InColumns'
<1>1. /\ Parse!Chars' = Parse!Chars
      /\ Parse!RecordsBefore' = Parse!RecordsBefore
      /\ Parse!LineCount(Parse!Chunk)' = Parse!LineCount(Parse!Chunk)
      /\ \A r, k : /\ Parse!Shown(r, k)' = Parse!Shown(r, k)
                   /\ Parse!BadCell(r, k)' <=> Parse!BadCell(r, k)
  BY SameRead, SameChunk
<1>2. \A k \in 1 .. Len(built) + 1 : Gathered(k, Append(built, values)[k])'
  <2> SUFFICES ASSUME NEW k \in 1 .. Len(built) + 1
               PROVE  Gathered(k, Append(built, values)[k])'
    OBVIOUS
  <2>1. Gathered(k, Append(built, values)[k])
    BY DEF InColumns
  <2>2. Append(built', values')[k] = Append(built, values)[k]
    OBVIOUS
  <2> QED BY <1>1, <2>1, <2>2 DEF Gathered
<1> QED
  BY <1>1, <1>2 DEF InColumns

(* A value that cannot be read ends the parse at its place (builder.rs      *)
(* 43-68): every value before it in its column was good, in this chunk and  *)
(* in those before it.                                                      *)
LEMMA FailKeeps ==
    ASSUME VInv, Ready, UNCHANGED vars, Parse!Fail
    PROVE  VInv'
<1> DEFINE l == Len(values) + 1
           i == Len(built) + 1
           before == Parse!RecordsBefore
           line == Parse!Lines(Parse!Chunk)[l]
           v == Parse!Value(line.text, parser[i])
           at == Parse!FailsAt(parser[i], v.bytes)
           byte == offset + line.at + v.at + Parse!Min(at)
           K == Parse!KeptBytes(before + l, i)
           cell == Parse!Cell(before + l, i)
<1>1. /\ UNCHANGED <<job, parser, offset, values, built, batches>>
      /\ UNCHANGED ReadAtHand /\ scratch' = <<>>
  BY DEF Parse!Fail, vars, ReadAtHand
<1>2. LInv' /\ Ready'
  BY SameParser DEF VInv
<1>3. /\ offset < Len(job.unit)
      /\ l \in 1 .. Parse!LineCount(Parse!Chunk) /\ i \in 1 .. Len(parser)
      /\ Len(values) \in Nat /\ Len(built) \in Nat
      /\ Parse!LineAtHand = line /\ Parse!FieldAtHand = parser[i] /\ Parse!ValueAtHand = v
  <2>1. Parse!Building
    BY DEF Parse!Fail
  <2> QED BY <2>1, Building
<1>4. /\ at # {}
      /\ stopped' = <<[record |-> before + Len(values) + 1, field |-> i, byte |-> byte]>>
  BY <1>3 DEF Parse!Fail, Parse!Position
<1>5. /\ before \in Nat /\ AtALine' /\ Len(parser) \in Nat
      /\ before + Len(values) + 1 = before + l
      /\ DOMAIN parser = 1 .. Len(parser) /\ LInv /\ AtALine
  BY <1>1, <1>3, ChunkIs, ReadFacts DEF VInv, AtALine
<1>6. /\ UNCHANGED <<Parse!Records, Parse!Fields>>
      /\ \A r, k : /\ Parse!KeptBytes(r, k)' = Parse!KeptBytes(r, k)
                   /\ Parse!BadCell(r, k)' <=> Parse!BadCell(r, k)
  BY <1>1, SameRead
<1>7. /\ before + l \in Parse!Records /\ i \in Parse!Fields
      /\ v.bytes = cell /\ cell \in Seq(Bytes)
  <2>1. /\ before + l \in 1 .. Parse!LineCount(job.unit) /\ v.bytes = cell
        /\ cell \in Seq(Bytes)
    <3> HIDE DEF l, i
    <3> QED BY <1>3, <1>5, CellAtHand, CellType
  <2> QED BY <1>3, <1>5, <2>1, ReadFacts DEF Parse!Records, Parse!Fields
<1>8. /\ byte \in Nat
      /\ byte = IF parser[i].dtype = "String"
                THEN Parse!Min({p \in K : job.unit[p + 1] \in High \ DOMAIN job.table})
                ELSE Parse!Min(K)
  <2> HIDE DEF l, i, line, v
  <2>1. line = Parse!Lines(Parse!Chunk)[l] /\ v = Parse!Value(line.text, parser[i])
    BY DEF line, v
  <2> QED BY <1>3, <1>4, <1>5, <2>1, FailsThere
<1> HIDE DEF l, i, line, v, at, byte, K, cell, before
<1>9. Parse!BadCell(before + l, i)
  <2>1. Parse!FailsAt(parser[i], cell) # {}
    BY <1>4, <1>7 DEF at
  <2> QED BY <1>3, <1>5, <1>7, <2>1, FailsIffBad DEF cell
<1>10. \A r \in Parse!Records : r < before + l => ~Parse!BadCell(r, i)
  <2> TAKE r \in Parse!Records
  <2> HAVE r < before + l
  <2>1. r \in Nat /\ 1 <= r
    <3>1. Parse!LineCount(job.unit) \in Nat
      BY <1>5, ReadFacts, CountType
    <3> QED BY <1>5, <3>1, ReadFacts DEF Parse!Records
  <2>2. CASE r <= before
    <3>1. /\ Len(Parse!RowsGiven) = before
          /\ \A q \in DOMAIN Parse!RowsGiven : ~Parse!BadCell(q, i)
      BY <1>7, Zenon DEF VInv, Parse!HoldsTheCells, before, Parse!RecordsBefore
    <3>2. Parse!RowsGiven \in Seq(Nat)
      BY RowsType DEF VInv
    <3>3. r \in DOMAIN Parse!RowsGiven
      BY <1>5, <2>1, <2>2, <3>1, <3>2, LenProperties
    <3> QED BY <3>1, <3>3
  <2>3. CASE ~ (r <= before)
    <3>1. Gathered(i, values)
      <4>1. i \in 1 .. Len(built) + 1
        BY <1>3 DEF i
      <4>2. Append(built, values)[i] = values
        BY AppendProperties DEF VInv, InColumns, i
      <4>3. \A k \in 1 .. Len(built) + 1 : Gathered(k, Append(built, values)[k])
        BY DEF VInv, InColumns
      <4> QED BY <4>1, <4>2, <4>3, Zenon
    <3>2. r \in before + 1 .. before + Len(values)
      BY <1>3, <1>5, <2>1, <2>3 DEF l
    <3> QED BY <3>1, <3>2 DEF Gathered, before
  <2> QED BY <2>2, <2>3
<1>11. Stopped'
  <2> DEFINE p == [record |-> before + Len(values) + 1, field |-> i, byte |-> byte]
  <2>1. p \in [record : Nat, field : Nat, byte : Nat] /\ stopped' = <<p>>
    BY <1>3, <1>4, <1>5, <1>8 DEF i
  <2>2. \A q \in Parse!ToSet(stopped') : /\ q.record = before + l /\ q.field = i
                                         /\ q.byte = byte
    <3>1. \A x : {<<x>>[k] : k \in DOMAIN <<x>>} = {x}
      OBVIOUS
    <3>2. Parse!ToSet(stopped') = {p}
      BY <2>1, <3>1 DEF Parse!ToSet
    <3> QED BY <1>5, <3>2
  <2>3. Parse!PointsAtTheByte'
    <3> SUFFICES ASSUME NEW q \in Parse!ToSet(stopped')
                 PROVE  /\ q.record \in Parse!Records' /\ q.field \in Parse!Fields'
                        /\ Parse!BadCell(q.record, q.field)'
                        /\ IF parser[q.field].dtype = "String"
                           THEN q.byte = Parse!Min({b \in Parse!KeptBytes(q.record, q.field)' :
                                            job.unit[b + 1] \in High \ DOMAIN job.table})
                           ELSE q.byte = Parse!Min(Parse!KeptBytes(q.record, q.field)')
      BY <1>1, <1>5, ReadFacts DEF Parse!PointsAtTheByte
    <3>1. q.record = before + l /\ q.field = i /\ q.byte = byte
      BY <2>2
    <3>2. Parse!KeptBytes(q.record, q.field)' = K
      BY <1>6, <3>1 DEF K
    <3>3. Parse!BadCell(q.record, q.field)'
      BY <1>6, <1>9, <3>1
    <3> QED BY <1>6, <1>7, <1>8, <3>1, <3>2, <3>3
  <2>4. Parse!FirstOfItsColumn'
    <3> SUFFICES ASSUME NEW q \in Parse!ToSet(stopped'), NEW r \in Parse!Records',
                        r < q.record
                 PROVE  ~Parse!BadCell(r, q.field)'
      BY DEF Parse!FirstOfItsColumn
    <3> QED BY <1>6, <1>10, <2>2
  <2> HIDE DEF p
  <2> QED BY <2>1, <2>3, <2>4 DEF Stopped
<1>12. InColumns' /\ batches' \in Seq(Batch') /\ Parse!HoldsTheCells'
  <2>1. scratch' \in Seq(Parse!Chars)
    BY <1>1, EmptySeq
  <2> QED BY <1>1, <2>1, SameRead, SameBatches, SameColumns DEF VInv
<1> QED
  BY <1>2, <1>5, <1>11, <1>12 DEF VInv

(* A column with a value for each line is finished.                         *)
LEMMA EndColumnKeeps ==
    ASSUME VInv, Ready, UNCHANGED vars, Parse!EndColumn
    PROVE  VInv'
<1> DEFINE n == Len(built)
           sofar == Append(built, values)
           before == Parse!RecordsBefore
<1>1. /\ UNCHANGED <<job, parser, offset, batches, stopped>> /\ UNCHANGED ReadAtHand
      /\ built' = sofar /\ values' = <<>> /\ scratch' = <<>>
  BY DEF Parse!EndColumn, Parse!NewBuilder, vars, ReadAtHand
<1>2. LInv' /\ Ready'
  BY SameParser DEF VInv
<1>3. /\ offset < Len(job.unit) /\ stopped = <<>>
      /\ n < Len(parser) /\ Len(values) = Parse!LineCount(Parse!Chunk)
  BY ReadFacts, ChunkIs DEF VInv, Parse!EndColumn, Parse!Parsing
<1>4. before \in Nat /\ AtALine' /\ Len(parser) \in Nat
  BY <1>1, ChunkIs, ReadFacts DEF VInv, AtALine
<1>5. /\ Parse!Chars' = Parse!Chars
      /\ before' = before
      /\ Parse!LineCount(Parse!Chunk)' = Parse!LineCount(Parse!Chunk)
      /\ Parse!LineCount(Parse!Chunk) \in Nat
      /\ \A r, k : /\ Parse!Shown(r, k)' = Parse!Shown(r, k)
                   /\ Parse!BadCell(r, k)' <=> Parse!BadCell(r, k)
  BY <1>1, SameRead, SameChunk, ChunkIs DEF VInv
<1>6. /\ values \in Seq(Seq(Parse!Chars)) /\ built \in Seq(Seq(Seq(Parse!Chars)))
      /\ n \in Nat
      /\ \A k \in 1 .. n + 1 : Gathered(k, sofar[k])
      /\ \A k \in 1 .. n : Len(built[k]) = Parse!LineCount(Parse!Chunk)
  BY LenProperties DEF VInv, InColumns
<1>7. /\ sofar \in Seq(Seq(Seq(Parse!Chars))) /\ Len(sofar) = n + 1
      /\ sofar[n + 1] = values /\ \A k \in 1 .. n : sofar[k] = built[k]
  BY <1>6, AppendProperties
<1>8. /\ <<>> \in Seq(Seq(Parse!Chars)) /\ <<>> \in Seq(Parse!Chars)
      /\ Len(<<>>) = 0
  OBVIOUS
<1> HIDE DEF n, sofar, before
<1>9. /\ \A k \in 1 .. n + 1 : Append(sofar, <<>>)[k] = sofar[k]
      /\ Append(sofar, <<>>)[n + 2] = <<>>
  <2>1. Append(sofar, <<>>)[Len(sofar) + 1] = <<>>
    BY <1>7, <1>8, AppendProperties
  <2>2. Len(sofar) + 1 = n + 2
    BY <1>6, <1>7
  <2> QED BY <1>7, <1>8, <2>1, <2>2, AppendProperties
<1>10. \A k \in 1 .. n + 2 : Gathered(k, Append(built, values)[k])'
  <2> SUFFICES ASSUME NEW k \in 1 .. n + 2
               PROVE  Gathered(k, Append(built, values)[k])'
    OBVIOUS
  <2>1. Append(built', values') = Append(sofar, <<>>)
    BY <1>1
  <2>2. CASE k \in 1 .. n + 1
    <3>1. Gathered(k, sofar[k]) /\ Append(built', values')[k] = sofar[k]
      BY <1>6, <1>9, <2>1, <2>2
    <3> QED BY <1>5, <3>1 DEF Gathered, before
  <2>3. CASE k = n + 2
    <3>1. Append(built', values')[k] = <<>>
      BY <1>9, <2>1, <2>3
    <3>2. \A r \in before + 1 .. before + 0 : FALSE
      BY <1>4
    <3>3. /\ Append(built', values')[k] \in Seq(Seq(Parse!Chars))
          /\ Len(Append(built', values')[k]) <= Parse!LineCount(Parse!Chunk)
          /\ \A r \in before + 1 .. before + Len(Append(built', values')[k]) : FALSE
      BY <1>5, <1>8, <3>1, <3>2
    <3> HIDE <3>1, <2>1, <2>3
    <3> QED BY <1>5, <3>3 DEF Gathered, before
  <2>4. k \in 1 .. n + 1 \/ k = n + 2
    BY <1>6
  <2> QED BY <2>2, <2>3, <2>4
<1>11. \A k \in 1 .. Len(sofar) : Len(sofar[k]) = Parse!LineCount(Parse!Chunk)
  <2> TAKE k \in 1 .. Len(sofar)
  <2>1. k \in 1 .. n \/ k = n + 1
    BY <1>6, <1>7
  <2> QED BY <1>3, <1>6, <1>7, <2>1
<1>12. InColumns'
  <2>1. Len(sofar) <= Len(parser) /\ Len(sofar) + 1 = n + 2
    BY <1>3, <1>4, <1>6, <1>7 DEF n
  <2> QED BY <1>1, <1>5, <1>7, <1>8, <1>10, <1>11, <2>1 DEF InColumns
<1>13. batches' \in Seq(Batch') /\ Parse!HoldsTheCells' /\ Stopped'
  BY <1>1, <1>3, SameRead, SameBatches, NotStopped DEF VInv
<1> QED
  BY <1>2, <1>4, <1>12, <1>13 DEF VInv

(* w is v and then e, element by element.                                   *)
Appended(v, e, w) ==
    /\ w = [k \in 1 .. Len(v) + 1 |-> w[k]]
    /\ \A k \in 1 .. Len(v) : w[k] = v[k]
    /\ w[Len(v) + 1] = e

LEMMA AppendedIs ==
    ASSUME NEW T, NEW v \in Seq(T), NEW e \in T, NEW w, Appended(v, e, w)
    PROVE  w = Append(v, e)
<1>0. /\ w = [k \in 1 .. Len(v) + 1 |-> w[k]]
      /\ \A k \in 1 .. Len(v) : w[k] = v[k]
      /\ w[Len(v) + 1] = e
  BY DEF Appended
<1>1. /\ Append(v, e) \in Seq(T) /\ Len(Append(v, e)) = Len(v) + 1 /\ Len(v) \in Nat
      /\ \A k \in 1 .. Len(v) : Append(v, e)[k] = v[k]
      /\ Append(v, e)[Len(v) + 1] = e
  BY AppendProperties, LenProperties
<1>2. \A k \in 1 .. Len(v) + 1 : w[k] = Append(v, e)[k]
  <2> TAKE k \in 1 .. Len(v) + 1
  <2>1. k \in 1 .. Len(v) \/ k = Len(v) + 1
    BY <1>1
  <2> QED BY <1>0, <1>1, <2>1
<1>3. DOMAIN Append(v, e) = 1 .. Len(v) + 1
  BY <1>1, LenProperties
<1>4. \A S : \A s \in Seq(S) : s = [k \in DOMAIN s |-> s[k]]
  OBVIOUS
<1>5. Append(v, e) = [k \in 1 .. Len(v) + 1 |-> Append(v, e)[k]]
  BY <1>1, <1>3, <1>4
<1> QED
  BY <1>0, <1>2, <1>5

(* A chunk's rows follow those before it.                                   *)
LEMMA EndChunkHolds ==
    ASSUME VInv, Ready, UNCHANGED vars, Parse!EndChunk
    PROVE  Parse!HoldsTheCells' /\ batches' \in Seq(Batch')
<1> DEFINE m == Parse!LineCount(Parse!Chunk)
           before == Parse!RecordsBefore
           batch == [rows |-> m, columns |-> built]
           u == job.unit
           b == Parse!ChunkLimit
<1>1. /\ UNCHANGED <<job, parser>> /\ UNCHANGED ReadAtHand
      /\ offset' = b /\ batches' = Append(batches, batch)
  BY ChunkIs DEF Parse!EndChunk, vars, ReadAtHand, VInv
<1>2. /\ offset < Len(u) /\ Len(built) = Len(parser) /\ values = <<>>
  BY ReadFacts DEF VInv, Parse!EndChunk, Parse!Parsing, InColumns
<1>3. /\ m \in Nat /\ before \in Nat /\ Len(parser) \in Nat /\ u \in Seq(Bytes)
      /\ before = Parse!LineCount(Parse!Slice(u, 0, offset))
      /\ m = Parse!LineCount(Parse!Slice(u, offset, b))
      /\ b \in Nat /\ offset < b /\ b <= Len(u)
      /\ ReadAtHand.unit = u /\ Parse!Fields = 1 .. Len(parser)
      /\ offset \in Nat /\ (offset = 0 \/ u[offset] = LF)
  BY <1>2, ChunkIs, ReadFacts DEF VInv, AtALine, Parse!Fields
<1>4. /\ built \in Seq(Seq(Seq(Parse!Chars))) /\ batches \in Seq(Batch)
      /\ \A i \in 1 .. Len(parser) : /\ Gathered(i, built[i])
                                     /\ Len(built[i]) = m
  <2>1. /\ built \in Seq(Seq(Seq(Parse!Chars))) /\ batches \in Seq(Batch)
        /\ \A i \in 1 .. Len(parser) : Len(built[i]) = m
        /\ \A i \in 1 .. Len(built) + 1 : Gathered(i, Append(built, values)[i])
    BY <1>2 DEF VInv, InColumns
  <2>2. values \in Seq(Seq(Parse!Chars))
    BY DEF VInv, InColumns
  <2>3. \A i \in 1 .. Len(built) : Append(built, values)[i] = built[i]
    BY <2>1, <2>2, AppendProperties
  <2>4. \A i \in 1 .. Len(parser) : i \in 1 .. Len(built) + 1 /\ i \in 1 .. Len(built)
    BY <1>2, <1>3
  <2> HIDE DEF m
  <2> QED BY <2>1, <2>3, <2>4
<1>5. batch \in Batch
  BY <1>2, <1>3, <1>4 DEF Batch
<1>6. Parse!LineCount(Parse!Slice(u, 0, b)) = before + m
  <2>1. offset <= b
    BY <1>3
  <2> HIDE DEF u, b, before, m
  <2> QED BY <1>3, <2>1, CountAtCut
<1>7. /\ Len(Parse!RowsGiven) = before
      /\ \A i \in 1 .. Len(parser) :
             /\ \A r \in DOMAIN Parse!RowsGiven : ~Parse!BadCell(r, i)
             /\ Parse!ColumnGiven(i)
                    = [r \in DOMAIN Parse!RowsGiven |-> Parse!Shown(r, i)]
  <2>1. Parse!HoldsTheCells
    BY DEF VInv
  <2> HIDE DEF u, before
  <2> QED BY <1>3, <2>1, Zenon DEF Parse!HoldsTheCells
<1>8. /\ [k \in DOMAIN batches |-> [r \in 1 .. batches[k].rows |-> r]] \in Seq(Seq(Nat))
      /\ Parse!RowsGiven \in Seq(Nat)
      /\ \A i \in 1 .. Len(parser) :
             /\ [k \in DOMAIN batches |-> batches[k].columns[i]]
                    \in Seq(Seq(Seq(Parse!Chars)))
             /\ Parse!ColumnGiven(i) \in Seq(Seq(Parse!Chars))
  BY <1>4, RowsType
<1>9. DOMAIN Parse!RowsGiven = 1 .. before
  BY <1>7, <1>8, LenProperties
<1> HIDE DEF batch, m, before, u, b
<1>10. /\ DOMAIN batches = 1 .. Len(batches) /\ Len(batches) \in Nat
       /\ DOMAIN batches' = 1 .. Len(batches) + 1
       /\ \A k \in 1 .. Len(batches) : batches'[k] = batches[k]
       /\ batches'[Len(batches) + 1] = batch
       /\ batches' \in Seq(Batch)
  BY <1>1, <1>4, <1>5, AppendProperties, LenProperties
<1>11. batch.rows = m /\ batch.columns = built
  BY DEF batch
<1>12. Parse!RowsGiven' = Parse!RowsGiven \o [r \in 1 .. m |-> r]
  <2> DEFINE v == [k \in DOMAIN batches |-> [r \in 1 .. batches[k].rows |-> r]]
             w == [k \in DOMAIN batches' |-> [r \in 1 .. batches'[k].rows |-> r]]
             e == [r \in 1 .. m |-> r]
  <2>1. e \in Seq(Nat)
    BY <1>5, <1>11, BatchFacts
  <2>2. Appended(v, e, w)
    <3>1. DOMAIN v = 1 .. Len(batches) /\ Len(v) = Len(batches)
      BY <1>10
    <3>2. w = [k \in 1 .. Len(batches) + 1 |-> w[k]]
      BY <1>10
    <3>3. \A k \in 1 .. Len(batches) : w[k] = v[k]
      <4>1. \A k \in 1 .. Len(batches) : k \in 1 .. Len(batches) + 1
        BY <1>10
      <4> QED BY <1>10, <4>1
    <3>4. w[Len(batches) + 1] = e
      <4>1. Len(batches) + 1 \in 1 .. Len(batches) + 1
        BY <1>10
      <4> QED BY <1>10, <1>11, <4>1
    <3> HIDE DEF v, w, e
    <3> QED BY <3>1, <3>2, <3>3, <3>4 DEF Appended
  <2>3. v \in Seq(Seq(Nat)) /\ Parse!RowsGiven = Parse!FlattenSeq(v)
    BY <1>8 DEF Parse!RowsGiven
  <2>4. Parse!RowsGiven' = Parse!FlattenSeq(w)
    BY DEF Parse!RowsGiven
  <2> HIDE DEF v, w, e
  <2>5. w = Append(v, e)
    BY <2>1, <2>2, <2>3, AppendedIs
  <2>6. Parse!FlattenSeq(Append(v, e)) = Parse!FlattenSeq(v) \o e
    BY <2>1, <2>3, FlattenMore
  <2> QED BY <2>3, <2>4, <2>5, <2>6 DEF e
<1>13. ASSUME NEW i \in 1 .. Len(parser)
       PROVE  Parse!ColumnGiven(i)' = Parse!ColumnGiven(i) \o built[i]
  <2> DEFINE v == [k \in DOMAIN batches |-> batches[k].columns[i]]
             w == [k \in DOMAIN batches' |-> batches'[k].columns[i]]
             e == built[i]
  <2>1. e \in Seq(Seq(Parse!Chars))
    BY <1>5, <1>11, BatchFacts
  <2>2. Appended(v, e, w)
    <3>1. DOMAIN v = 1 .. Len(batches) /\ Len(v) = Len(batches)
      BY <1>10
    <3>2. w = [k \in 1 .. Len(batches) + 1 |-> w[k]]
      BY <1>10
    <3>3. \A k \in 1 .. Len(batches) : w[k] = v[k]
      <4>1. \A k \in 1 .. Len(batches) : k \in 1 .. Len(batches) + 1
        BY <1>10
      <4> QED BY <1>10, <4>1
    <3>4. w[Len(batches) + 1] = e
      <4>1. Len(batches) + 1 \in 1 .. Len(batches) + 1
        BY <1>10
      <4> QED BY <1>10, <1>11, <4>1
    <3> HIDE DEF v, w, e
    <3> QED BY <3>1, <3>2, <3>3, <3>4 DEF Appended
  <2>3. v \in Seq(Seq(Seq(Parse!Chars))) /\ Parse!ColumnGiven(i) = Parse!FlattenSeq(v)
    BY <1>8 DEF Parse!ColumnGiven
  <2>4. Parse!ColumnGiven(i)' = Parse!FlattenSeq(w)
    BY DEF Parse!ColumnGiven
  <2> HIDE DEF v, w, e
  <2>5. w = Append(v, e)
    BY <2>1, <2>2, <2>3, AppendedIs
  <2>6. Parse!FlattenSeq(Append(v, e)) = Parse!FlattenSeq(v) \o e
    BY <2>1, <2>3, FlattenMore
  <2> QED BY <2>3, <2>4, <2>5, <2>6 DEF e
<1>14. Len(Parse!RowsGiven') = before + m /\ DOMAIN Parse!RowsGiven' = 1 .. before + m
  <2> DEFINE e == [r \in 1 .. m |-> r]
  <2>1. e \in Seq(Nat) /\ Len(e) = m
    BY <1>3
  <2> HIDE DEF e
  <2>2. Parse!RowsGiven \o e \in Seq(Nat)
    BY <1>8, <2>1, ConcatProperties
  <2>3. Len(Parse!RowsGiven \o e) = before + m
    BY <1>7, <1>8, <2>1, ConcatProperties
  <2>4. Parse!RowsGiven' = Parse!RowsGiven \o e
    BY <1>12 DEF e
  <2> QED BY <2>2, <2>3, <2>4, LenProperties
<1>15. ASSUME NEW i \in 1 .. Len(parser)
       PROVE  /\ \A r \in 1 .. before + m : ~Parse!BadCell(r, i)
              /\ Parse!ColumnGiven(i) \o built[i]
                     = [r \in 1 .. before + m |-> Parse!Shown(r, i)]
  <2> DEFINE given == Parse!ColumnGiven(i)
             c == built[i]
             all == given \o c
  <2>1. /\ given \in Seq(Seq(Parse!Chars)) /\ given = [r \in 1 .. before |-> Parse!Shown(r, i)]
        /\ \A r \in 1 .. before : ~Parse!BadCell(r, i)
    BY <1>7, <1>8, <1>9
  <2>2. /\ c \in Seq(Seq(Parse!Chars)) /\ Len(c) = m
        /\ \A r \in before + 1 .. before + m :
               c[r - before] = Parse!Shown(r, i) /\ ~Parse!BadCell(r, i)
    BY <1>4 DEF Gathered, before
  <2>3. /\ all \in Seq(Seq(Parse!Chars)) /\ Len(given) = before /\ Len(all) = before + m
        /\ \A r \in 1 .. before + m : all[r] = IF r <= before THEN given[r]
                                               ELSE c[r - before]
    <3>1. Len(given) = before
      BY <1>3, <2>1
    <3>2. given \in Seq(Seq(Parse!Chars)) /\ c \in Seq(Seq(Parse!Chars)) /\ Len(c) = m
      BY <2>1, <2>2
    <3> HIDE DEF given, c
    <3>3. given \o c \in Seq(Seq(Parse!Chars))
      BY <3>2, ConcatProperties
    <3>4. Len(given \o c) = before + m
      BY <3>1, <3>2, ConcatProperties
    <3>5. \A r \in 1 .. before + m : (given \o c)[r] = IF r <= before THEN given[r]
                                                      ELSE c[r - before]
      BY <3>1, <3>2, ConcatProperties
    <3> QED BY <3>1, <3>3, <3>4, <3>5
  <2> HIDE DEF c
  <2>4. \A r \in 1 .. before + m : all[r] = Parse!Shown(r, i) /\ ~Parse!BadCell(r, i)
    <3> TAKE r \in 1 .. before + m
    <3> HIDE DEF given, all
    <3>1. CASE r <= before
      <4>1. r \in 1 .. before
        BY <1>3, <3>1
      <4> QED BY <2>1, <2>3, <3>1, <4>1
    <3>2. CASE ~ (r <= before)
      <4>1. r \in before + 1 .. before + m
        BY <1>3, <3>2
      <4> QED BY <2>2, <2>3, <3>2, <4>1
    <3> QED BY <3>1, <3>2
  <2>5. all = [r \in 1 .. before + m |-> all[r]]
    <3>1. \A S : \A s \in Seq(S) : s = [r \in 1 .. Len(s) |-> s[r]]
      OBVIOUS
    <3> HIDE DEF all
    <3> QED BY <2>3, <3>1
  <2>6. all = [r \in 1 .. before + m |-> Parse!Shown(r, i)]
    <3> HIDE DEF all
    <3> QED BY <2>4, <2>5
  <2> QED BY <2>4, <2>6 DEF c
<1>16. /\ Parse!Fields' = 1 .. Len(parser)
       /\ \A r, i : /\ Parse!Shown(r, i)' = Parse!Shown(r, i)
                    /\ Parse!BadCell(r, i)' <=> Parse!BadCell(r, i)
       /\ Batch' = Batch
  BY <1>1, <1>3, SameRead
<1>17. Parse!HoldsTheCells'
  <2>1. Len(Parse!RowsGiven') = Parse!LineCount(Parse!Slice(ReadAtHand'.unit, 0, offset'))
    BY <1>1, <1>3, <1>6, <1>14
  <2>2. ASSUME NEW i \in Parse!Fields'
        PROVE  /\ \A r \in DOMAIN Parse!RowsGiven' : ~Parse!BadCell(r, i)'
               /\ Parse!ColumnGiven(i)' = [r \in DOMAIN Parse!RowsGiven' |-> Parse!Shown(r, i)']
    BY <1>13, <1>14, <1>15, <1>16
  <2> QED BY <2>1, <2>2 DEF Parse!HoldsTheCells
<1> QED
  BY <1>10, <1>16, <1>17

(* Lines can be counted.                                                    *)
Countable == Parse!LineCount(Parse!Chunk) \in Nat /\ Parse!RecordsBefore \in Nat

LEMMA Counts == LInv /\ AtALine => Countable
BY ChunkIs DEF Countable

(* The columns of a chunk are the next rows of the batches (read_impl.rs    *)
(* 205-230).                                                                *)
LEMMA EndChunkKeeps ==
    ASSUME VInv, Ready, UNCHANGED vars, Parse!EndChunk
    PROVE  VInv'
<1>1. /\ UNCHANGED <<job, parser, stopped, scratch>>
      /\ stopped = <<>> /\ built' = <<>> /\ values' = values /\ offset' = Parse!ChunkLimit
      /\ offset < Len(job.unit) /\ values = <<>>
  BY ReadFacts DEF Parse!EndChunk, Parse!Parsing, vars, VInv, InColumns
<1>2. LInv' /\ Ready'
  BY SameParser DEF VInv
<1>3. AtALine'
  <2>1. /\ Parse!ChunkLimit \in Nat /\ Parse!ChunkLimit <= Len(job.unit)
        /\ Parse!ChunkLimit = Len(job.unit) \/ job.unit[Parse!ChunkLimit] = LF
    BY <1>1, ChunkIs DEF VInv
  <2>2. Len(job.unit) \in Nat
    BY ReadFacts DEF VInv
  <2>3. Parse!ChunkLimit \in 0 .. Len(job.unit)
    BY <2>1, <2>2
  <2> QED BY <1>1, <2>1, <2>3 DEF AtALine
<1>4. InColumns'
  <2>1. Parse!LineCount(Parse!Chunk)' \in Nat /\ Parse!RecordsBefore' \in Nat
    <3>1. Countable'
      BY <1>2, <1>3, Counts, PTL
    <3> QED BY <3>1 DEF Countable
  <2>2. /\ Len(built') = 0 /\ values' = <<>> /\ scratch' = scratch /\ Parse!Chars' = Parse!Chars
        /\ 0 <= Len(parser) /\ scratch \in Seq(Parse!Chars)
    BY <1>1, ReadFacts, SameRead DEF VInv, InColumns
  <2>3. \A S : <<>> \in Seq(S)
    OBVIOUS
  <2>4. \A k \in 1 .. Len(built') + 1 : Gathered(k, Append(built, values)[k])'
    <3> SUFFICES ASSUME NEW k \in 1 .. Len(built') + 1
                 PROVE  Gathered(k, Append(built, values)[k])'
      OBVIOUS
    <3>1. Append(<<>>, <<>>)[1] = <<>> /\ k = 1
      BY <2>2
    <3>2. Append(built', values')[k] = <<>>
      BY <1>1, <2>2, <3>1
    <3>3. \A r \in Parse!RecordsBefore' + 1 .. Parse!RecordsBefore' + 0 : FALSE
      <4>1. \A n \in Nat : \A r \in n + 1 .. n + 0 : FALSE
        OBVIOUS
      <4> QED BY <2>1, <4>1
    <3>4. Len(<<>>) = 0 /\ 0 <= Parse!LineCount(Parse!Chunk)'
      BY <2>1
    <3> QED BY <2>3, <3>2, <3>3, <3>4 DEF Gathered
  <2>5. \A k \in 1 .. Len(built') : FALSE
    BY <2>2
  <2> QED BY <1>1, <2>2, <2>3, <2>4, <2>5 DEF InColumns
<1>5. Stopped'
  BY <1>1, NotStopped
<1> QED
  BY <1>2, <1>3, <1>4, <1>5, EndChunkHolds DEF VInv

LEMMA InitVInv == InitAll => VInv
<1> SUFFICES ASSUME InitAll PROVE VInv
  OBVIOUS
<1>1. LInv
  BY InitLInv DEF InitAll
<1>2. Untouched
  BY DEF InitAll, Parse!Init, Untouched
<1> QED
  BY <1>1, <1>2, UntouchedHolds

LEMMA NextVInv == VInv /\ [NextAll]_<<vars, parseVars>> => VInv'
<1> SUFFICES ASSUME VInv, [NextAll]_<<vars, parseVars>> PROVE VInv'
  OBVIOUS
<1>1. CASE MakeParser
  <2>1. ~Ready
    BY <1>1 DEF MakeParser, Ready, Next, NotJson, RejectField, AddField, EndSchema, RejectName,
               PickName, EndCall, NewParser, AtField, AtName
  <2>2. Untouched'
    BY <1>1, <2>1 DEF VInv, MakeParser, Untouched, parseVars
  <2>3. LInv'
    BY <1>1, NextLInv DEF VInv, MakeParser
  <2> QED BY <2>2, <2>3, UntouchedHolds, PTL
<1>2. CASE ParseUnit
  <2>1. Ready /\ UNCHANGED vars /\ Parse!Next
    BY <1>2 DEF ParseUnit, Ready
  <2> QED BY <2>1, AppendKeeps, FailKeeps, EndColumnKeeps, EndChunkKeeps DEF Parse!Next
<1>3. CASE UNCHANGED <<vars, parseVars>>
  <2>1. /\ UNCHANGED vars /\ UNCHANGED <<job, parser, pc, error>>
        /\ UNCHANGED <<offset, values, scratch, built, batches, stopped>>
    BY <1>3 DEF vars, parseVars
  <2>2. LInv' /\ Ready' = Ready
    BY <2>1, SameParser DEF VInv
  <2>3. AtALine' /\ (~Ready' => Untouched')
    BY <2>1, <2>2 DEF VInv, AtALine, Untouched
  <2>4. /\ Parse!Chars' = Parse!Chars /\ Batch' = Batch
        /\ UNCHANGED <<ReadAtHand, Parse!Records, Parse!Fields>>
        /\ \A r, i : /\ Parse!KeptBytes(r, i)' = Parse!KeptBytes(r, i)
                     /\ Parse!BadCell(r, i)' <=> Parse!BadCell(r, i)
    BY <2>1, SameRead
  <2>5. InColumns'
    BY <2>1, <2>4, SameColumns DEF VInv, InColumns
  <2>6. batches' \in Seq(Batch') /\ Parse!HoldsTheCells'
    BY <2>1, <2>4, SameBatches DEF VInv
  <2>7. Stopped'
    <3>1. Parse!ToSet(stopped)' = Parse!ToSet(stopped)
      BY <2>1
    <3>2. Parse!PointsAtTheByte => Parse!PointsAtTheByte'
      BY <2>4, <3>1 DEF Parse!PointsAtTheByte
    <3>3. Parse!FirstOfItsColumn => Parse!FirstOfItsColumn'
      BY <2>4, <3>1 DEF Parse!FirstOfItsColumn
    <3> QED BY <2>1, <3>2, <3>3 DEF VInv, Stopped
  <2> QED BY <2>2, <2>3, <2>5, <2>6, <2>7 DEF VInv
<1> QED
  BY <1>1, <1>2, <1>3 DEF NextAll

LEMMA ParseInvariance == SpecAll => []VInv
BY InitVInv, NextVInv, PTL DEF SpecAll

(* Of every unit, chunk size, table and layout: the batches hold the unit's *)
(* records, one row for each with its own values, trimmed, decoded, null    *)
(* where blank or past the end of a short line, and no row of a record that *)
(* cannot be read (builder.rs 28-78, encoding.rs 26-50, field.rs 1-8,       *)
(* read_impl.rs 205-230).                                                   *)
THEOREM ValuesAreTheUnits == SpecAll => []HoldsTheCells
<1>1. VInv => HoldsTheCells
  BY DEF VInv, HoldsTheCells
<1> QED
  BY <1>1, ParseInvariance, PTL

(* Of all of those: an error is placed at the very byte that cannot be      *)
(* read, or at the value that is no number, in its record of the unit       *)
(* (read_impl.rs 213-219, builder.rs 36-68).                                *)
THEOREM ErrorsAreWhereTheyAre == SpecAll => []PointsAtTheByte
<1>1. VInv => PointsAtTheByte
  <2>1. stopped = <<>> => Parse!PointsAtTheByte
    BY DEF Parse!PointsAtTheByte, Parse!ToSet
  <2> QED BY <2>1 DEF VInv, Stopped, PointsAtTheByte
<1> QED
  BY <1>1, ParseInvariance, PTL

(* Of all of those: an error is the first in its column, wherever chunks    *)
(* are cut (builder.rs 43-68).                                              *)
THEOREM ErrorsAreFirst == SpecAll => []FirstOfItsColumn
<1>1. VInv => FirstOfItsColumn
  <2>1. stopped = <<>> => Parse!FirstOfItsColumn
    BY DEF Parse!FirstOfItsColumn, Parse!ToSet
  <2> QED BY <2>1 DEF VInv, Stopped, FirstOfItsColumn
<1> QED
  BY <1>1, ParseInvariance, PTL

(* What the parser and the job make is a unit Columns can parse.            *)
LEMMA ReadType == LInv => ReadAtHand \in Reads
<1> SUFFICES ASSUME LInv PROVE ReadAtHand \in Reads
  OBVIOUS
<1>1. job \in Jobs
  BY DEF LInv, Schema
<1>2. /\ job.unit \in Seq(Bytes) /\ job.size \in Nat \ {0} /\ parser \in Seq(Numbered)
      /\ DOMAIN parser = 1 .. Len(parser) /\ Len(parser) \in Nat
  BY ReadFacts
<1>3. Numbered \subseteq Field
  <2> SUFFICES ASSUME NEW n \in Numbered PROVE n \in Field
    OBVIOUS
  <2>1. /\ n \in [name : {job.layout[k].name : k \in DOMAIN job.layout},
                  start : 0 .. UsizeMax, len : 1 .. UsizeMax, dtype : {"String", "Float64"}]
    BY DEF Numbered
  <2>2. n = [name |-> n.name, start |-> n.start, len |-> n.len, dtype |-> n.dtype]
    BY <2>1
  <2>3. PICK k \in DOMAIN job.layout : n.name = job.layout[k].name
    BY <2>1
  <2>4. job.layout[k] \in ToSet(job.layout)
    BY Zenon DEF ToSet
  <2>5. n.name \in UNION {{f.name : f \in ToSet(j.layout)} : j \in Jobs}
    <3> DEFINE N(j) == {f.name : f \in ToSet(j.layout)}
    <3>1. n.name \in N(job)
      BY <2>3, <2>4, Zenon
    <3> HIDE DEF N
    <3>2. n.name \in UNION {N(j) : j \in Jobs}
      BY <1>1, <3>1, Zenon
    <3> QED BY <3>2 DEF N
  <2>6. n.start \in Nat /\ n.len \in Nat \ {0} /\ n.dtype \in {"String", "Float64"}
    BY <2>1, LayoutAssumption
  <2> QED BY <2>2, <2>5, <2>6, Zenon DEF Field
<1>4. parser \in Seq(Field)
  <2>1. \A S, T : S \subseteq T => \A s \in Seq(S) : s \in Seq(T)
    OBVIOUS
  <2> QED BY <1>2, <1>3, <2>1, Zenon
<1>5. job.table \in {j.table : j \in Jobs}
  BY <1>1
<1> QED
  BY <1>2, <1>4, <1>5 DEF ReadAtHand, Reads

LEMMA TypesHold == VInv => ParseTypes
<1> SUFFICES ASSUME VInv PROVE ParseTypes
  OBVIOUS
<1>1. TypeInvariant /\ ReadAtHand \in Reads
  BY LayoutTypes, ReadType DEF VInv
<1>2. offset \in 0 .. Len(ReadAtHand.unit)
  BY ReadFacts DEF VInv, AtALine
<1>3. /\ values \in Seq(Seq(Parse!Chars)) /\ scratch \in Seq(Parse!Chars)
      /\ built \in Seq(Seq(Seq(Parse!Chars))) /\ Len(built) <= Len(ReadAtHand.fields)
      /\ \A i \in 1 .. Len(built) : Len(built[i]) = Parse!LineCount(Parse!Chunk)
  BY ReadFacts DEF VInv, InColumns
<1>4. Len(values) <= Parse!LineCount(Parse!Chunk)
  <2>1. Append(built, values)[Len(built) + 1] = values /\ Len(built) \in Nat
    BY <1>3, AppendProperties, LenProperties
  <2>2. Len(built) + 1 \in 1 .. Len(built) + 1
    BY <2>1
  <2>3. Gathered(Len(built) + 1, values)
    BY <2>1, <2>2, Zenon DEF VInv, InColumns
  <2> QED BY <2>3 DEF Gathered
<1>5. \A S : \A s \in Seq(S) : \A c \in Parse!ToSet(s) : \E k \in 1 .. Len(s) :
          c = s[k] /\ s[k] \in S
  <2> SUFFICES ASSUME NEW S, NEW s \in Seq(S), NEW c \in Parse!ToSet(s)
               PROVE  \E k \in 1 .. Len(s) : c = s[k] /\ s[k] \in S
    OBVIOUS
  <2>1. PICK k \in DOMAIN s : c = s[k]
    BY Zenon DEF Parse!ToSet
  <2>2. k \in 1 .. Len(s) /\ s[k] \in S
    BY LenProperties
  <2> QED BY <2>1, <2>2
<1>6. \A c \in Parse!ToSet(built) :
          c \in Seq(Seq(Parse!Chars)) /\ Len(c) = Parse!LineCount(Parse!Chunk)
  BY <1>3, <1>5
<1>7. \A b \in Parse!ToSet(batches) :
          /\ Len(b.columns) = Len(ReadAtHand.fields)
          /\ \A c \in Parse!ToSet(b.columns) : c \in Seq(Seq(Parse!Chars)) /\ Len(c) = b.rows
  <2> SUFFICES ASSUME NEW b \in Parse!ToSet(batches)
               PROVE  /\ Len(b.columns) = Len(ReadAtHand.fields)
                      /\ \A c \in Parse!ToSet(b.columns) :
                             c \in Seq(Seq(Parse!Chars)) /\ Len(c) = b.rows
    OBVIOUS
  <2>1. b \in Batch
    BY <1>5 DEF VInv
  <2>2. /\ b.columns \in Seq(Seq(Seq(Parse!Chars))) /\ Len(b.columns) = Len(parser)
        /\ \A i \in 1 .. Len(parser) : Len(b.columns[i]) = b.rows
    BY <2>1 DEF Batch
  <2>3. \A c \in Parse!ToSet(b.columns) : c \in Seq(Seq(Parse!Chars)) /\ Len(c) = b.rows
    <3> TAKE c \in Parse!ToSet(b.columns)
    <3>1. PICK i \in 1 .. Len(b.columns) :
              c = b.columns[i] /\ b.columns[i] \in Seq(Seq(Parse!Chars))
      BY <1>5, <2>2, Zenon
    <3> QED BY <2>2, <3>1
  <2> QED BY <2>2, <2>3, ReadFacts DEF VInv
<1>8. stopped \in Seq([record : Nat, field : Nat, byte : Nat]) /\ Len(stopped) <= 1
  <2>1. \A S : \A p \in S : <<p>> \in Seq(S) /\ Len(<<p>>) <= 1
    OBVIOUS
  <2>2. \A S : <<>> \in Seq(S) /\ Len(<<>>) <= 1
    OBVIOUS
  <2> QED BY <2>1, <2>2, Zenon DEF VInv, Stopped
<1> QED
  BY <1>1, <1>2, <1>3, <1>4, <1>6, <1>7, <1>8 DEF ParseTypes, Parse!TypeInvariant

(* The variables of a layout's reading and of the parsing keep their types, *)
(* for any layout and unit: no column is longer than its chunk has lines,   *)
(* all of a batch's are as long as it has rows.                             *)
THEOREM ParseTypesHold == SpecAll => []ParseTypes
BY TypesHold, ParseInvariance, PTL
==============================================================================
