-------------------------------- MODULE Layout --------------------------------
(***************************************************************************)
(* From a JSON layout and the columns asked for to the fields a parser     *)
(* reads: Schema::from_json takes the fields one after another,            *)
(* ReadOptions::with_columns the names, as often as it is called, and      *)
(* Parser::new picks the fields.  serde has parsed the JSON: a field is a  *)
(* record here, and a position or length any natural number.               *)
(***************************************************************************)
EXTENDS Naturals, SequencesExt, FiniteSetsExt

CONSTANTS Jobs,      (* the layouts considered, each with the columns its   *)
                     (* reader asks for: a sequence of names for every call *)
                     (* of with_columns                                     *)
          U32Max,    (* u32::MAX                                            *)
          UsizeMax   (* usize::MAX                                          *)

(* The sum of two u32 is a usize, as on every target but 32-bit ones.       *)
ASSUME LayoutAssumption ==
    /\ U32Max \in Nat \ {0} /\ UsizeMax \in Nat /\ 2 * U32Max <= UsizeMax
    /\ \A j \in Jobs :
           /\ j.layout \in Seq(ToSet(j.layout))
           /\ \A f \in ToSet(j.layout) : {f.position, f.length} \subseteq Nat
           /\ j.calls \in Seq(ToSet(j.calls))
           /\ \A names \in ToSet(j.calls) : names \in Seq(ToSet(names))

VARIABLES job,      (* the layout and the columns: never changes            *)
          pc,       (* "schema", "columns", "done"                          *)
          fields,   (* the schema's fields so far                           *)
          call,     (* how many calls of with_columns have returned         *)
          picked,   (* the indexes the call at hand has found               *)
          columns,  (* the options' columns: None, or Some(indexes), as <<>>*)
                    (* and <<indexes>>                                      *)
          parser,   (* the parser's fields                                  *)
          error     (* the kind of error and the field or column it names   *)

vars == <<job, pc, fields, call, picked, columns, parser, error>>

NoError == [kind |-> "no", name |-> "no"]

Init == /\ job \in Jobs
        /\ pc = "schema" /\ fields = <<>>
        /\ call = 0 /\ picked = <<>> /\ columns = <<>>
        /\ parser = <<>> /\ error = NoError

Fail(kind, name) == /\ error' = [kind |-> kind, name |-> name]
                    /\ pc' = "done"
                    /\ UNCHANGED <<job, fields, call, picked, columns, parser>>

------------------------------------------------------------------------------
(* RawField's numbers are u32: serde rejects any other, in any field,       *)
(* before the first field is looked at.                                     *)
FitsRawField(field) == field.position <= U32Max /\ field.length <= U32Max

IsSchema == \A k \in DOMAIN job.layout : FitsRawField(job.layout[k])

NotJson == pc = "schema" /\ ~IsSchema /\ Fail("SchemaJson", "no")

AtField == /\ pc = "schema" /\ IsSchema /\ Len(fields) < Len(job.layout)

RawField == job.layout[Len(fields) + 1]

(* A missing type means String.                                             *)
TypeOf(field) == IF field.type = "none" THEN "String" ELSE field.type

\* Mutated: compared with the field before alone.
NamedJustBefore(name) == fields # <<>> /\ fields[Len(fields)].name = name

AlreadyNamed(name) == \E k \in DOMAIN fields : fields[k].name = name

(* What a field is checked for, in this order.                              *)
Checks(field) ==
    <<[kind |-> "UnknownType",   bad |-> TypeOf(field) \notin {"String", "Float64"}],
      [kind |-> "ZeroPosition",  bad |-> field.position = 0],
      [kind |-> "ZeroLength",    bad |-> field.length = 0],
      [kind |-> "DuplicateName", bad |-> AlreadyNamed(field.name)]>>

Passes(field) == \A c \in DOMAIN Checks(field) : ~Checks(field)[c].bad

RejectField ==
    /\ AtField
    /\ \E c \in DOMAIN Checks(RawField) :
           /\ Checks(RawField)[c].bad
           /\ \A b \in 1 .. c - 1 : ~Checks(RawField)[b].bad
           /\ Fail(Checks(RawField)[c].kind, RawField.name)

FieldOf(field) == [name |-> field.name, start |-> field.position - 1,
                   len |-> field.length, dtype |-> TypeOf(field)]

AddField == /\ AtField /\ Passes(RawField)
            /\ fields' = Append(fields, FieldOf(RawField))
            /\ UNCHANGED <<job, pc, call, picked, columns, parser, error>>

EndSchema == /\ pc = "schema" /\ IsSchema /\ Len(fields) = Len(job.layout)
             /\ pc' = "columns"
             /\ UNCHANGED <<job, fields, call, picked, columns, parser, error>>

------------------------------------------------------------------------------
(* with_columns: the name at hand, in the schema's fields and not, if an    *)
(* earlier call chose some, in those alone.                                 *)
Names == job.calls[call + 1]

AtName == pc = "columns" /\ call < Len(job.calls) /\ Len(picked) < Len(Names)

Name == Names[Len(picked) + 1]

Found == {k \in DOMAIN fields : fields[k].name = Name}

RejectName == /\ AtName
              /\ \/ Found = {} /\ Fail("UnknownColumn", Name)
                 \/ Found \cap ToSet(picked) # {} /\ Fail("DuplicateName", Name)

PickName == /\ AtName
            /\ \E column \in Found \ ToSet(picked) : picked' = Append(picked, column)
            /\ UNCHANGED <<job, pc, fields, call, columns, parser, error>>

\* Mutated: a later call adds to an earlier one's columns.
ColumnsAdded == IF columns = <<>> THEN <<picked>> ELSE <<columns[1] \o picked>>

ColumnsAfter == <<picked>>

EndCall == /\ pc = "columns" /\ call < Len(job.calls) /\ Len(picked) = Len(Names)
           /\ columns' = ColumnsAfter
           /\ picked' = <<>>
           /\ call' = call + 1
           /\ UNCHANGED <<job, pc, fields, parser, error>>

(* Parser::new: no columns is all of them, and Some of none is none.        *)
NewParser == /\ pc = "columns" /\ call = Len(job.calls)
             /\ parser' = IF columns = <<>> THEN fields
                          ELSE [k \in DOMAIN columns[1] |-> fields[columns[1][k]]]
             /\ pc' = "done"
             /\ UNCHANGED <<job, fields, call, picked, columns, error>>

Next == \/ NotJson \/ RejectField \/ AddField \/ EndSchema
        \/ RejectName \/ PickName \/ EndCall \/ NewParser

Spec == Init /\ [][Next]_vars
------------------------------------------------------------------------------
Numbered == [name : {job.layout[k].name : k \in DOMAIN job.layout},
             start : 0 .. UsizeMax, len : 1 .. UsizeMax,
             dtype : {"String", "Float64"}]

TypeInvariant ==
    /\ pc \in {"schema", "columns", "done"}
    /\ fields \in Seq(Numbered) /\ parser \in Seq(Numbered)
    /\ call \in 0 .. Len(job.calls)
    /\ IsInjective(picked) /\ ToSet(picked) \subseteq DOMAIN fields
    /\ \A k \in DOMAIN columns :
           IsInjective(columns[k]) /\ ToSet(columns[k]) \subseteq DOMAIN fields

(* The names the parser's fields must have: the last call's, or all.        *)
Asked == IF job.calls = <<>> THEN [k \in DOMAIN job.layout |-> job.layout[k].name]
         ELSE Last(job.calls)

(* A parser reads exactly the columns asked for, in the order asked for     *)
(* last, each with the place and type that the one field of the layout with *)
(* its name gives it, whatever else the layout holds, and an end that is a  *)
(* usize, as field::value takes it to be: "u32 keeps start + len from       *)
(* overflowing usize" (options.rs 56-57, schema.rs 14-20, 77-86, field.rs   *)
(* 5).                                                                      *)
ReadsAsAsked ==
    pc = "done" /\ error = NoError =>
        /\ Len(parser) = Len(Asked)
        /\ \A p \in DOMAIN parser :
               LET named == {k \in DOMAIN job.layout : job.layout[k].name = Asked[p]}
               IN  \E k \in DOMAIN job.layout :
                      /\ named = {k}
                      /\ parser[p] = [name  |-> Asked[p],
                                      start |-> job.layout[k].position - 1,
                                      len   |-> job.layout[k].length,
                                      dtype |-> TypeOf(job.layout[k])]
               /\ parser[p].start + parser[p].len <= UsizeMax

Unreadable == {k \in DOMAIN job.layout :
                  \/ job.layout[k].type \notin {"none", "String", "Float64"}
                  \/ job.layout[k].position = 0 \/ job.layout[k].length = 0
                  \/ \E i \in 1 .. k - 1 : job.layout[i].name = job.layout[k].name}

(* A layout is refused if and only if it has a field that cannot be read,   *)
(* and for the first of them, whatever is wrong with it or with the ones    *)
(* after it (schema.rs 38-63).                                              *)
RefusesTheFirst ==
    pc = "done" /\ error.kind # "SchemaJson" =>
        IF Unreadable = {} THEN Len(fields) = Len(job.layout)
        ELSE error.kind # "no" /\ error.name = job.layout[Min(Unreadable)].name
==============================================================================
