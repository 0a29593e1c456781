--------------------------- MODULE MCParseByLayout ---------------------------
(***************************************************************************)
(* Every unit of up to MaxLen bytes, with fields that leave gaps, overlap  *)
(* and are cut off by short lines, in either encoding; and, on an empty    *)
(* unit, layouts of one or two fields with each thing that can be wrong    *)
(* with them, and of three fields of any names, with up to two calls of    *)
(* with_columns, for no, some, unknown or repeated columns.                *)
(***************************************************************************)
EXTENDS ParseByLayout

CONSTANTS Undef, MaxLen, Sizes

JsonField(name, position, length, type) ==
    [name |-> name, position |-> position, length |-> length, type |-> type]

Overlapping == <<JsonField("a", 1, 1, "String"), JsonField("b", 1, 2, "Float64")>>

ParseJobs ==
    [layout : {Overlapping, <<JsonField("a", 2, 2, "none")>>},
     calls  : {<<>>, <<<<"a">>>>, <<<<>>>>},
     unit   : BoundedSeq(Bytes, MaxLen),
     size   : Sizes,
     table  : {[b \in High |-> <<"cp850", b>>],
               [b \in High \ {Undef} |-> <<"cp1252", b>>]}]

LayoutFields(names, numbers, types) ==
    [name : names, position : numbers, length : numbers, type : types]

AnyField(name) == LayoutFields({name}, {0, 2, U32Max + 1, UsizeMax}, {"none", "float64"})

Widest == LayoutFields({"a"}, {U32Max}, {"String", "Float64"})

ThreeNames == [name : {"a", "b", "c"}, position : {2}, length : {1}, type : {"String"}]

Selections == {<<>>, <<"b">>, <<"b", "a">>, <<"a", "a">>, <<"a", "x">>}

OneOrTwoCalls == {<<c>> : c \in Selections} \cup {<<c, d>> : c, d \in Selections}

Layouts == UNION {
    {[layout |-> <<f, g>>, calls |-> <<>>] : f \in AnyField("a"), g \in AnyField("b")},
    {[layout |-> <<f>>, calls |-> s] :
        f \in AnyField("a") \cup Widest, s \in {<<>>, <<<<>>>>}},
    {[layout |-> <<f, g, h>>, calls |-> s] :
        f, g, h \in ThreeNames, s \in {<<>>} \cup OneOrTwoCalls}}

NoTable == [b \in {} |-> b]

LayoutJobs == {[layout |-> l.layout, calls |-> l.calls, unit |-> <<>>, size |-> 1,
                table |-> NoTable] : l \in Layouts}

MCJobs == ParseJobs \cup LayoutJobs
==============================================================================
