------------------------------- MODULE Columns -------------------------------
(***************************************************************************)
(* What parsing makes of a unit's lines: Parser::parse_chunk builds a      *)
(* chunk's columns one after another, builder::column builds one value     *)
(* after another, and the first value that cannot be read ends the chunk   *)
(* with an error that says where it is.  The chunks are framing::chunks'   *)
(* of a whole unit, parsed here one after another; ParserWaves has the     *)
(* workers, SliceChunks and StreamBlocks what is skipped and left out.     *)
(***************************************************************************)
EXTENDS Framing, SequencesExt

CONSTANTS Bytes,    (* the bytes a unit is made of                           *)
          SP,       (* ASCII whitespace other than LF and CR                 *)
          Digits,   (* what a Float64 is made of: any sequence of them is one*)
          High,     (* the bytes above 0x7F                                  *)
          Jobs      (* the reads considered: a unit, the chunk size, the     *)
                    (* chosen fields in output order, and the encoding's     *)
                    (* table: the characters of the high bytes it defines    *)

VARIABLES job,       (* the read: never changes                              *)
          offset,    (* where the chunk at hand starts in the unit           *)
          values,    (* the column at hand so far: a value per line, or <<>>,*)
                     (* which is null; a number is its bytes                 *)
          scratch,   (* what the column's values are decoded into            *)
          columns,   (* the chunk's finished columns                         *)
          batches,   (* the chunks parsed: how many rows, and their columns  *)
          error      (* <<>>, or the one Position an error was found at      *)

Blank == {LF, CR, SP}

ChunkLimit == ChunkEnd(job.unit, offset, job.size)

Chunk == Slice(job.unit, offset, ChunkLimit)

ChunkLines == Lines(Chunk)

Init == /\ job \in Jobs
        /\ offset = 0
        /\ values = <<>> /\ scratch = <<>>
        /\ columns = <<>> /\ batches = <<>>
        /\ error = <<>>

------------------------------------------------------------------------------
(* The field's bytes on a line: fewer on a short one, none past its end.    *)
Raw(line, field) == Slice(line, Lesser(field.start, Len(line)),
                                Lesser(field.start + field.len, Len(line)))

(* Trimmed of whitespace, with where what is left starts.                   *)
Trimmed(raw) ==
    LET kept == {p \in DOMAIN raw : raw[p] \notin Blank}
    IN  IF kept = {} THEN [at |-> Len(raw), bytes |-> <<>>]
        ELSE [at |-> Min(kept) - 1, bytes |-> Slice(raw, Min(kept) - 1, Max(kept))]

(* field::value: the field's value on a line, and where it starts in it.    *)
Value(line, field) ==
    LET value == Trimmed(Raw(line, field))
    IN  [at |-> field.start + value.at, bytes |-> value.bytes]

Undefined(byte) == byte \in High \ DOMAIN job.table

(* Encoding::decode stops at the least of these offsets.                    *)
UndefinedAt(bytes) == {o \in 0 .. Len(bytes) - 1 : Undefined(bytes[o + 1])}

(* An ASCII byte is its own character.                                      *)
Char(byte) == IF byte \in DOMAIN job.table THEN job.table[byte] ELSE byte

IsAscii(bytes) == ToSet(bytes) \cap High = {}

\* Mutated: scratch is not cleared first.
DecodedOnto(bytes) == scratch \o [k \in DOMAIN bytes |-> Char(bytes[k])]

Decoded(bytes) == [k \in DOMAIN bytes |-> Char(bytes[k])]

IsFloat(bytes) == ToSet(bytes) \subseteq Digits

(* Where a value cannot be read: nowhere if it is null or good, the first   *)
(* undefined byte of a String, the start of what is no Float64.             *)
FailsAt(field, bytes) ==
    IF bytes = <<>> THEN {}
    ELSE IF field.dtype = "String" THEN UndefinedAt(bytes)
    ELSE IF IsFloat(bytes) THEN {} ELSE {0}

------------------------------------------------------------------------------
Parsing == error = <<>> /\ offset < Len(job.unit)

(* There is a value to build, of the field and the line at hand.            *)
Building == /\ Parsing /\ Len(columns) < Len(job.fields)
            /\ Len(values) < Len(ChunkLines)

FieldAtHand == job.fields[Len(columns) + 1]

\* Mutated: the lines are taken from the last.
LineFromLast == ChunkLines[Len(ChunkLines) - Len(values)]

LineAtHand == ChunkLines[Len(values) + 1]

ValueAtHand == Value(LineAtHand.text, FieldAtHand)

(* decode: ASCII is borrowed as it is, anything else goes through scratch.  *)
AppendText == LET bytes == ValueAtHand.bytes
              IN  /\ FieldAtHand.dtype = "String" /\ bytes # <<>>
                  /\ scratch' = IF IsAscii(bytes) THEN scratch ELSE Decoded(bytes)
                  /\ values' = Append(values, IF IsAscii(bytes) THEN bytes ELSE scratch')

AppendNullOrNumber == /\ FieldAtHand.dtype = "String" => ValueAtHand.bytes = <<>>
                      /\ values' = Append(values, ValueAtHand.bytes)
                      /\ UNCHANGED scratch

AppendValue == /\ Building
               /\ FailsAt(FieldAtHand, ValueAtHand.bytes) = {}
               /\ AppendText \/ AppendNullOrNumber
               /\ UNCHANGED <<job, offset, columns, batches, error>>

RecordsBefore == LineCount(Slice(job.unit, 0, offset))

\* Mutated: the offset of the value in its line is left out.
PositionOfField(at) == [record |-> RecordsBefore + Len(values) + 1,
                        field  |-> Len(columns) + 1,
                        byte   |-> offset + LineAtHand.at + FieldAtHand.start + at]

(* Where the value's byte `at` is in the unit.                              *)
Position(at) == [record |-> RecordsBefore + Len(values) + 1,
                 field  |-> Len(columns) + 1,
                 byte   |-> offset + LineAtHand.at + ValueAtHand.at + at]

Fail == LET at == FailsAt(FieldAtHand, ValueAtHand.bytes)
        IN  /\ Building
            /\ at # {}
            /\ error' = <<Position(Min(at))>>
            /\ scratch' = <<>>
            /\ UNCHANGED <<job, offset, values, columns, batches>>

\* Mutated: the next column goes on in the last one's builder.
BuilderKept == values

NewBuilder == <<>>

EndColumn == /\ Parsing /\ Len(columns) < Len(job.fields)
             /\ Len(values) = Len(ChunkLines)
             /\ columns' = Append(columns, values)
             /\ values' = NewBuilder
             /\ scratch' = <<>>
             /\ UNCHANGED <<job, offset, batches, error>>

(* The chunk's batch; its row count is its lines', as it may have no column.*)
EndChunk == /\ Parsing /\ Len(columns) = Len(job.fields)
            /\ batches' = Append(batches, [rows |-> Len(ChunkLines), columns |-> columns])
            /\ offset' = ChunkLimit
            /\ columns' = <<>>
            /\ UNCHANGED <<job, values, scratch, error>>

Next == AppendValue \/ Fail \/ EndColumn \/ EndChunk
------------------------------------------------------------------------------
Chars == Bytes \cup Range(job.table)

TypeInvariant ==
    /\ job \in Jobs
    /\ offset \in 0 .. Len(job.unit)
    /\ values \in Seq(Seq(Chars)) /\ scratch \in Seq(Chars)
    /\ Len(values) <= LineCount(Chunk)
    /\ Len(columns) <= Len(job.fields)
    /\ \A c \in ToSet(columns) : c \in Seq(Seq(Chars)) /\ Len(c) = LineCount(Chunk)
    /\ \A b \in ToSet(batches) :
           /\ Len(b.columns) = Len(job.fields)
           /\ \A c \in ToSet(b.columns) : c \in Seq(Seq(Chars)) /\ Len(c) = b.rows
    /\ error \in Seq([record : Nat, field : Nat, byte : Nat]) /\ Len(error) <= 1

(* A record's value told from the unit as a whole, without chunks or trims:  *)
(* from the first to the last byte of field i, on the unit's line r, that   *)
(* is no whitespace.                                                        *)
KeptBytes(r, i) ==
    LET line  == Lines(job.unit)[r]
        start == line.at + job.fields[i].start
    IN  {p \in start .. start + job.fields[i].len - 1 :
            /\ p < line.at + Len(line.text)
            /\ job.unit[p + 1] \notin Blank}

Cell(r, i) == IF KeptBytes(r, i) = {} THEN <<>>
              ELSE Slice(job.unit, Min(KeptBytes(r, i)), Max(KeptBytes(r, i)) + 1)

BadCell(r, i) ==
    IF job.fields[i].dtype = "String"
    THEN ToSet(Cell(r, i)) \cap (High \ DOMAIN job.table) # {}
    ELSE ~ (ToSet(Cell(r, i)) \subseteq Digits)

(* Its value in the column: the text of a String in the encoding at hand.   *)
Shown(r, i) ==
    IF job.fields[i].dtype = "Float64" THEN Cell(r, i)
    ELSE [k \in DOMAIN Cell(r, i) |->
             IF Cell(r, i)[k] \in High THEN job.table[Cell(r, i)[k]]
             ELSE Cell(r, i)[k]]

Records == 1 .. LineCount(job.unit)
Fields == DOMAIN job.fields

(* Each of the batches' rows, by its place in its batch.                    *)
RowsGiven == FlattenSeq([k \in DOMAIN batches |-> [r \in 1 .. batches[k].rows |-> r]])

ColumnGiven(i) == FlattenSeq([k \in DOMAIN batches |-> batches[k].columns[i]])

(* The batches hold the unit's records, one row for each with its own       *)
(* values, trimmed, decoded, null where blank or past the end of a short    *)
(* line, and no row of a record that cannot be read (builder.rs 28-78,      *)
(* encoding.rs 26-50, field.rs 1-8, read_impl.rs 205-230).                  *)
HoldsTheCells ==
    /\ Len(RowsGiven) = LineCount(Slice(job.unit, 0, offset))
    /\ \A i \in Fields :
           /\ \A r \in DOMAIN RowsGiven : ~BadCell(r, i)
           /\ ColumnGiven(i) = [r \in DOMAIN RowsGiven |-> Shown(r, i)]

(* An error's position is that of the very byte that cannot be read, or of  *)
(* the value that is no number: its record, counted in the unit, its field  *)
(* and its offset in the unit agree (read_impl.rs 213-219, builder.rs       *)
(* 36-68).                                                                  *)
PointsAtTheByte ==
    \A p \in ToSet(error) :
        /\ p.record \in Records /\ p.field \in Fields
        /\ BadCell(p.record, p.field)
        /\ IF job.fields[p.field].dtype = "String"
           THEN p.byte = Min({b \in KeptBytes(p.record, p.field) :
                                 job.unit[b + 1] \in High \ DOMAIN job.table})
           ELSE p.byte = Min(KeptBytes(p.record, p.field))

(* Whatever the chunks, an error is the first in its column, so a unit with *)
(* errors in one column only always fails with the same one (builder.rs     *)
(* 43-68).                                                                  *)
FirstOfItsColumn ==
    \A p \in ToSet(error), r \in Records : r < p.record => ~BadCell(r, p.field)

(* "If several chunks of a unit fail, the error reported is the first in    *)
(* the unit" (docs/design.md:225; read_impl.rs 222 takes the first column's *)
(* that fails instead).                                                     *)
FirstErrorOfTheUnit ==
    LET SeveralFail == \E r \in Records, i \in Fields :
            r > LineCount(Slice(job.unit, 0, ChunkLimit)) /\ BadCell(r, i)
    IN  \A p \in ToSet(error) :
            SeveralFail => \A r \in Records, i \in Fields :
                               r < p.record => ~BadCell(r, i)
==============================================================================
