----------------------------- MODULE StreamBlocks -----------------------------
(***************************************************************************)
(* How a streamed unit is read: Parser::parse_stream's read_block, the     *)
(* closure that reads `size` bytes at a time, cuts each block after its    *)
(* last line ending and carries the rest into the next.  A turn of its     *)
(* loop is one step.  The reader gives the unit's bytes and then its end,  *)
(* or, if the unit is broken (a truncated gzip stream, a CRC mismatch), an *)
(* error instead.                                                          *)
(***************************************************************************)
EXTENDS Framing, SequencesExt

CONSTANTS Bytes,      (* the bytes a unit is made of                         *)
          Jobs,       (* the reads considered: a unit and its options        *)
          NoLimit,    (* an n_rows that was not given                        *)
          UsizeMax    (* usize::MAX, which stands for it in rows_left        *)

ASSUME JobsAssumption ==
    \A j \in Jobs :
        /\ j.unit \in Seq(Bytes)
        /\ Len(j.unit) <= UsizeMax
        /\ j.broken \in BOOLEAN
        /\ j.size \in Nat \ {0}
        /\ j.skipRows \in Nat
        /\ j.nRows \in Nat \/ j.nRows = NoLimit
        (* usize::MAX lines would be all that rows_left allows, and where   *)
        (* the unit breaks off after them would go unseen.                  *)
        /\ j.broken /\ j.nRows = NoLimit => Len(j.unit) < UsizeMax

ASSUME UsizeAssumption == UsizeMax \in Nat

VARIABLES job,        (* the read: never changes                             *)
          pos,        (* how many of the unit's bytes the reader has given   *)
          buf,        (* bytes read and not yet in a block                   *)
          offset,     (* where buf starts in the unit                        *)
          records,    (* the unit's lines so far, skipped ones included      *)
          rowsLeft,
          atEnd,
          blocks,     (* the blocks yielded                                  *)
          outcome     (* "open", then "done" (None) or "failed" (an error)   *)

vars == <<job, pos, buf, offset, records, rowsLeft, atEnd, blocks, outcome>>

Init == /\ job \in Jobs
        /\ pos = 0
        /\ buf = <<>>
        /\ offset = 0
        /\ records = 0
        /\ rowsLeft = IF job.nRows = NoLimit THEN UsizeMax ELSE job.nRows
        /\ atEnd = FALSE
        /\ blocks = <<>>
        /\ outcome = "open"

------------------------------------------------------------------------------
\* Mutated: reads on when no rows are left.
ReadingPastTheLimit == outcome = "open" /\ ~atEnd

Reading == outcome = "open" /\ ~atEnd /\ rowsLeft > 0

(* take(size).read_to_end(&mut buf): fewer bytes only where the unit ends.  *)
Got == Slice(job.unit, pos, Lesser(pos + job.size, Len(job.unit)))

ReadFails == job.broken /\ Len(Got) < job.size

\* Mutated: off by one, so that with size 1 the end is never seen.
LastReadLate == Len(Got) + 1 < job.size

LastRead == Len(Got) < job.size

\* Mutated: cut after the first line ending, as memchr would.
CutAtFirstLine(bytes) ==
    IF LastRead THEN Len(bytes)
    ELSE CHOOSE e \in LineEnds(bytes) : \A f \in LineEnds(bytes) : e <= f

(* The cut: everything at the end, else after the last line ending.         *)
CutAt(bytes) == IF LastRead THEN Len(bytes) ELSE LastLineEnd(bytes)

\* Mutated: a block is taken for a unit of its own.
BlockBytesAlone(bytes) == StripEofMarker(bytes, FALSE)

(* Every block after the first follows the line ending it was cut at.       *)
BlockBytes(bytes) == StripEofMarker(bytes, offset > 0)

SkipOf(lines) ==
    Lesser(IF records < job.skipRows THEN job.skipRows - records ELSE 0, lines)

TakeOf(lines, skip) == Lesser(lines - skip, rowsLeft)

BlockOf(bytes) ==
    LET lines == LineCount(bytes)
        skip  == SkipOf(lines)
    IN  [bytes |-> bytes, offset |-> offset, skip |-> skip,
         take |-> TakeOf(lines, skip), recordsBefore |-> records + skip]

\* Mutated: a block that yields nothing is not counted.
RecordsYielded(block) ==
    records + IF block.take > 0 THEN block.skip + block.take ELSE 0

RecordsAfter(block) == records + block.skip + block.take

(* An error ends the reading, and loses what was carried.                   *)
ReadError == /\ Reading /\ ReadFails
             /\ atEnd' = TRUE
             /\ buf' = buf \o Got
             /\ pos' = Len(job.unit)
             /\ outcome' = "failed"
             /\ UNCHANGED <<job, offset, records, rowsLeft, blocks>>

(* A line longer than what was read so far: read more of it.                *)
LongLine == /\ Reading /\ ~LastRead
            /\ LineEnds(buf \o Got) = {}
            /\ buf' = buf \o Got
            /\ pos' = pos + Len(Got)
            /\ atEnd' = FALSE
            /\ UNCHANGED <<job, offset, records, rowsLeft, blocks, outcome>>

(* A block is cut, and yielded unless it has no line to parse.              *)
CutBlock ==
    LET all   == buf \o Got
        end   == CutAt(all)
        block == BlockOf(BlockBytes(Slice(all, 0, end)))
    IN  /\ Reading /\ ~ReadFails
        /\ LastRead \/ LineEnds(all) # {}
        /\ atEnd' = LastRead
        /\ pos' = pos + Len(Got)
        /\ buf' = Slice(all, end, Len(all))
        /\ offset' = offset + end
        /\ records' = RecordsAfter(block)
        /\ rowsLeft' = rowsLeft - block.take
        /\ blocks' = IF block.take > 0 THEN Append(blocks, block) ELSE blocks
        /\ UNCHANGED <<job, outcome>>

(* The loop ends: the iterator returns None from then on.                   *)
Finish == /\ outcome = "open" /\ ~Reading
          /\ outcome' = "done"
          /\ UNCHANGED <<job, pos, buf, offset, records, rowsLeft, atEnd, blocks>>

Next == ReadError \/ LongLine \/ CutBlock \/ Finish

Spec == Init /\ [][Next]_vars

------------------------------------------------------------------------------
(* What parse_blocks makes of a block: its chosen lines, with the positions *)
(* parse_chunk gives them.                                                  *)
BlockRecords(b) ==
    [i \in 1 .. b.take |->
        LET line == Lines(b.bytes)[b.skip + i]
        IN  [record |-> b.recordsBefore + i,
             byte   |-> b.offset + line.at,
             text   |-> line.text]]

Delivered == FlattenSeq([i \in DOMAIN blocks |-> BlockRecords(blocks[i])])

Abstract == INSTANCE UnitRecords WITH delivered <- Delivered

(* The blocks' records are the unit's: none lost, repeated, split or        *)
(* misplaced where a block is cut, whatever the size, and a broken unit     *)
(* fails only after every record of the blocks before (read_impl.rs         *)
(* 132-177).                                                                *)
ReadsTheUnit == Abstract!Spec
------------------------------------------------------------------------------
Block == [bytes : Seq(Bytes), offset : Nat, skip : Nat, take : Nat,
          recordsBefore : Nat]

TypeInvariant ==
    /\ job \in Jobs
    /\ pos \in 0 .. Len(job.unit)
    /\ buf \in Seq(Bytes)
    /\ offset \in 0 .. Len(job.unit)
    /\ records \in Nat
    /\ rowsLeft \in Nat
    /\ atEnd \in BOOLEAN
    /\ blocks \in Seq(Block)
    /\ outcome \in {"open", "done", "failed"}

(* Every block is numbered by the unit's lines before it: what was skipped, *)
(* read into earlier blocks or yielded no block at all counts.              *)
NumberedByLine ==
    \A i \in DOMAIN blocks :
        blocks[i].recordsBefore =
            LineCount(Slice(job.unit, 0, blocks[i].offset)) + blocks[i].skip

(* What is carried between two reads is the start of one line: the buffer   *)
(* never grows past a line and a read (framing.rs 38-41, read_impl.rs 151). *)
CarryIsOneLine ==
    ~atEnd => /\ buf = Slice(job.unit, offset, pos)
              /\ LineEnds(buf) = {}

(* A stream stops being read once it has given enough lines: no read starts *)
(* past the last of them (read_impl.rs 137, 168-175).                       *)
StopsAtTheLimit ==
    job.nRows # NoLimit /\ job.nRows > 0 =>
        pos < AfterLines(job.unit, job.skipRows + job.nRows) + job.size

(* docs/design.md:218: "a stream stops being read, so nothing past it is    *)
(* parsed or can fail" (it: the line n_rows asks for).                      *)
NothingPastTheLimitFails ==
    /\ outcome = "failed"
    /\ job.nRows # NoLimit
    => Cardinality(LineEnds(job.unit)) < job.skipRows + job.nRows
==============================================================================
