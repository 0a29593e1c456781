----------------------------- MODULE SliceChunks -----------------------------
(***************************************************************************)
(* How an in-memory unit is divided: Parser::parse_slice cuts off the      *)
(* end-of-file marker, the lines to skip and everything past n_rows lines, *)
(* then framing::chunks walks what is left.  A turn of that iterator is    *)
(* one step.                                                               *)
(***************************************************************************)
EXTENDS Framing, SequencesExt

CONSTANTS Bytes,      (* the bytes a unit is made of                         *)
          Jobs,       (* the reads considered: a unit and its options        *)
          NoLimit,    (* an n_rows that was not given                        *)
          UsizeMax    (* usize::MAX: a size may be as large, a unit only     *)
                      (* half as long (isize::MAX)                           *)

VARIABLES job,       (* the read: never changes                              *)
          at,        (* where the next chunk starts, in the window           *)
          chunks,    (* the chunks so far, by their offsets in the unit      *)
          outcome    (* "open", then "done"                                  *)

sliceVars == <<at, chunks, outcome>>

SliceBody == StripEofMarker(job.unit, FALSE)

First == AfterLines(SliceBody, job.skipRows)

End == IF job.nRows = NoLimit THEN Len(SliceBody)
       ELSE First + AfterLines(Slice(SliceBody, First, Len(SliceBody)), job.nRows)

Window == Slice(SliceBody, First, End)

Init == /\ job \in Jobs
        /\ at = 0
        /\ chunks = <<>>
        /\ outcome = "open"

NextChunk ==
    LET end == ChunkEnd(Window, at, job.size)
    IN  /\ at < Len(Window)
        /\ chunks' = Append(chunks, [start |-> First + at, end |-> First + end])
        /\ at' = end
        /\ UNCHANGED <<job, outcome>>

Finish == /\ outcome = "open" /\ at >= Len(Window)
          /\ outcome' = "done"
          /\ UNCHANGED <<job, at, chunks>>

Next == NextChunk \/ Finish

------------------------------------------------------------------------------
\* Mutated: the skipped lines are not counted.
RecordsInWindow(chunk) == LineCount(Slice(job.unit, First, chunk.start))

RecordsBefore(chunk) == LineCount(Slice(job.unit, 0, chunk.start))

(* What parse_wave makes of a chunk, positions and all.                     *)
ChunkRecords(chunk) ==
    LET lines == Lines(Slice(job.unit, chunk.start, chunk.end))
    IN  [i \in DOMAIN lines |->
            [record |-> RecordsBefore(chunk) + i,
             byte   |-> chunk.start + lines[i].at,
             text   |-> lines[i].text]]

Delivered == FlattenSeq([i \in DOMAIN chunks |-> ChunkRecords(chunks[i])])
------------------------------------------------------------------------------
TypeInvariant ==
    /\ job \in Jobs
    /\ at \in 0 .. Len(Window)
    /\ \A i \in DOMAIN chunks :
           chunks[i].start \in First .. End /\ chunks[i].end \in First .. End
    /\ outcome \in {"open", "done"}

(* A chunk reaches `size` bytes, unless it is the last, and no later than   *)
(* in its last line: it exceeds `size` by less than a line (framing.rs      *)
(* 43-57).                                                                  *)
ChunksReachSize ==
    \A i \in DOMAIN chunks :
        LET c     == chunks[i]
            bytes == Slice(job.unit, c.start, c.end)
        IN  /\ c.end - c.start >= job.size \/ c.end = End
            /\ LineStart(bytes, LineCount(bytes)) < job.size

(* `start + size - 1` cannot wrap, whatever the size: once a chunk was cut  *)
(* the size is at most the unit's length (framing.rs 51).                   *)
NoOverflow == at < Len(Window) => at + job.size <= UsizeMax
==============================================================================
