------------------------------- MODULE Framing -------------------------------
(***************************************************************************)
(* How a unit's bytes split into records: the pure functions of            *)
(* framing.rs.  Offsets count from 0, as in the code, so the byte at       *)
(* offset p is bytes[p + 1], and bytes[from..to] is Slice(bytes, from, to).*)
(* The only bytes told apart are the three the functions look for.         *)
(***************************************************************************)
EXTENDS Integers, Sequences, FiniteSets

CONSTANTS LF,    (* the line feed that ends a line                          *)
          CR,    (* the carriage return dropped before it                   *)
          SUB    (* 0x1A, the DOS end-of-file marker                        *)

ASSUME MarkersDiffer == LF # CR /\ LF # SUB /\ CR # SUB

Slice(bytes, from, to) == SubSeq(bytes, from + 1, to)

Lesser(a, b) == IF a <= b THEN a ELSE b

------------------------------------------------------------------------------
(* The unit without a marker that follows its last line ending, or that is  *)
(* all of a block cut at one.                                               *)
StripEofMarker(bytes, afterLineEnd) ==
    LET n == Len(bytes)
        marked == /\ n > 0
                  /\ bytes[n] = SUB
                  /\ IF n = 1 THEN afterLineEnd ELSE bytes[n - 1] = LF
    IN  IF marked THEN Slice(bytes, 0, n - 1) ELSE bytes

(* Where memchr finds the first line feed at or past `from`, if there is one. *)
LineFeeds(bytes, from) == {p \in from .. Len(bytes) - 1 : bytes[p + 1] = LF}

NextLineFeed(bytes, from) ==
    CHOOSE p \in LineFeeds(bytes, from) :
        \A q \in LineFeeds(bytes, from) : p <= q

(* The lines: the iterator starts one at 0 and one after every line feed    *)
(* that is not the last byte.                                               *)
LineStarts(bytes) ==
    {p \in 0 .. Len(bytes) - 1 : p = 0 \/ bytes[p] = LF}

LineCount(bytes) == Cardinality(LineStarts(bytes))

LineStart(bytes, i) ==
    CHOOSE p \in LineStarts(bytes) :
        Cardinality({q \in LineStarts(bytes) : q < p}) = i - 1

(* A line's bytes: up to the line feed, without a carriage return before it *)
(* (or before the end of the bytes).                                        *)
LineText(bytes, start) ==
    LET end  == IF LineFeeds(bytes, start) = {} THEN Len(bytes)
                ELSE NextLineFeed(bytes, start)
        line == Slice(bytes, start, end)
    IN  IF line # <<>> /\ line[Len(line)] = CR
        THEN Slice(line, 0, Len(line) - 1) ELSE line

Lines(bytes) ==
    [i \in 1 .. LineCount(bytes) |->
        [at   |-> LineStart(bytes, i),
         text |-> LineText(bytes, LineStart(bytes, i))]]

(* Where the first n lines end: where line n + 1 starts, if there is one.   *)
AfterLines(bytes, n) ==
    IF n < LineCount(bytes) THEN LineStart(bytes, n + 1) ELSE Len(bytes)

(* memrchr: the offsets just past a line feed, and the last of them.        *)
LineEnds(bytes) == {e \in 1 .. Len(bytes) : bytes[e] = LF}

LastLineEnd(bytes) ==
    CHOOSE e \in LineEnds(bytes) : \A f \in LineEnds(bytes) : f <= e

\* Mutated: a byte too far.
ChunkEndLate(bytes, start, size) ==
    LET from == Lesser(start + size, Len(bytes))
    IN  IF LineFeeds(bytes, from) = {} THEN Len(bytes)
        ELSE NextLineFeed(bytes, from) + 1

\* Mutated: at the first line feed, whatever the size.
ChunkEndEarly(bytes, start, size) ==
    IF LineFeeds(bytes, start) = {} THEN Len(bytes)
    ELSE NextLineFeed(bytes, start) + 1

\* Mutated: the end is moved past the line feed twice.
ChunkEndPast(bytes, start, size) ==
    LET from == Lesser(start + size - 1, Len(bytes))
    IN  IF LineFeeds(bytes, from) = {} THEN Len(bytes)
        ELSE NextLineFeed(bytes, from) + 2

(* Where the chunk that starts at `start` ends: after the first line feed   *)
(* at or past its size-th byte, or at the end of the bytes.                 *)
ChunkEnd(bytes, start, size) ==
    LET from == Lesser(start + size - 1, Len(bytes))
    IN  IF LineFeeds(bytes, from) = {} THEN Len(bytes)
        ELSE NextLineFeed(bytes, from) + 1
==============================================================================
