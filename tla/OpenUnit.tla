------------------------------- MODULE OpenUnit -------------------------------
(***************************************************************************)
(* How a location's bytes get to whoever reads them: input::open maps a    *)
(* file or streams what cannot be mapped, tells the container from the     *)
(* first bytes, puts those back in front of a stream, and copies a zip     *)
(* that is streamed to a temp file.  What follows is the parser, a gzip    *)
(* decoder or the zip's index (ZipMember); they are known here by the      *)
(* bytes they are handed.                                                  *)
(***************************************************************************)
EXTENDS Naturals, SequencesExt

CONSTANTS Bytes,
          ZipHead,     (* PK\x03\x04                                         *)
          GzipHead,    (* 1F 8B                                              *)
          Jobs         (* the locations considered: what they are, what they *)
                       (* hold and the container asked for                   *)

ASSUME OpenAssumption ==
    /\ ZipHead \in Seq(Bytes) /\ Len(ZipHead) = 4
    /\ GzipHead \in Seq(Bytes) /\ Len(GzipHead) = 2
    /\ \A j \in Jobs : /\ j.source \in {"file", "pipe", "bytes", "reader"}
                       /\ j.raw \in Seq(Bytes)
                       /\ j.container \in {"auto", "plain", "gzip", "zip"}

VARIABLES job,         (* what is opened: never changes                      *)
          pc,          (* where open is, and then its reader                 *)
          form,        (* "slice" or "stream", once known                    *)
          container,   (* the container, "auto" until it is told             *)
          head,        (* the bytes to be given before the stream's others   *)
          pos,         (* how many bytes the stream has given                *)
          handed       (* the bytes copied to the temp file, or read         *)

vars == <<job, pc, form, container, head, pos, handed>>

Init == /\ job \in Jobs
        /\ pc = "get"
        /\ form = "none"
        /\ container = job.container
        /\ head = <<>>
        /\ pos = 0
        /\ handed = <<>>

Streamed == form = "stream"

Fail == pc' = "failed" /\ UNCHANGED <<job, form, container, head, pos, handed>>

(* A regular file is mapped and bytes are at hand; the rest is streamed.    *)
Get == /\ pc = "get"
       /\ form' = IF job.source \in {"file", "bytes"} THEN "slice" ELSE "stream"
       /\ pc' = IF job.container = "auto" THEN "sniff" ELSE "place"
       /\ UNCHANGED <<job, container, head, pos, handed>>

GetFails == pc = "get" /\ job.source \in {"file", "pipe"} /\ Fail

------------------------------------------------------------------------------
Detect(bytes) == IF IsPrefix(ZipHead, bytes) THEN "zip"
                 ELSE IF IsPrefix(GzipHead, bytes) THEN "gzip" ELSE "plain"

SourceEnded == pos = Len(job.raw)

(* A read of the stream gives at least a byte, and no more than is asked.   *)
FromSource(most) == {n \in 1 .. most : pos + n <= Len(job.raw)}

Given(n) == SubSeq(job.raw, pos + 1, pos + n)

\* Mutated: one read is taken for all of the head.
HeadReadOnce == head # <<>> \/ SourceEnded

\* Mutated: waits for as many bytes as the longest head has.
HeadReadFull == Len(head) = 4

HeadRead == Len(head) = 4 \/ SourceEnded

SniffSlice == /\ pc = "sniff" /\ ~Streamed
              /\ container' = Detect(job.raw)
              /\ pc' = "place"
              /\ UNCHANGED <<job, form, head, pos, handed>>

SniffRead == /\ pc = "sniff" /\ Streamed /\ ~HeadRead
             /\ \E n \in FromSource(4 - Len(head)) :
                    /\ head' = head \o Given(n)
                    /\ pos' = pos + n
             /\ UNCHANGED <<job, pc, form, container, handed>>

\* Mutated: the head is not put back.
HeadDropped == <<>>

HeadPutBack == head

SniffEnd == /\ pc = "sniff" /\ Streamed /\ HeadRead
            /\ container' = Detect(head)
            /\ head' = HeadPutBack
            /\ pc' = "place"
            /\ UNCHANGED <<job, form, pos, handed>>

------------------------------------------------------------------------------
(* A zip has to be at hand; any other input can be read as it is.           *)
Place == /\ pc = "place"
         /\ pc' = IF container = "zip" /\ Streamed THEN "spool" ELSE "read"
         /\ UNCHANGED <<job, form, container, head, pos, handed>>

(* All of a slice is at hand at once.                                       *)
ReadSlice == /\ pc = "read" /\ ~Streamed
             /\ handed' = job.raw
             /\ pc' = "done"
             /\ UNCHANGED <<job, form, container, head, pos>>

(* Cursor::chain: what was put back first, then the stream.                 *)
Reading == pc \in {"spool", "read"} /\ Streamed

ReadHead == /\ Reading
            /\ \E n \in DOMAIN head :
                   /\ handed' = handed \o SubSeq(head, 1, n)
                   /\ head' = SubSeq(head, n + 1, Len(head))
            /\ UNCHANGED <<job, pc, form, container, pos>>

ReadSource == /\ Reading /\ head = <<>>
              /\ \E n \in FromSource(Len(job.raw)) :
                     /\ handed' = handed \o Given(n)
                     /\ pos' = pos + n
              /\ UNCHANGED <<job, pc, form, container, head>>

\* Mutated: the archive is not waited for.
ChainEndedEarly == head = <<>>

ChainEnded == head = <<>> /\ SourceEnded

(* The end of the stream.  A spooled archive is mapped, and its index read. *)
ReadEnd == /\ Reading /\ ChainEnded
           /\ form' = IF pc = "spool" THEN "slice" ELSE form
           /\ pc' = "done"
           /\ UNCHANGED <<job, container, head, pos, handed>>

(* The stream, or the temp file, fails.                                     *)
StreamFails == pc \in {"sniff", "spool", "read"} /\ Streamed /\ Fail

GoOn == \/ Get \/ SniffSlice \/ SniffRead \/ SniffEnd \/ Place
        \/ ReadSlice \/ ReadHead \/ ReadSource \/ ReadEnd

Next == GoOn \/ GetFails \/ StreamFails

Spec == Init /\ [][Next]_vars

(* A source that answers, and a reader that goes on to the end.             *)
FairSpec == Spec /\ WF_vars(GoOn)
------------------------------------------------------------------------------
TypeInvariant ==
    /\ job \in Jobs
    /\ pc \in {"get", "sniff", "place", "spool", "read", "done", "failed"}
    /\ form \in {"none", "slice", "stream"}
    /\ container \in {"auto", "plain", "gzip", "zip"}
    /\ head \in Seq(Bytes) /\ Len(head) <= 4
    /\ pos \in 0 .. Len(job.raw)
    /\ handed \in Seq(Bytes)

(* Telling the container, putting the head back and spooling neither lose,  *)
(* repeat nor reorder a byte, however short the reads: what was handed on,  *)
(* what is to be put in front and what the stream still has are the         *)
(* location's bytes (input/mod.rs 106-124, 155-163).                         *)
NothingLost ==
    Streamed => handed \o head \o SubSeq(job.raw, pos + 1, Len(job.raw)) = job.raw

(* Whoever reads to the end has had all of it, from a file, from a pipe and *)
(* from a spooled archive alike (input/mod.rs 74-95, 155-163).              *)
AllHandedOn == pc = "done" => handed = job.raw

(* The container depends on the location's bytes alone, not on how its      *)
(* stream happens to deliver them (input/mod.rs 106-122).                   *)
SameContainerForSameBytes ==
    pc \in {"place", "spool", "read", "done"} =>
        container = IF job.container = "auto" THEN Detect(job.raw) ELSE job.container

(* Opening ends, also for streams shorter than a head (input/mod.rs 116).    *)
Opens == <>(pc \in {"done", "failed"})
==============================================================================
