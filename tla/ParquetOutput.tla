---------------------------- MODULE ParquetOutput ----------------------------
(***************************************************************************)
(* How a Parquet file's bytes reach the destination: the format writer's   *)
(* own BufWriter, the Tracked under it that keeps the error of the last    *)
(* write, Tracked's larger BufWriter and a destination that may refuse any *)
(* write.  After an error the format writer is dropped, and its buffer is  *)
(* written again as it goes.  Bytes are known by their place in the file.  *)
(***************************************************************************)
EXTENDS Naturals, SequencesExt

CONSTANTS Jobs,           (* the writes considered: the sizes of the        *)
                          (* format writer's writes, and how they end       *)
          RefusalKinds,   (* how a destination fails: a closed pipe, ...    *)
          Inner, Capacity (* the sizes of the two buffers: 8 KiB and BUFFER *)

ASSUME OutputAssumption ==
    /\ Inner \in Nat \ {0} /\ Capacity \in Nat
    /\ RefusalKinds \cap {"no", "open", "ok", "parse", "other"} = {}
    /\ \A j \in Jobs :
           /\ j.sizes \in Seq(1 .. Capacity - 1) /\ Inner < Capacity
           /\ j.ending \in {"end", "parseError", "formatError"}

VARIABLES job,      (* the write: never changes                             *)
          pc,       (* "write", "close" and "flush", "unwind", "done"       *)
          made,     (* how many of its writes the format writer has made    *)
          at,       (* the bytes in them                                    *)
          inner,    (* the format writer's buffer                           *)
          outer,    (* Tracked's                                            *)
          sink,     (* the bytes that reached the destination               *)
          error,    (* Tracked's error, or "no"                             *)
          refused,  (* the kind of error the destination gave               *)
          failed,   (* whether an I/O error came back to write_to           *)
          result    (* what write_to returns                                *)

vars == <<job, pc, made, at, inner, outer, sink, error, refused, failed, result>>

Init == /\ job \in Jobs
        /\ pc = "write" /\ made = 0 /\ at = 0
        /\ inner = <<>> /\ outer = <<>> /\ sink = <<>>
        /\ error = "no" /\ refused = "no" /\ failed = FALSE /\ result = "open"

------------------------------------------------------------------------------
(* A closed pipe stays closed; a full disk may be freed.                    *)
Gone == refused = "brokenPipe"

DriveOut(n) == /\ Gone => n = 0
               /\ sink' = sink \o SubSeq(outer, 1, n)

Refuse(n) == /\ DriveOut(n)
             /\ refused' \in RefusalKinds
             /\ refused # "no" => refused' = refused

Track(outcome) == error' = outcome

(* Tracked's BufWriter takes the bytes, once there is room for them, ...    *)
Accept(bytes) ==
    /\ IF Len(outer) + Len(bytes) <= Capacity
       THEN outer' = outer \o bytes /\ UNCHANGED sink
       ELSE DriveOut(Len(outer)) /\ outer' = bytes
    /\ Track("no")
    /\ UNCHANGED refused

(* ... or the destination refuses some of what would make room.             *)
Decline(bytes) ==
    /\ Len(outer) + Len(bytes) > Capacity
    /\ \E n \in 0 .. Len(outer) - 1 :
           Refuse(n) /\ outer' = SubSeq(outer, n + 1, Len(outer))
    /\ Track(refused')

------------------------------------------------------------------------------
Bytes(from, size) == [i \in 1 .. size |-> from + i]

Size == job.sizes[made + 1]

More == pc = "write" /\ made < Len(job.sizes)

Made == made' = made + 1 /\ at' = at + Size

Fail == pc' = "unwind" /\ failed' = TRUE

(* The format writer's BufWriter: small writes gather, ...                  *)
Fits == Size < Inner /\ Len(inner) + Size <= Inner

Gather == /\ More /\ Fits
          /\ inner' = inner \o Bytes(at, Size)
          /\ Made
          /\ UNCHANGED <<job, pc, outer, sink, error, refused, failed, result>>

\* Mutated: a large write overtakes what is buffered.
OvertakesBuffer == More /\ Size >= Inner

(* ... a large one goes straight on once the buffer is empty ...            *)
GoesStraight == More /\ Size >= Inner /\ inner = <<>>

Straight == /\ GoesStraight
            /\ \/ Accept(Bytes(at, Size)) /\ UNCHANGED <<pc, failed>>
               \/ Decline(Bytes(at, Size)) /\ Fail
            /\ Made
            /\ UNCHANGED <<job, inner, result>>

(* ... and the buffer is written when it is in the way, or at the close.    *)
MustEmpty == /\ inner # <<>>
             /\ \/ More /\ ~Fits
                \/ pc = "write" /\ ~More /\ job.ending = "end"

Empty == /\ MustEmpty
         /\ \/ Accept(inner) /\ inner' = <<>> /\ UNCHANGED <<pc, failed>>
            \/ Decline(inner) /\ UNCHANGED inner /\ Fail
         /\ UNCHANGED <<job, made, at, result>>

(* The batches end well, or with an error that is not the destination's.    *)
End == /\ pc = "write" /\ ~More
       /\ IF job.ending = "end" THEN inner = <<>> /\ pc' = "close"
          ELSE pc' = "unwind"
       /\ UNCHANGED <<job, made, at, inner, outer, sink, error, refused, failed, result>>

(* file.close flushes, then write_to does.                                  *)
Flush == /\ pc \in {"close", "flush"}
         /\ \/ /\ DriveOut(Len(outer)) /\ outer' = <<>>
               /\ Track("no")
               /\ pc' = IF pc = "close" THEN "flush" ELSE "unwind"
               /\ UNCHANGED <<refused, failed>>
            \/ /\ \E n \in 0 .. Len(outer) :
                      Refuse(n) /\ outer' = SubSeq(outer, n + 1, Len(outer))
               /\ Track(refused')
               /\ Fail
         /\ UNCHANGED <<job, made, at, inner, result>>

------------------------------------------------------------------------------
(* What write_to makes of the errors: a parsing error as it was, else the   *)
(* one Tracked kept, else the format's as one of kind Other.                *)
\* Mutated: the outcome is what Tracked knows.
TrackedOutcome == IF error' # "no" THEN error' ELSE "ok"

Outcome == IF ~failed /\ job.ending = "end"             THEN "ok"
           ELSE IF ~failed /\ job.ending = "parseError" THEN "parse"
           ELSE IF error' # "no"                        THEN error'
           ELSE "other"

(* The format writer is dropped, which writes its buffer again, and its own *)
(* error is not heard, but Tracked's is; write_to then tells the result.    *)
Unwind == /\ pc = "unwind"
          /\ \/ inner = <<>> /\ UNCHANGED <<outer, sink, error, refused>>
             \/ inner # <<>> /\ (Accept(inner) \/ Decline(inner))
          /\ inner' = <<>>
          /\ result' = Outcome
          /\ pc' = "drop"
          /\ UNCHANGED <<job, made, at, failed>>

(* Tracked's BufWriter is dropped: it drives out what it can.               *)
Drop == /\ pc = "drop"
        /\ pc' = "done"
        /\ \/ DriveOut(Len(outer)) /\ UNCHANGED refused
           \/ \E n \in 0 .. Len(outer) - 1 : Refuse(n)
        /\ outer' = <<>>
        /\ UNCHANGED <<job, made, at, inner, error, failed, result>>

Next == Gather \/ Straight \/ Empty \/ End \/ Flush \/ Unwind \/ Drop

Spec == Init /\ [][Next]_vars
------------------------------------------------------------------------------
TypeInvariant ==
    /\ job \in Jobs
    /\ pc \in {"write", "close", "flush", "unwind", "drop", "done"}
    /\ made \in 0 .. Len(job.sizes)
    /\ at \in Nat /\ failed \in BOOLEAN
    /\ inner \in Seq(Nat) /\ Len(inner) <= Inner
    /\ outer \in Seq(Nat) /\ Len(outer) <= Capacity
    /\ sink \in Seq(Nat)
    /\ error \in {"no"} \cup RefusalKinds
    /\ refused \in {"no"} \cup RefusalKinds
    /\ result \in {"open", "ok", "parse", "other"} \cup RefusalKinds

(* Whatever is refused and tried again, the bytes in the destination and    *)
(* both buffers are the file's first, each once and in order (writer.rs     *)
(* 103-106, 166-167, 195).                                                  *)
FirstBytes == LET all == sink \o outer \o inner IN all = Bytes(0, Len(all))

(* No refused write is taken for success, though Tracked forgets the error  *)
(* of a write when the next one succeeds: a file is renamed into place only *)
(* when all of it was taken (writer.rs 89-91, 118-127, 301-310).            *)
OkIsAll == result = "ok" => /\ refused = "no" /\ made = Len(job.sizes)
                            /\ sink = Bytes(0, at)

(* "On stdout, a reader that stops reading (as head does) ends the write    *)
(* with an Error::Write whose source is of kind BrokenPipe" (writer.rs      *)
(* 62-64).                                                                  *)
ClosedPipeIsReported ==
    job.ending = "end" /\ refused = "brokenPipe" /\ result # "open" =>
        result = "brokenPipe"
==============================================================================
