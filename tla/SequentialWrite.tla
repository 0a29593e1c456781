--------------------------- MODULE SequentialWrite ---------------------------
(***************************************************************************)
(* What write() promises of a CSV destination: "the output is the same as  *)
(* writing [the batches] one after another".  The header and the batches'  *)
(* texts reach it in order, never one without those before it; the result  *)
(* is "ok" only if all of them did and there was nothing else to read, a   *)
(* parsing error only if the batches before it did (or the destination     *)
(* refused them in the last, unheard, attempt), and otherwise the error    *)
(* the destination gave, of the kind it gave.                              *)
(***************************************************************************)
EXTENDS Naturals, SequencesExt

CONSTANTS Jobs,          (* the writes considered: see WriteWaves           *)
          RefusalKinds   (* how a destination fails: a closed pipe, ...     *)

VARIABLES job,       (* the write: never changes                             *)
          out,       (* the texts that reached the destination: 0 is the     *)
                     (* header, i the i-th batch                             *)
          refused,   (* the kind of error the destination first gave         *)
          result     (* "open", "ok", "parse", "other" or a refusal's kind   *)

writeVars == <<job, out, refused, result>>

OddOnes == {i \in DOMAIN job.batches : job.batches[i] = "odd"}

(* All there is to write: up to a batch that cannot be formatted.           *)
Text == LET n == IF OddOnes = {} THEN Len(job.batches)
                 ELSE (CHOOSE i \in OddOnes : \A j \in OddOnes : i <= j) - 1
        IN  [i \in 1 .. n + 1 |-> i - 1]

Init == /\ job \in Jobs
        /\ out = <<>> /\ refused = "no" /\ result = "open"

(* Some more reaches the destination, or it refuses.                        *)
Emit == /\ result = "open"
        /\ \E n \in Len(out) .. Len(Text) : out' = SubSeq(Text, 1, n)
        /\ \/ refused' = refused
           \/ refused = "no" /\ refused' \in RefusalKinds
        /\ UNCHANGED <<job, result>>

EndWell == /\ result = "open"
           /\ out = Text /\ OddOnes = {} /\ job.ending = "end" /\ refused = "no"
           /\ result' = "ok"
           /\ UNCHANGED <<job, out, refused>>

EndWithParseError ==
    /\ result = "open"
    /\ job.ending = "parseError" /\ OddOnes = {}
    /\ out = Text \/ refused # "no"
    /\ result' = "parse"
    /\ UNCHANGED <<job, out, refused>>

EndRefused == /\ result = "open"
              /\ refused # "no"
              /\ result' = refused
              /\ UNCHANGED <<job, out, refused>>

EndUnformatted == /\ result = "open"
                  /\ OddOnes # {}
                  /\ result' = "other"
                  /\ UNCHANGED <<job, out, refused>>

Next == \/ Emit \/ EndWell \/ EndWithParseError \/ EndRefused
        \/ EndUnformatted

Spec == Init /\ [][Next]_writeVars
==============================================================================
