------------------------------ MODULE OneWriter ------------------------------
(***************************************************************************)
(* What write_parquet promises: "the same file as ArrowWriter".  The rows  *)
(* go to row groups of Limit rows as they come; the last, smaller group is *)
(* written when the rows end well; the footer comes after all of them.  A  *)
(* parsing error leaves the rows of the group then open out, and there is  *)
(* no footer after any error.                                              *)
(***************************************************************************)
EXTENDS Naturals, Sequences

CONSTANTS Jobs,     (* the writes considered: see RowGroups                 *)
          Limit     (* max_row_group_row_count                              *)

VARIABLES job,      (* the write: never changes                             *)
          groups,   (* the row groups in the file, as [from, upto]          *)
          result    (* "open", "closed", "parse" or "failed"                *)

fileVars == <<job, groups, result>>

Total == IF job.ends = <<>> THEN 0 ELSE job.ends[Len(job.ends)]

Grouped == IF groups = <<>> THEN 0 ELSE groups[Len(groups)].upto

Init == job \in Jobs /\ groups = <<>> /\ result = "open"

AddGroup(upto) == /\ result = "open"
                  /\ groups' = Append(groups, [from |-> Grouped + 1, upto |-> upto])
                  /\ UNCHANGED <<job, result>>

FullGroup == Grouped + Limit <= Total /\ AddGroup(Grouped + Limit)

LastGroup == /\ job.ending = "end"
             /\ Grouped < Total /\ Total < Grouped + Limit
             /\ AddGroup(Total)

End(how) == result = "open" /\ result' = how /\ UNCHANGED <<job, groups>>

Close == job.ending = "end" /\ Grouped = Total /\ End("closed")

ParseError == /\ job.ending = "parseError" /\ Total < Grouped + Limit
              /\ End("parse")

Next == FullGroup \/ LastGroup \/ Close \/ ParseError \/ End("failed")

Spec == Init /\ [][Next]_fileVars
==============================================================================
