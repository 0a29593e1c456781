----------------------------- MODULE UnitRecords -----------------------------
(***************************************************************************)
(* What reading one unit promises, whatever the unit's form, the chunk     *)
(* size and the number of threads: the records asked for, each once and in *)
(* the unit's order, numbered by the unit's lines and placed at their      *)
(* offset in the unit.  A unit whose source breaks off may fail at any     *)
(* point, but what was delivered before is still right, and it may only    *)
(* end well when as many records as were asked for came before the break.  *)
(***************************************************************************)
EXTENDS Framing

CONSTANTS Jobs,      (* the reads considered: a unit and its options        *)
          NoLimit    (* an n_rows that was not given                        *)

VARIABLES job,         (* the read: never changes                            *)
          delivered,   (* the records delivered so far                       *)
          outcome      (* "open", then "done" or "failed"                    *)

recordVars == <<job, delivered, outcome>>

(* The bytes records may come from: all of them but the end-of-file marker, *)
(* or the whole lines before the source broke off.                          *)
Body == IF ~job.broken THEN StripEofMarker(job.unit, FALSE)
        ELSE IF LineEnds(job.unit) = {} THEN <<>>
        ELSE Slice(job.unit, 0, LastLineEnd(job.unit))

Wanted ==
    LET lines == Lines(Body)
        last  == IF job.nRows = NoLimit THEN Len(lines)
                 ELSE Lesser(job.skipRows + job.nRows, Len(lines))
    IN  [i \in 1 .. last - Lesser(job.skipRows, last) |->
            [record |-> job.skipRows + i,
             byte   |-> lines[job.skipRows + i].at,
             text   |-> lines[job.skipRows + i].text]]

Init == /\ job \in Jobs
        /\ delivered = <<>>
        /\ outcome = "open"

Deliver == /\ outcome = "open"
           /\ \E n \in Len(delivered) + 1 .. Len(Wanted) :
                  delivered' = SubSeq(Wanted, 1, n)
           /\ UNCHANGED <<job, outcome>>

Finish == /\ outcome = "open"
          /\ delivered = Wanted
          /\ job.broken => Len(delivered) = job.nRows
          /\ outcome' = "done"
          /\ UNCHANGED <<job, delivered>>

Fail == /\ outcome = "open"
        /\ job.broken
        /\ outcome' = "failed"
        /\ UNCHANGED <<job, delivered>>

Next == Deliver \/ Finish \/ Fail

Spec == Init /\ [][Next]_recordVars
==============================================================================
