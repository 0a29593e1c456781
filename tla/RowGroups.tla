------------------------------- MODULE RowGroups -------------------------------
(***************************************************************************)
(* How write_parquet makes row groups of the batches in_waves hands it: it *)
(* slices each wave's batches where a group is full, encodes the slices    *)
(* into the group's column writers, each field on its own thread, closes a *)
(* full group's columns, each on its own thread too, and appends them to   *)
(* the file.  A row is known by its place in the input; a field is taken   *)
(* to have one leaf column, as the two types fwf has do.                   *)
(***************************************************************************)
EXTENDS Naturals, SequencesExt

CONSTANTS Jobs,     (* the writes considered: for each batch, how many rows *)
                    (* there are up to its end, and how the source ends     *)
          WaveSize, (* how many batches in_waves hands over at a time       *)
          Limit,    (* max_row_group_row_count                              *)
          Fields    (* how many fields there are                            *)

ASSUME RowsAssumption ==
    /\ Limit \in Nat \ {0} /\ WaveSize \in Nat \ {0} /\ Fields \in Nat \ {0}
    /\ \A j \in Jobs :
           /\ j.ends \in Seq(Nat) /\ j.ending \in {"end", "parseError"}
           /\ \A i \in 2 .. Len(j.ends) : j.ends[i - 1] <= j.ends[i]

VARIABLES job,       (* the write: never changes                             *)
          taken,     (* how many batches in_waves handed over                *)
          over,      (* whether it handed over its last wave                 *)
          batch,     (* how many of them the loop has come to                *)
          row,       (* the rows sliced so far                               *)
          rows,      (* how many of them are in the current group            *)
          pieces,    (* the wave's rows for the current group                *)
          fields,    (* the rows in each field's writer                      *)
          encoded,   (* the fields the pieces are encoded into               *)
          closed,    (* the fields whose columns are closed, first one first *)
          group,     (* the columns appended to the file's next row group    *)
          groups,    (* the file's row groups                                *)
          pc

vars == <<job, taken, over, batch, row, rows, pieces, fields, encoded, closed,
          group, groups, pc>>
sourceVars == <<job, taken, over>>
sliceVars  == <<batch, row, rows>>
fileVars   == <<closed, group, groups>>

Columns == 1 .. Fields

(* column_writers: a new writer for each field.                             *)
NewWriters == [f \in Columns |-> <<>>]

Init == /\ job \in Jobs
        /\ taken = 0 /\ over = FALSE
        /\ batch = 0 /\ row = 0 /\ rows = 0
        /\ pieces = <<>> /\ fields = NewWriters /\ encoded = {}
        /\ closed = <<>> /\ group = <<>> /\ groups = <<>>
        /\ pc = "wave"

RowsOf(from, size) == [i \in 1 .. size |-> from + i - 1]

BatchEnd == IF batch = 0 THEN 0 ELSE job.ends[batch]

------------------------------------------------------------------------------
(* in_waves hands over the next wave, the last of them empty or cut short   *)
(* by a parsing error.                                                      *)
WaveEnd == IF taken + WaveSize < Len(job.ends) THEN taken + WaveSize
           ELSE Len(job.ends)

NextWave == /\ pc = "wave" /\ ~over
            /\ taken' = WaveEnd
            /\ over' = IF job.ending = "end" THEN taken' = taken
                       ELSE taken' < taken + WaveSize
            /\ pc' = "slice"
            /\ UNCHANGED <<job, sliceVars, pieces, fields, encoded, fileVars>>

NextBatch == /\ pc = "slice" /\ row = BatchEnd /\ batch < taken
             /\ batch' = batch + 1
             /\ UNCHANGED <<sourceVars, row, rows, pieces, fields, encoded>>
             /\ UNCHANGED <<fileVars, pc>>

\* Mutated: the batch is not split where the group is full.
TakeAll == BatchEnd - row

\* Mutated: the group's last place is kept free.
TakeAllButOne == IF BatchEnd - row < Limit - rows THEN BatchEnd - row ELSE Limit - rows - 1

Take == IF BatchEnd - row < Limit - rows THEN BatchEnd - row ELSE Limit - rows

(* A piece of the batch goes to the group, which is encoded when it is full.*)
SlicePiece ==
    /\ pc = "slice" /\ row < BatchEnd
    /\ pieces' = pieces \o RowsOf(row + 1, Take)
    /\ row' = row + Take
    /\ rows' = rows + Take
    /\ pc' = IF rows' = Limit THEN "encode" ELSE "slice"
    /\ UNCHANGED <<sourceVars, batch, fields, encoded, fileVars>>

(* The wave's last pieces are encoded into the group left open.             *)
EndWave == /\ pc = "slice" /\ row = BatchEnd /\ batch = taken
           /\ pc' = "encode"
           /\ UNCHANGED <<sourceVars, sliceVars, pieces, fields, encoded, fileVars>>

------------------------------------------------------------------------------
(* encode: the fields in any order.                                         *)
EncodeField(f) == /\ pc = "encode" /\ f \notin encoded
                  /\ fields' = [fields EXCEPT ![f] = @ \o pieces]
                  /\ encoded' = encoded \cup {f}
                  /\ UNCHANGED <<sourceVars, sliceVars, pieces, fileVars, pc>>

EncodeEnds == /\ pc = "encode" /\ encoded = Columns
              /\ encoded' = {}
              /\ pieces' = <<>>
              /\ pc' = IF rows = Limit THEN "close" ELSE "wave"
              /\ UNCHANGED <<sourceVars, sliceVars, fields, fileVars>>

(* After the last wave: the group left open is closed, if there is one.     *)
LastGroupOpen == rows > 0

LastGroup == /\ pc = "wave" /\ over
             /\ pc' = CASE job.ending = "parseError" -> "parse"
                        [] job.ending = "end" /\ LastGroupOpen -> "close"
                        [] OTHER -> "footer"
             /\ UNCHANGED <<sourceVars, sliceVars, pieces, fields, encoded, fileVars>>

(* close_row_group: the columns are closed in any order ...                 *)
CloseColumn(f) == /\ pc = "close" /\ f \notin ToSet(closed)
                  /\ closed' = Append(closed, f)
                  /\ UNCHANGED <<sourceVars, sliceVars, pieces, fields, encoded>>
                  /\ UNCHANGED <<group, groups, pc>>

(* ... then collected and appended in the fields' order.                    *)
\* Mutated: in the order they were closed.
ClosedOrder == closed

AppendOrder == [f \in Columns |-> f]

AppendColumn ==
    LET f == AppendOrder[Len(group) + 1]
    IN  /\ pc = "close" /\ ToSet(closed) = Columns /\ Len(group) < Fields
        /\ group' = Append(group, [field |-> f, rows |-> fields[f]])
        /\ UNCHANGED <<sourceVars, sliceVars, pieces, fields, encoded>>
        /\ UNCHANGED <<closed, groups, pc>>

CloseGroup == /\ pc = "close" /\ Len(group) = Fields
              /\ groups' = Append(groups, group)
              /\ group' = <<>> /\ closed' = <<>> /\ fields' = NewWriters
              /\ rows' = 0
              /\ pc' = IF rows = Limit THEN "slice" ELSE "footer"
              /\ UNCHANGED <<sourceVars, batch, row, pieces, encoded>>

Close == /\ pc = "footer"
         /\ pc' = "closed"
         /\ UNCHANGED <<sourceVars, sliceVars, pieces, fields, encoded, fileVars>>

(* Encoding, closing or writing fails: the file is dropped as it is.        *)
WriteFails == /\ pc \in {"encode", "close", "footer"}
              /\ pc' = "failed"
              /\ UNCHANGED <<sourceVars, sliceVars, pieces, fields, encoded, fileVars>>

Next == \/ NextWave \/ NextBatch \/ SlicePiece \/ EndWave \/ EncodeEnds
        \/ LastGroup \/ AppendColumn \/ CloseGroup \/ Close \/ WriteFails
        \/ \E f \in Columns : EncodeField(f) \/ CloseColumn(f)

Spec == Init /\ [][Next]_vars

(* The threads run, and in_waves has its source's answers.                  *)
FairSpec == Spec /\ WF_vars(Next)
------------------------------------------------------------------------------
Ended == {"closed", "parse", "failed"}

TypeInvariant ==
    /\ job \in Jobs
    /\ batch \in 0 .. taken /\ taken \in 0 .. Len(job.ends)
    /\ over \in BOOLEAN
    /\ row \in 0 .. BatchEnd
    /\ rows \in 0 .. Limit
    /\ pieces \in Seq(Nat) /\ fields \in [Columns -> Seq(Nat)]
    /\ encoded \subseteq Columns
    /\ ToSet(closed) \subseteq Columns
    /\ group \in Seq([field : Columns, rows : Seq(Nat)])
    /\ groups \in Seq(Seq([field : Columns, rows : Seq(Nat)]))
    /\ pc \in {"wave", "slice", "encode", "close", "footer"} \cup Ended

(* A row group as the rows it holds, if it has any and its columns are the  *)
(* fields' in order and all hold the same, consecutive ones.                *)
AsOne(g) ==
    LET held == g[1].rows
    IN  IF /\ held # <<>>
           /\ g = [f \in Columns |-> [field |-> f, rows |-> RowsOf(held[1], Len(held))]]
        THEN [from |-> held[1], upto |-> held[Len(held)]]
        ELSE [from |-> 0, upto |-> 0]

Abstract == INSTANCE OneWriter WITH
    groups <- [g \in DOMAIN groups |-> AsOne(groups[g])],
    result <- IF pc \in Ended THEN pc ELSE "open"

(* "Writes the same file as ArrowWriter" (writer.rs 154-155): whatever the  *)
(* waves, and in whatever order fields are encoded and closed, the file has *)
(* the row groups one writer makes, whole, each column with the same rows,  *)
(* and a footer only after all of them.                                     *)
WritesAsOneWriter == Abstract!Spec

(* Slicing always makes headway: the loop that splits a batch ends          *)
(* (writer.rs 176-188).                                                     *)
Terminates == <>(pc \in Ended)
==============================================================================
