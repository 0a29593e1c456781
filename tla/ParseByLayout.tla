----------------------------- MODULE ParseByLayout -----------------------------
(***************************************************************************)
(* From a JSON layout and the columns asked for to the values: Layout      *)
(* makes a parser, whose fields Columns then builds from the unit's bytes. *)
(***************************************************************************)
EXTENDS Layout

CONSTANTS LF, CR, SUB, SP, Digits, High, Bytes   (* see Framing and Columns *)

(* A job says here what is read: a unit, the chunk size and the encoding's  *)
(* table.                                                                   *)
ASSUME ParseAssumption ==
    /\ LF # CR /\ LF # SUB /\ CR # SUB
    /\ Digits \subseteq Bytes \ ({LF, CR, SP} \cup High)
    /\ High \cap {LF, CR, SP} = {}
    /\ \A j \in Jobs : /\ j.unit \in Seq(Bytes)
                       /\ j.size \in Nat \ {0}
                       /\ DOMAIN j.table \subseteq High

(* The variables of Columns: its columns and error are built and stopped    *)
(* here, Layout's being the options' columns and what refused them.         *)
VARIABLES offset, values, scratch, built, batches, stopped

parseVars == <<offset, values, scratch, built, batches, stopped>>

(* The read that the parser makes of it.                                    *)
ReadAtHand == [unit |-> job.unit, size |-> job.size, table |-> job.table,
               fields |-> parser]

Field == [name  : UNION {{f.name : f \in ToSet(j.layout)} : j \in Jobs},
          start : Nat, len : Nat \ {0}, dtype : {"String", "Float64"}]

Reads == [unit : Seq(Bytes), size : Nat \ {0}, table : {j.table : j \in Jobs},
          fields : Seq(Field)]

Parse == INSTANCE Columns WITH
    Jobs <- Reads, job <- ReadAtHand, columns <- built, error <- stopped

InitAll == Init /\ Parse!Init

MakeParser == Next /\ UNCHANGED parseVars

ParseUnit == /\ pc = "done" /\ error = NoError
             /\ UNCHANGED vars
             /\ Parse!Next

NextAll == MakeParser \/ ParseUnit

SpecAll == InitAll /\ [][NextAll]_<<vars, parseVars>>
------------------------------------------------------------------------------
ParseTypes == TypeInvariant /\ Parse!TypeInvariant

HoldsTheCells == Parse!HoldsTheCells

PointsAtTheByte == Parse!PointsAtTheByte

FirstOfItsColumn == Parse!FirstOfItsColumn

FirstErrorOfTheUnit == Parse!FirstErrorOfTheUnit
==============================================================================
