------------------------------- MODULE Convert -------------------------------
(***************************************************************************)
(* The fwf command from its parsed arguments to its exit status: run, with *)
(* what the components it calls promise.  Writing CSV is SequentialWrite's *)
(* promise; writing Parquet differs from it in how it ends.  The output    *)
(* file is replaced as in FileReplace, while other writers do the same.    *)
(***************************************************************************)
EXTENDS FileReplace, SequencesExt

CONSTANTS Fwf,           (* the command, one of the Writers                 *)
          Jobs,          (* the commands considered: the format asked for,  *)
                         (* the output, the terminal, whether the layout is *)
                         (* good and the input opens, and the write that    *)
                         (* the input makes (see SequentialWrite)           *)
          RefusalKinds   (* how a destination fails: a closed pipe, ...     *)

ASSUME ConvertAssumption ==
    /\ Fwf \in Writers
    /\ Parts = 2   (* something of the output, and all of it *)
    /\ \A j \in Jobs :
           /\ j.format \in {"csv", "parquet", "none"}
           /\ {j.parquetName, j.toStdout, j.terminal, j.force} \subseteq BOOLEAN
           /\ {j.layoutGood, j.inputOpens} \subseteq BOOLEAN
           /\ j.toStdout => ~j.parquetName
    /\ RefusalKinds \cap {"no", "open", "ok", "parse", "other"} = {}

VARIABLES job,       (* the command: never changes                           *)
          at,        (* where run is: "start", "layout", "scan", "write",    *)
                     (* "persist" or "exit"                                  *)
          out,       (* what reached stdout, or the temp file                *)
          refused,   (* the kind of error the destination first gave         *)
          returned,  (* what write_to returns, once it has: see SequentialWrite *)
          status     (* "running", "success", "failure" or "killed"          *)

runVars == <<job, at, out, refused, returned, status>>

InitRun == /\ Init
           /\ job \in Jobs
           /\ at = "start"
           /\ out = <<>> /\ refused = "no" /\ returned = "open"
           /\ status = "running"

Format == IF job.format # "none" THEN job.format
          ELSE IF job.parquetName THEN "parquet" ELSE "csv"

Advance(where) == at' = where /\ UNCHANGED <<job, out, refused, returned, status>>

Exit(how) == at' = "exit" /\ status' = how /\ UNCHANGED <<job, out, refused, returned>>

------------------------------------------------------------------------------
(* Parquet is kept from a terminal before anything is read.                 *)
\* Mutated: Parquet is known by the output's name alone.
RefusesByName == job.parquetName /\ job.toStdout /\ job.terminal /\ ~job.force

RefusesTerminal == /\ Format = "parquet" /\ job.toStdout
                   /\ job.terminal /\ ~job.force

Start == /\ at = "start"
         /\ IF RefusesTerminal THEN Exit("failure") ELSE Advance("layout")
         /\ UNCHANGED vars

ReadLayout == /\ at = "layout"
              /\ IF job.layoutGood THEN Advance("scan") ELSE Exit("failure")
              /\ UNCHANGED vars

(* scan opens the input before write is called.                             *)
Scan == /\ at = "scan"
        /\ IF job.inputOpens THEN Advance("write") ELSE Exit("failure")
        /\ UNCHANGED vars

(* to_file's temp file is made or not.                                      *)
MakeTemp == /\ at = "write" /\ ~job.toStdout
            /\ Create(Fwf)
            /\ IF pc'[Fwf] = "error" THEN Exit("failure") ELSE UNCHANGED runVars

Sink == INSTANCE SequentialWrite WITH
    Jobs <- {j.write : j \in Jobs}, job <- job.write, result <- returned

(* write_parquet's output: a parsing error leaves the group then open out,  *)
(* and a refusal may be forgotten when the next write succeeds.             *)
EndParquet ==
    /\ Format = "parquet" /\ returned = "open"
    /\ \/ job.write.ending = "parseError" /\ returned' = "parse"
       \/ refused # "no" /\ returned' = "other"
    /\ UNCHANGED <<out, refused>>

(* How much of the output the temp file then has.                           *)
FillTemp == /\ pc[Fwf] = "write"
            /\ SetTemp(Fwf, IF returned' = "ok" THEN Parts
                            ELSE IF out' = <<>> THEN 0 ELSE 1)
            /\ UNCHANGED <<file, pc>>

(* A file is no pipe: it never breaks.                                      *)
Write == /\ at = "write" /\ UNCHANGED <<job, at, status>>
         /\ Sink!Next \/ EndParquet
         /\ refused' = "brokenPipe" => job.toStdout
         /\ IF job.toStdout THEN UNCHANGED vars ELSE FillTemp

(* What main makes of write's result: the reader of stdout may stop early.  *)
\* Mutated: any refusal is taken for a reader that stopped.
SuccessIfRefused == returned \in {"ok"} \cup RefusalKinds

Succeeds == returned \in {"ok", "brokenPipe"}

StdoutWritten == /\ at = "write" /\ job.toStdout /\ returned # "open"
                 /\ Exit(IF Succeeds THEN "success" ELSE "failure")
                 /\ UNCHANGED vars

\* Mutated: what is written is renamed over the file before its error is seen.
PersistsAnyhow == TRUE

Persists == returned = "ok"

FileWritten == /\ at = "write" /\ ~job.toStdout /\ returned # "open"
               /\ IF Persists
                  THEN Advance("persist") /\ Goto(Fwf, "persist") /\ UNCHANGED <<file, temp>>
                  ELSE WriteFails(Fwf) /\ Exit(IF Succeeds THEN "success" ELSE "failure")

(* The rename, or its failure.                                              *)
Persist == /\ at = "persist"
           /\ \/ Rename(Fwf) /\ Exit("success")
              \/ RenameFails(Fwf) /\ Exit("failure")

Killed == /\ at # "exit"
          /\ Exit("killed")
          /\ IF job.toStdout THEN UNCHANGED vars ELSE Kill(Fwf)

OtherWrites == /\ \E w \in Writers \ {Fwf} : Step(w)
               /\ UNCHANGED runVars

NextRun == \/ Start \/ ReadLayout \/ Scan \/ MakeTemp \/ Write
           \/ StdoutWritten \/ FileWritten \/ Persist \/ Killed \/ OtherWrites

SpecRun == InitRun /\ [][NextRun]_<<vars, runVars>>
------------------------------------------------------------------------------
FwfResult == IF job.toStdout \/ status = "running" THEN "open"
             ELSE CASE status = "success" -> "ok"
                    [] status = "failure" -> "error"
                    [] status = "killed"  -> "killed"

Replace == INSTANCE AtomicReplace WITH
    file   <- IF file.parts = Parts THEN file.by ELSE "partial",
    result <- [w \in Writers |-> IF w = Fwf THEN FwfResult
                                 ELSE IF pc[w] \in Ended THEN pc[w] ELSE "open"]

(* The exit status tells the truth about an output file: success if and     *)
(* only if it was replaced, in one step; after any error it is as it was,   *)
(* or as another writer left it (main.rs 101-105, writer.rs 61-62).         *)
StatusTellsOfTheFile == Replace!Spec

(* Stdout "can't be replaced atomically, so the exit code is the signal"    *)
(* (docs/design.md:272): success means that all of the unit was parsed and  *)
(* written, or that whoever read stdout had enough.                         *)
SuccessIsWhole ==
    status = "success" =>
        \/ out = Sink!Text /\ job.write.ending = "end" /\ Sink!OddOnes = {}
        \/ job.toStdout /\ refused = "brokenPipe"

(* An input that cannot be opened, or a layout that is no good, leaves      *)
(* stdout and the file untouched, without even a temp file, and so does a   *)
(* terminal Parquet is kept from: all of that fails before the destination  *)
(* is touched (main.rs 74-80, 101).                                         *)
TouchesNothingInVain ==
    out # <<>> \/ temp[Fwf] # NoTemp \/ file.by = Fwf =>
        /\ job.layoutGood /\ job.inputOpens
        /\ Format = "parquet" /\ job.toStdout /\ job.terminal => job.force
==============================================================================
