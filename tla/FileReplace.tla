------------------------------ MODULE FileReplace ------------------------------
(***************************************************************************)
(* Writing to a file: to_file creates a temp file in the file's directory, *)
(* has write_to write it, then renames it over the file.  Several writes   *)
(* to one file may be under way, each may fail anywhere and each may be    *)
(* killed anywhere.  What is written is known here by how much of it is.   *)
(***************************************************************************)
EXTENDS Integers

CONSTANTS Writers,   (* the writes under way to one file                    *)
          Before,    (* what the file held, or that there was none          *)
          Parts      (* how many pieces a write's whole output comes in     *)

ASSUME FileAssumption == Parts \in Nat \ {0} /\ Before \notin Writers

VARIABLES file,      (* [by, parts]: how much of whose output it holds, or   *)
                     (* what it held before                                  *)
          temp,      (* how much of its temp file each has written, or NoTemp*)
          pc         (* where to_file is, and how it ended                   *)

vars == <<file, temp, pc>>

NoTemp == -1

Init == /\ file = [by |-> Before, parts |-> Parts]
        /\ temp = [w \in Writers |-> NoTemp]
        /\ pc = [w \in Writers |-> "create"]

Goto(w, where) == pc' = [pc EXCEPT ![w] = where]

SetTemp(w, what) == temp' = [temp EXCEPT ![w] = what]

------------------------------------------------------------------------------
(* tempfile_in: a new name each time, so no two share a temp file.          *)
Create(w) == /\ pc[w] = "create"
             /\ \/ Goto(w, "write") /\ SetTemp(w, 0)
                \/ Goto(w, "error") /\ UNCHANGED temp
             /\ UNCHANGED file

(* write_to: some more is written and, at last, flushed.                    *)
WritePart(w) == /\ pc[w] = "write" /\ temp[w] < Parts
                /\ SetTemp(w, temp[w] + 1)
                /\ UNCHANGED <<file, pc>>

(* write_to returns: an error drops the temp file, which removes it.        *)
WriteFails(w) == /\ pc[w] = "write"
                 /\ Goto(w, "error")
                 /\ SetTemp(w, NoTemp)
                 /\ UNCHANGED file

\* Mutated: the rename does not wait for the last of the output.
WrittenInPart(w) == temp[w] + 1 >= Parts

Written(w) == temp[w] = Parts

WriteEnds(w) == /\ pc[w] = "write" /\ Written(w)
                /\ Goto(w, "persist")
                /\ UNCHANGED <<file, temp>>

(* persist: the rename, or its failure, which drops the temp file too.      *)
Rename(w) == /\ pc[w] = "persist"
             /\ file' = [by |-> w, parts |-> temp[w]]
             /\ SetTemp(w, NoTemp)
             /\ Goto(w, "ok")

\* Mutated: the temp file is kept.
TempKept(w) == UNCHANGED temp

TempRemoved(w) == SetTemp(w, NoTemp)

RenameFails(w) == /\ pc[w] = "persist"
                  /\ TempRemoved(w)
                  /\ Goto(w, "error")
                  /\ UNCHANGED file

(* The process is killed: nothing is cleaned up.                            *)
Kill(w) == /\ pc[w] \in {"create", "write", "persist"}
           /\ Goto(w, "killed")
           /\ UNCHANGED <<file, temp>>

Step(w) == \/ Create(w) \/ WritePart(w) \/ WriteFails(w) \/ WriteEnds(w)
           \/ Rename(w) \/ RenameFails(w) \/ Kill(w)

Next == \E w \in Writers : Step(w)

Spec == Init /\ [][Next]_vars
------------------------------------------------------------------------------
Ended == {"ok", "error", "killed"}

Abstract == INSTANCE AtomicReplace WITH
    file   <- IF file.parts = Parts THEN file.by ELSE "partial",
    result <- [w \in Writers |-> IF pc[w] \in Ended THEN pc[w] ELSE "open"]

(* "A file is written to a temp file beside it, which replaces it only once *)
(* everything is written: after an error, the file is as it was", though    *)
(* others write to it and processes are killed (writer.rs 61-62, 81-93).    *)
ReplacesWhole == Abstract!Spec

(* Only a killed process leaves its temp file behind (docs/design.md:271).  *)
OnlyTheKilledLeaveATemp ==
    \A w \in Writers : pc[w] \in {"ok", "error"} => temp[w] = NoTemp
==============================================================================
