---------------------------- MODULE AtomicReplace ----------------------------
(***************************************************************************)
(* What writing to a file promises: a write either replaces the file by    *)
(* all of its output, in one step, or leaves it as it was.                 *)
(***************************************************************************)
CONSTANTS Writers,   (* the writes under way to one file                    *)
          Before     (* what the file held, or that there was none          *)

VARIABLES file,      (* whose output the file holds, or Before               *)
          result     (* "open", "ok" (renamed), "error" or "killed", each    *)

fileVars == <<file, result>>

Init == file = Before /\ result = [w \in Writers |-> "open"]

Replace(w) == /\ result[w] = "open"
              /\ file' = w
              /\ result' = [result EXCEPT ![w] = "ok"]

Leave(w) == /\ result[w] = "open"
            /\ \E r \in {"error", "killed"} :
                   result' = [result EXCEPT ![w] = r]
            /\ UNCHANGED file

Next == \E w \in Writers : Replace(w) \/ Leave(w)

Spec == Init /\ [][Next]_fileVars
==============================================================================
