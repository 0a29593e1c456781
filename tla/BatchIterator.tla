---------------------------- MODULE BatchIterator ----------------------------
(***************************************************************************)
(* What the caller of scan()'s reader is promised, however many threads    *)
(* parse: the unit's chunks come back one per call, in the unit's order,   *)
(* each as what parsing that chunk alone gives; the first one that fails   *)
(* is the last; and from then on, or once the unit has ended, every call   *)
(* is answered with None.                                                  *)
(***************************************************************************)
EXTENDS Naturals, SequencesExt

CONSTANT Jobs   (* the reads considered: see ParserWaves *)

VARIABLES job,       (* the read: never changes                              *)
          caller,    (* "idle", or "asking" inside next()                    *)
          answers,   (* the results given                                    *)
          ended      (* whether None was given                               *)

iteratorVars == <<job, caller, answers, ended>>

(* What parsing chunk i alone gives.                                        *)
Alone(i) == [chunk |-> i, lines |-> {i}, kind |-> job.items[i]]

Promised ==
    LET failures == {i \in DOMAIN job.items : job.items[i] # "batch"}
        last     == IF failures = {} THEN Len(job.items)
                    ELSE CHOOSE i \in failures : \A j \in failures : i <= j
    IN  [i \in 1 .. last |-> Alone(i)]

Init == /\ job \in Jobs
        /\ caller = "idle"
        /\ answers = <<>>
        /\ ended = FALSE

Ask == /\ caller = "idle"
       /\ caller' = "asking"
       /\ UNCHANGED <<job, answers, ended>>

Answer == /\ caller = "asking" /\ ~ended
          /\ Len(answers) < Len(Promised)
          /\ caller' = "idle"
          /\ answers' = SubSeq(Promised, 1, Len(answers) + 1)
          /\ UNCHANGED <<job, ended>>

AnswerNone == /\ caller = "asking"
              /\ answers = Promised
              /\ caller' = "idle"
              /\ ended' = TRUE
              /\ UNCHANGED <<job, answers>>

Next == Ask \/ Answer \/ AnswerNone

Spec == Init /\ [][Next]_iteratorVars
==============================================================================
