------------------------------ MODULE ReadWhole ------------------------------
(***************************************************************************)
(* read(): the parser's batches, asked for until the first error or the    *)
(* end, and joined into one.  The 32-bit offsets of a String column limit  *)
(* its text: joining fails when the batches together have more.  (One      *)
(* chunk that has more by itself makes Arrow's builder panic; no unit      *)
(* considered here has one.)                                               *)
(***************************************************************************)
EXTENDS ParserWaves, FiniteSetsExt

CONSTANTS Columns,   (* the String columns                                  *)
          Cap        (* i32::MAX: the text the offsets of a column reach    *)

(* A job says here how much text each chunk has in each column.             *)
ASSUME ReadAssumption ==
    /\ Cap \in Nat /\ IsFiniteSet(Columns)
    /\ \A j \in Jobs : \A i \in DOMAIN j.items : j.text[i] \in [Columns -> 0 .. Cap]

VARIABLE whole       (* what read() returns: "open", "ok", "bad" or         *)
                     (* "tooLarge"                                          *)

(* The text that some chunks have in a column.                              *)
TextOf(j, chunks, column) == MapThenSumSet(LAMBDA c : j.text[c][column], chunks)

Fits(chunks) == \A column \in Columns : TextOf(job, chunks, column) <= Cap

------------------------------------------------------------------------------
(* collect: asks for batch after batch, and for none after an error.        *)
AskForAll == /\ whole = "open" /\ ~failed /\ ~ended
             /\ Ask
             /\ UNCHANGED whole

Collect == (Deliver \/ AnswerNone) /\ UNCHANGED whole

Batches == {r.chunk : r \in {a \in ToSet(answers) : a.kind = "batch"}}

\* Mutated: the batches before an error are joined all the same.
JoinedAnyhow == IF Fits(Batches) THEN "ok" ELSE "tooLarge"

(* The first error if there is one, else what concat_batches returns.       *)
Joined == IF failed THEN "bad" ELSE IF Fits(Batches) THEN "ok" ELSE "tooLarge"

Join == /\ whole = "open" /\ (failed \/ ended)
        /\ whole' = Joined
        /\ UNCHANGED vars

Read == AskForAll \/ Collect \/ Join
------------------------------------------------------------------------------
All == DOMAIN job.items

(* read() gives all of the unit, every chunk once and in order, or the      *)
(* error of its first chunk that failed, whatever was parsed beside that,   *)
(* and TooLarge only of a unit that scan() does read, with no error in it,  *)
(* and that cannot be joined: "scan() reads it in smaller batches"          *)
(* (reader.rs 11-16, error.rs 33).                                          *)
GivesAllOrTheFirstError ==
    LET given == [k \in DOMAIN answers |-> answers[k].chunk]
    IN  /\ whole = "ok" => /\ given = [c \in All |-> c]
                           /\ \A c \in All : job.items[c] = "batch"
        /\ whole = "bad" => /\ job.items[Last(given)] # "batch"
                            /\ \A c \in 1 .. Last(given) - 1 : job.items[c] = "batch"
        /\ whole = "tooLarge" => /\ ~Fits(All)
                                 /\ \A c \in All : job.items[c] = "batch"
==============================================================================
