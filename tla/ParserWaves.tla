----------------------------- MODULE ParserWaves -----------------------------
(***************************************************************************)
(* How a unit is parsed in parallel: Parser::batches over the iterators of *)
(* parse_slice and parse_stream.  The caller asks for one batch at a time; *)
(* when none is ready, a wave of chunks is taken (or of blocks read one    *)
(* after another), the workers of the thread pool parse them in whatever   *)
(* order rayon deals them out, and the results are handed over in order.   *)
(* A chunk is known here by its place in the unit and by how its parsing   *)
(* ends; what its bytes are is SliceChunks' and StreamBlocks' concern.     *)
(***************************************************************************)
EXTENDS Naturals, FiniteSets, SequencesExt

CONSTANTS Workers,     (* the threads of the pool                           *)
          ChunksPerThread,   (* CHUNKS_PER_THREAD                           *)
          Jobs         (* the reads considered: stream or not, and each     *)
                       (* chunk's fate: "batch", "bad" (it cannot be        *)
                       (* parsed) or, last in a stream, "readError"         *)

ASSUME WavesAssumption ==
    /\ IsFiniteSet(Workers) /\ Workers # {}
    /\ ChunksPerThread \in Nat \ {0}
    /\ \A j \in Jobs :
           /\ j.stream \in BOOLEAN
           /\ j.items \in Seq({"batch", "bad", "readError"})
           /\ \A i \in DOMAIN j.items :
                  \/ j.items[i] \in {"batch", "bad"}
                  \/ j.items[i] = "readError" /\ j.stream /\ i = Len(j.items)

VARIABLES job,       (* the read: never changes                              *)
          caller,    (* "idle", or "asking" inside next()                    *)
          answers,   (* the results given                                    *)
          ended,     (* whether None was given                               *)
          failed,    (* the latch of batches()                               *)
          taken,     (* how many chunks were taken into waves, or blocks read*)
          wave,      (* the chunks of the wave at hand, in order             *)
          parsing,   (* whether the wave is being parsed                     *)
          doing,     (* the chunk each worker is at, or 0                    *)
          index,     (* the chunks whose lines are in each worker's index    *)
          parsed,    (* the wave's results so far, by chunk                  *)
          ready      (* the results waiting to be asked for                  *)

vars == <<job, caller, answers, ended, failed, taken, wave, parsing, doing,
          index, parsed, ready>>
workVars == <<doing, index, parsed>>

Init == /\ job \in Jobs
        /\ caller = "idle" /\ answers = <<>> /\ ended = FALSE /\ failed = FALSE
        /\ taken = 0 /\ wave = <<>> /\ parsing = FALSE
        /\ doing = [w \in Workers |-> 0]
        /\ index = [w \in Workers |-> {}]
        /\ parsed = <<>>
        /\ ready = <<>>

------------------------------------------------------------------------------
(* The caller calls next().                                                 *)
Ask == /\ caller = "idle"
       /\ caller' = "asking"
       /\ UNCHANGED <<job, answers, ended, failed, taken, wave, parsing, ready>>
       /\ UNCHANGED workVars

(* next() gives a result that is ready, and latches an error.               *)
Deliver == /\ caller = "asking" /\ ~failed
           /\ ready # <<>>
           /\ answers' = Append(answers, Head(ready))
           /\ ready' = Tail(ready)
           /\ failed' = (Head(ready).kind # "batch")
           /\ caller' = "idle"
           /\ UNCHANGED <<job, ended, taken, wave, parsing>>
           /\ UNCHANGED workVars

Exhausted == ready = <<>> /\ wave = <<>> /\ taken = Len(job.items)

(* next() gives None.                                                       *)
AnswerNone == /\ caller = "asking"
              /\ failed \/ Exhausted
              /\ ended' = TRUE
              /\ caller' = "idle"
              /\ UNCHANGED <<job, answers, failed, taken, wave, parsing, ready>>
              /\ UNCHANGED workVars

------------------------------------------------------------------------------
(* Whether next() has to go on to another wave.                             *)
\* Mutated: without the latch.
NeedsWaveUnlatched == caller = "asking" /\ ready = <<>> /\ ~parsing

NeedsWave == caller = "asking" /\ ~failed /\ ready = <<>> /\ ~parsing

\* Mutated: all of the unit at once.
WaveOfEverything == Len(job.items)

WaveSize == Cardinality(Workers) * ChunksPerThread

\* Mutated: the last wave is taken for a full one.
WaveEndUnclamped == taken + WaveSize

(* Where the next wave of a slice ends: the last one may be short.          *)
WaveEnd == IF Len(job.items) < taken + WaveSize THEN Len(job.items)
           ELSE taken + WaveSize

(* parse_slice: the next wave's chunks are already divided up.              *)
TakeChunks ==
    /\ NeedsWave /\ ~job.stream
    /\ taken < Len(job.items)
    /\ wave' = [i \in 1 .. WaveEnd - taken |-> taken + i]
    /\ taken' = WaveEnd
    /\ parsing' = TRUE
    /\ UNCHANGED <<job, caller, answers, ended, failed, ready>>
    /\ UNCHANGED workVars

(* parse_stream: a block, or an error, is read for the wave at hand.        *)
ReadBlock == /\ NeedsWave /\ job.stream
             /\ taken < Len(job.items) /\ Len(wave) < WaveSize
             /\ wave' = Append(wave, taken + 1)
             /\ taken' = taken + 1
             /\ UNCHANGED <<job, caller, answers, ended, failed, parsing, ready>>
             /\ UNCHANGED workVars

\* Mutated: a short last wave is not parsed.
WaveFull == Len(wave) = WaveSize

WaveRead == Len(wave) = WaveSize \/ taken = Len(job.items)

(* The wave is full, or the reading has ended.                              *)
StartWave == /\ NeedsWave /\ job.stream
             /\ wave # <<>> /\ WaveRead
             /\ parsing' = TRUE
             /\ UNCHANGED <<job, caller, answers, ended, failed, taken, wave, ready>>
             /\ UNCHANGED workVars

\* Mutated: the index is not cleared.
IndexKept(w, i) == index[w] \cup {i}

(* A worker's line index for a chunk: cleared, then filled.                 *)
IndexFor(w, i) == {i}

(* A worker takes up a chunk nobody is at.                                  *)
StartChunk(w) ==
    /\ parsing /\ doing[w] = 0
    /\ \E i \in ToSet(wave) \ (DOMAIN parsed \cup {doing[v] : v \in Workers}) :
           /\ doing' = [doing EXCEPT ![w] = i]
           /\ index' = [index EXCEPT ![w] = IndexFor(w, i)]
    /\ UNCHANGED <<job, caller, answers, ended, failed, taken, wave, parsing,
                   parsed, ready>>

(* It is done with it: a batch of its lines, or the first error in it.      *)
FinishChunk(w) ==
    /\ doing[w] # 0
    /\ LET i == doing[w]
           result == [chunk |-> i, lines |-> index[w], kind |-> job.items[i]]
       IN  parsed' = [j \in DOMAIN parsed \cup {i} |->
                         IF j = i THEN result ELSE parsed[j]]
    /\ doing' = [doing EXCEPT ![w] = 0]
    /\ UNCHANGED <<job, caller, answers, ended, failed, taken, wave, parsing,
                   index, ready>>

(* The results collected, in the chunks' order.                             *)
Collected == [k \in DOMAIN wave |-> parsed[wave[k]]]

(* All of the wave is parsed; the pool's call returns.                      *)
FinishWave == /\ parsing
              /\ DOMAIN parsed = ToSet(wave)
              /\ ready' = Collected
              /\ wave' = <<>>
              /\ parsed' = <<>>
              /\ parsing' = FALSE
              /\ index' = [w \in Workers |-> {}]
              /\ UNCHANGED <<job, caller, answers, ended, failed, taken, doing>>

Work(w) == StartChunk(w) \/ FinishChunk(w)

(* What next() does by itself once called.                                  *)
Serve == \/ Deliver \/ AnswerNone
         \/ TakeChunks \/ ReadBlock \/ StartWave \/ FinishWave

Next == Ask \/ Serve \/ \E w \in Workers : Work(w)

Spec == Init /\ [][Next]_vars

(* A call runs on its thread and every thread of the pool runs; whether the *)
(* caller calls again is up to it.                                          *)
FairSpec == Spec /\ WF_vars(Serve) /\ \A w \in Workers : WF_vars(Work(w))
------------------------------------------------------------------------------
Result == [chunk : 1 .. Len(job.items), lines : SUBSET (1 .. Len(job.items)),
           kind : {"batch", "bad", "readError"}]

TypeInvariant ==
    /\ job \in Jobs
    /\ caller \in {"idle", "asking"}
    /\ ended \in BOOLEAN /\ failed \in BOOLEAN /\ parsing \in BOOLEAN
    /\ taken \in 0 .. Len(job.items)
    /\ ToSet(wave) \subseteq 1 .. taken
    /\ doing \in [Workers -> 0 .. taken]
    /\ index \in [Workers -> SUBSET (1 .. taken)]
    /\ DOMAIN parsed \subseteq ToSet(wave)
    /\ \A i \in DOMAIN parsed : parsed[i] \in Result
    /\ ToSet(answers) \cup ToSet(ready) \subseteq Result

Abstract == INSTANCE BatchIterator

(* Whichever worker finishes first, the caller gets the chunks' own results *)
(* in order, up to the first that fails (read_impl.rs 59-118, 187-200;      *)
(* "if several chunks fail, the error reported is the first in the unit").  *)
IteratesInOrder == Abstract!Spec

(* No more than a wave is read, parsed or waiting to be asked for, which is *)
(* what bounds scan()'s memory (read_impl.rs 13-16).                        *)
AheadByAWave ==
    taken - Len(answers) <= Cardinality(Workers) * ChunksPerThread

(* Nothing is read or parsed once an error was given (read_impl.rs 59-74).  *)
NothingAfterAnError ==
    [][failed => taken' = taken /\ doing' = doing /\ answers' = answers]_vars

(* Every call returns.                                                      *)
EveryCallReturns == (caller = "asking") ~> (caller = "idle")
==============================================================================
