------------------------------ MODULE WriteWaves ------------------------------
(***************************************************************************)
(* How the batches are written as CSV: write_to, write_csv and in_waves.   *)
(* A wave of batches is formatted in parallel and its texts are written in *)
(* order, on one side of a rayon::join, while the other side reads the     *)
(* next wave.  The writes go through a Tracked BufWriter to a destination  *)
(* that may refuse any of them.  The source of the batches is a            *)
(* BatchIterator: after an error, or at the end, it answers None.          *)
(***************************************************************************)
EXTENDS Naturals, FiniteSets, SequencesExt

CONSTANTS Jobs,            (* the writes considered: each batch "good" or   *)
                           (* "odd" (it cannot be formatted), how the       *)
                           (* source ends, and whether a batch's text is    *)
                           (* larger than the buffer                        *)
          RefusalKinds,    (* how a destination fails: a closed pipe, ...   *)
          Threads,
          BatchesPerThread,   (* BATCHES_PER_THREAD                         *)
          Capacity         (* how many texts the buffer holds, if not large *)

VARIABLES job,         (* the write: never changes                           *)
          pc,          (* where write_to is                                  *)
          taken,       (* how many batches the source gave                   *)
          sourceOver,  (* whether it gave its error, if it had one           *)
          reading,     (* whether read() runs                                *)
          readWave, readStatus,     (* what it returns                       *)
          wave, status,             (* in_waves' own                         *)
          stage,       (* write(&wave): "off", "format", "write" or "over"   *)
          formatted,   (* the batches of the wave whose text is ready        *)
          put,         (* how many of them were written                      *)
          written,     (* what write(&wave) returns: "ok", "io" or "format"  *)
          buffered,    (* the texts in the BufWriter                         *)
          sink,        (* the texts that reached the destination             *)
          error,       (* Tracked's error, or "no"                           *)
          refused,     (* the kind of error the destination first gave       *)
          result       (* what write_to returns                              *)

readVars  == <<taken, sourceOver, reading, readWave, readStatus>>
waveVars  == <<wave, status>>
stageVars == <<stage, formatted, put, written>>
outVars   == <<buffered, sink, error, refused>>

WaveSize == Threads * BatchesPerThread

Init == /\ job \in Jobs
        /\ pc = "header"
        /\ taken = 0 /\ sourceOver = FALSE
        /\ reading = FALSE /\ readWave = <<>> /\ readStatus = "ok"
        /\ wave = <<>> /\ status = "ok"
        /\ stage = "off" /\ formatted = {} /\ put = 0 /\ written = "ok"
        /\ buffered = <<>> /\ sink = <<>> /\ error = "no" /\ refused = "no"
        /\ result = "open"

------------------------------------------------------------------------------
(* The BufWriter under Tracked.  A text that does not fit drives out what   *)
(* is buffered; one larger than the buffer then goes straight on.           *)
Large(text) == job.large /\ text # 0

Track(outcome) == error' = outcome

Accept(text) ==
    /\ IF Large(text)
       THEN sink' = sink \o Append(buffered, text) /\ buffered' = <<>>
       ELSE IF Len(buffered) < Capacity
       THEN buffered' = Append(buffered, text) /\ UNCHANGED sink
       ELSE sink' = sink \o buffered /\ buffered' = <<text>>
    /\ Track("no")
    /\ UNCHANGED refused

(* The destination takes some of what is buffered, then fails; what it did  *)
(* not take stays in the buffer.                                            *)
DriveOut(n) == /\ sink' = sink \o SubSeq(buffered, 1, n)
               /\ buffered' = SubSeq(buffered, n + 1, Len(buffered))

Refusal(kind) == refused' = IF refused = "no" THEN kind ELSE refused

Refuse(text) ==
    \E kind \in RefusalKinds, n \in 0 .. Len(buffered) :
        /\ Large(text) \/ (Len(buffered) = Capacity /\ n < Len(buffered))
        /\ DriveOut(n)
        /\ Track(kind)
        /\ Refusal(kind)

------------------------------------------------------------------------------
(* write_csv: the header first, then in_waves, which reads the first wave.  *)
StartReading == /\ reading' = TRUE /\ readWave' = <<>> /\ readStatus' = "ok"
                /\ UNCHANGED <<taken, sourceOver>>

WriteHeader ==
    /\ pc = "header"
    /\ \/ Accept(0) /\ pc' = "first" /\ StartReading
       \/ Refuse(0) /\ pc' = "drop" /\ UNCHANGED readVars
    /\ UNCHANGED <<job, waveVars, stageVars, result>>

(* read(): a batch at a time, until the wave is full, the source ends or a  *)
(* parsing error cuts it short.                                             *)
\* Mutated: one batch too many.
WaveOpenLate == Len(readWave) <= WaveSize

\* Mutated: the whole source is read ahead.
WaveAlwaysOpen == TRUE

WaveOpen == Len(readWave) < WaveSize

ReadBatch == /\ reading /\ WaveOpen
             /\ taken < Len(job.batches)
             /\ taken' = taken + 1
             /\ readWave' = Append(readWave, taken + 1)
             /\ UNCHANGED <<sourceOver, reading, readStatus, job, pc, result>>
             /\ UNCHANGED <<waveVars, stageVars, outVars>>

SourceFails == job.ending = "parseError" /\ ~sourceOver

EndRead == /\ reading
           /\ \/ /\ ~WaveOpen
                 /\ UNCHANGED <<sourceOver, readStatus>>
              \/ /\ WaveOpen /\ taken = Len(job.batches)
                 /\ sourceOver' = TRUE
                 /\ readStatus' = IF SourceFails THEN "parse" ELSE "ok"
           /\ reading' = FALSE
           /\ UNCHANGED <<taken, readWave, job, pc, result>>
           /\ UNCHANGED <<waveVars, stageVars, outVars>>

(* write(&wave): format in parallel, collect, then write text after text.   *)
StartWriting == /\ stage' = "format" /\ formatted' = {} /\ put' = 0
                /\ written' = "ok"

Format == /\ stage = "format"
          /\ \E i \in ToSet(wave) \ formatted : formatted' = formatted \cup {i}
          /\ UNCHANGED <<stage, put, written, job, pc, result>>
          /\ UNCHANGED <<readVars, waveVars, outVars>>

(* An error is returned before all are formatted, or any text is written.   *)
Collect == /\ stage = "format"
           /\ \/ /\ \E i \in formatted : job.batches[i] = "odd"
                 /\ stage' = "over" /\ written' = "format"
              \/ /\ formatted = ToSet(wave)
                 /\ \A i \in formatted : job.batches[i] = "good"
                 /\ stage' = "write" /\ UNCHANGED written
           /\ UNCHANGED <<formatted, put, job, pc, result>>
           /\ UNCHANGED <<readVars, waveVars, outVars>>

TextToWrite == wave[put + 1]

WriteText ==
    /\ stage = "write" /\ put < Len(wave)
    /\ \/ Accept(TextToWrite) /\ put' = put + 1 /\ UNCHANGED <<stage, written>>
       \/ Refuse(TextToWrite) /\ stage' = "over" /\ written' = "io"
          /\ UNCHANGED put
    /\ UNCHANGED <<formatted, job, pc, result>>
    /\ UNCHANGED <<readVars, waveVars>>

EndWrite == /\ stage = "write" /\ put = Len(wave)
            /\ stage' = "over"
            /\ UNCHANGED <<formatted, put, written, job, pc, result>>
            /\ UNCHANGED <<readVars, waveVars, outVars>>

------------------------------------------------------------------------------
(* in_waves: another turn while there is a wave and no error; then the      *)
(* batches before the error are written alone.                              *)
\* Mutated: goes on after an error, which the next read forgets.
AnotherTurnAfterError(w, s) == w # <<>>

AnotherTurn(w, s) == s = "ok" /\ w # <<>>

TakeTurn ==
    /\ wave' = readWave /\ status' = readStatus
    /\ StartWriting
    /\ IF AnotherTurn(readWave, readStatus)
       THEN pc' = "join" /\ StartReading
       ELSE pc' = "last" /\ UNCHANGED readVars
    /\ UNCHANGED <<job, outVars, result>>

FirstRead == pc = "first" /\ ~reading /\ TakeTurn

Fail == /\ pc' = "drop"
        /\ UNCHANGED <<job, readVars, waveVars, stageVars, outVars, result>>

(* Both sides of the join are over; a failed write comes first.             *)
\* Mutated: a refused write does not end the loop.
WrittenAsFormatted == written # "format"

WrittenWell == written = "ok"

Join == /\ pc = "join" /\ ~reading /\ stage = "over"
        /\ \/ WrittenWell /\ TakeTurn
           \/ ~WrittenWell /\ Fail

LastWritten == /\ pc = "last" /\ stage = "over"
               /\ pc' = IF written = "ok" /\ status = "ok" THEN "flush" ELSE "drop"
               /\ UNCHANGED <<job, readVars, waveVars, stageVars, outVars, result>>

(* write_to flushes after a complete write only.                            *)
Flush == /\ pc = "flush"
         /\ pc' = "drop"
         /\ \/ DriveOut(Len(buffered)) /\ Track("no") /\ UNCHANGED refused
            \/ \E kind \in RefusalKinds, n \in 0 .. Len(buffered) :
                   DriveOut(n) /\ Track(kind) /\ Refusal(kind)
         /\ UNCHANGED <<job, readVars, waveVars, stageVars, result>>

(* The BufWriter is dropped: it drives out what it can and tells nobody.    *)
Drop == /\ pc = "drop"
        /\ pc' = "return"
        /\ \/ DriveOut(Len(buffered)) /\ UNCHANGED refused
           \/ \E kind \in RefusalKinds, n \in 0 .. Len(buffered) :
                  n < Len(buffered) /\ DriveOut(n) /\ Refusal(kind)
        /\ UNCHANGED <<job, readVars, waveVars, stageVars, error, result>>

(* What write_to makes of the errors: a parsing error as it was, else the   *)
(* one Tracked kept, else the format's as one of kind Other.                *)
Outcome == IF status = "parse" /\ written = "ok" THEN "parse"
           ELSE IF error # "no" THEN error
           ELSE IF written # "ok" THEN "other"
           ELSE "ok"

Return == /\ pc = "return"
          /\ pc' = "done"
          /\ result' = Outcome
          /\ UNCHANGED <<job, readVars, waveVars, stageVars, outVars>>

Reader == ReadBatch \/ EndRead

Writer == Format \/ Collect \/ WriteText \/ EndWrite

Main == \/ WriteHeader \/ FirstRead \/ Join \/ LastWritten \/ Flush \/ Drop
        \/ Return

------------------------------------------------------------------------------
TypeInvariant ==
    /\ job \in Jobs
    /\ pc \in {"header", "first", "join", "last", "flush", "drop", "return", "done"}
    /\ taken \in 0 .. Len(job.batches)
    /\ sourceOver \in BOOLEAN /\ reading \in BOOLEAN
    /\ ToSet(wave) \cup ToSet(readWave) \subseteq 1 .. taken
    /\ Len(wave) <= WaveSize /\ Len(readWave) <= WaveSize
    /\ status \in {"ok", "parse"} /\ readStatus \in {"ok", "parse"}
    /\ stage \in {"off", "format", "write", "over"}
    /\ formatted \subseteq ToSet(wave)
    /\ put \in 0 .. Len(wave)
    /\ written \in {"ok", "io", "format"}
    /\ ToSet(buffered) \cup ToSet(sink) \subseteq 0 .. taken
    /\ Len(buffered) <= Capacity
    /\ {error, refused} \subseteq {"no"} \cup RefusalKinds
    /\ result \in {"open", "ok", "parse", "other"} \cup RefusalKinds

(* The writer holds two waves at most, so reading never runs away from a    *)
(* slow destination (writer.rs 257-281).                                    *)
HoldsTwoWaves ==
    pc # "header" => taken <= Len(sink) + Len(buffered) - 1 + 2 * WaveSize
==============================================================================
