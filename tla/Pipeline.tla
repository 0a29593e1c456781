------------------------------- MODULE Pipeline -------------------------------
(***************************************************************************)
(* The entry points over the parser: scan()'s reader in the hands of a     *)
(* caller, of read() or of write(), and write() of a reader of the         *)
(* caller's own.  In write(scan(..)), each batch that in_waves reads is a  *)
(* call of next(), which may parse a whole wave of chunks on the pool      *)
(* while the batches before are formatted and written.  A unit's chunk is  *)
(* a batch, if it can be parsed; the first that cannot is the writer's     *)
(* parsing error.  The two machines meet in AskForBatch, GiveBatch and     *)
(* GiveEnd and otherwise interleave.                                       *)
(***************************************************************************)
EXTENDS ReadWhole

CONSTANTS RefusalKinds,      (* how a destination fails                     *)
          Threads,           (* of the pool the writer runs on: the         *)
                             (* parser's may be one of its own              *)
          BatchesPerThread,  (* BATCHES_PER_THREAD                          *)
          Capacity           (* how many texts the buffer holds             *)

(* A job says here who the client is, which batches cannot be formatted and *)
(* whether a batch's text is larger than the buffer.                        *)
ASSUME PipelineAssumption ==
    /\ Threads \in Nat \ {0} /\ BatchesPerThread \in Nat \ {0}
    /\ Capacity \in Nat \ {0}
    /\ RefusalKinds \cap {"no", "open", "ok", "parse", "other"} = {}
    /\ \A j \in Jobs : /\ j.client \in {"caller", "read", "write", "writeScan"}
                       /\ j.odd \subseteq DOMAIN j.items
                       /\ j.large \in BOOLEAN

(* The writer's variables, see WriteWaves: its taken and wave are given and *)
(* inHand here.                                                             *)
VARIABLES pc, given, sourceOver, reading, readWave, readStatus, inHand, status,
          stage, formatted, put, written, buffered, sink, error, refused, result

writerVars == <<pc, given, sourceOver, reading, readWave, readStatus, inHand,
                status, stage, formatted, put, written, buffered, sink, error,
                refused, result>>
allVars == <<vars, whole, writerVars>>

(* The write that a read makes: its batches up to the first failure.        *)
WriteOf(j) ==
    LET failures == {i \in DOMAIN j.items : j.items[i] # "batch"}
        batches  == IF failures = {} THEN Len(j.items) ELSE Min(failures) - 1
    IN  [batches |-> [i \in 1 .. batches |-> IF i \in j.odd THEN "odd" ELSE "good"],
         ending  |-> IF failures = {} THEN "end" ELSE "parseError",
         large   |-> j.large]

Writes == {WriteOf(j) : j \in Jobs}

Writer == INSTANCE WriteWaves WITH
    Jobs <- Writes, job <- WriteOf(job), taken <- given, wave <- inHand

InitAll == Init /\ whole = "open" /\ Writer!Init

------------------------------------------------------------------------------
(* A caller of next() asks as it pleases, also after an error.              *)
CallerAsks == /\ job.client = "caller"
              /\ Ask
              /\ UNCHANGED <<whole, writerVars>>

CallerIsAnswered == /\ job.client = "caller"
                    /\ Deliver \/ AnswerNone
                    /\ UNCHANGED <<whole, writerVars>>

ReadAll == job.client = "read" /\ Read /\ UNCHANGED writerVars

(* What next() does by itself, for whoever called it.                       *)
Parse == /\ TakeChunks \/ ReadBlock \/ StartWave \/ FinishWave
         /\ UNCHANGED <<whole, writerVars>>

ParseOn(w) == Work(w) /\ UNCHANGED <<whole, writerVars>>

(* in_waves' read(): the next of the batches still wanted for its wave.     *)
AskForBatch == /\ job.client = "writeScan" /\ reading /\ Writer!WaveOpen
               /\ Ask
               /\ UNCHANGED <<whole, writerVars>>

(* next() gives a batch, ...                                                *)
GiveBatch == /\ job.client = "writeScan"
             /\ Deliver /\ ~failed' /\ Writer!ReadBatch
             /\ UNCHANGED whole

(* ... an error, which scan() wraps for Arrow, or None: the wave ends.      *)
GiveEnd == /\ job.client = "writeScan"
           /\ (Deliver /\ failed') \/ AnswerNone
           /\ Writer!WaveOpen /\ Writer!EndRead
           /\ UNCHANGED whole

(* The wave is full: no more is asked for.                                  *)
StopAsking == /\ job.client = "writeScan"
              /\ caller = "idle" /\ ~Writer!WaveOpen
              /\ UNCHANGED <<vars, whole>>
              /\ Writer!EndRead

(* The caller's own reader answers at once.                                 *)
ReadItsOwn == job.client = "write" /\ UNCHANGED <<vars, whole>> /\ Writer!Reader

Reading == \/ CallerIsAnswered \/ ReadAll \/ Parse
           \/ AskForBatch \/ GiveBatch \/ GiveEnd \/ StopAsking \/ ReadItsOwn

Writing == job.client \in {"write", "writeScan"} /\ UNCHANGED <<vars, whole>>

WriteWave == Writing /\ Writer!Writer

WriteMain == Writing /\ Writer!Main

NextAll == \/ CallerAsks \/ Reading \/ WriteWave \/ WriteMain
           \/ \E w \in Workers : ParseOn(w)

(* Both sides of the join and every thread of the pool run, the input       *)
(* answers every read and the destination every write; only whether a       *)
(* caller asks again is up to it.                                           *)
SpecAll == /\ InitAll /\ [][NextAll]_allVars
           /\ WF_allVars(Reading)
           /\ WF_allVars(WriteWave)
           /\ WF_allVars(WriteMain)
           /\ \A w \in Workers : WF_allVars(ParseOn(w))
------------------------------------------------------------------------------
PipelineTypes == TypeInvariant /\ Writer!TypeInvariant

(* What text i is of: scan() gives a chunk whose lines, and no other's, are *)
(* in its i-th answer, another reader its i-th batch.                       *)
ChunkOf(i) ==
    IF i = 0 \/ job.client = "write" THEN i
    ELSE IF answers[i].lines = {answers[i].chunk} THEN answers[i].chunk
    ELSE Len(job.items) + 1

Sequential == INSTANCE SequentialWrite WITH
    Jobs <- Writes, job <- WriteOf(job),
    out <- [k \in DOMAIN sink |-> ChunkOf(sink[k])]

(* A conversion writes what parsing the unit's chunks one after another     *)
(* and writing each would, and returns what that would, whichever threads   *)
(* parse, format and write when (reader.rs 22-28, writer.rs 66-69,          *)
(* 257-259).                                                                *)
ConvertsInSequence == Sequential!Spec

(* The writer holds two waves of batches at most, so reading never runs     *)
(* away from a slow destination, and over scan() a conversion holds three   *)
(* waves, whatever the unit's size: those two and the chunks parsed for     *)
(* them (docs/design.md:38, 54; read_impl.rs 13-16, writer.rs 20-22,        *)
(* 257-281).                                                                *)
HoldsThreeWaves ==
    /\ Writer!HoldsTwoWaves
    /\ pc # "header" =>
           taken < Len(sink) + Len(buffered) - 1
                   + 2 * Threads * BatchesPerThread
                   + Cardinality(Workers) * ChunksPerThread

(* "When the reader closes the pipe, the write stops, and nothing is parsed *)
(* past the batches already read ahead" (docs/design.md:272): no batch is   *)
(* read after a refusal but by a read that was under way (writer.rs         *)
(* 277-281).                                                                *)
NoReadAfterARefusal == [][refused # "no" /\ ~reading => ~reading']_allVars

(* A call of next(), read() or write() returns: parser and writer never     *)
(* wait for each other for ever, nor for a wave that the unit cannot fill   *)
(* (read_impl.rs 84-92, 181-184, writer.rs 273-280).                        *)
EveryClientReturns ==
    /\ EveryCallReturns
    /\ job.client \in {"write", "writeScan"} => <>(pc = "done")
    /\ job.client = "read" => <>(whole # "open")
==============================================================================
