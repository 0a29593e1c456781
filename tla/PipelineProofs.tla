---------------------------- MODULE PipelineProofs ----------------------------
(***************************************************************************)
(* What holds of every conversion, for any unit, any number of workers and *)
(* threads, any sizes of waves and buffer, and whichever writes are        *)
(* refused: the parser and the writer run together as writing one batch    *)
(* after another does, and hold three waves of the unit at most.           *)
(***************************************************************************)
EXTENDS Pipeline, SequenceTheorems, FiniteSetTheorems,
        WellFoundedInduction, TLAPS

Types ==
    /\ job \in Jobs
    /\ caller \in {"idle", "asking"}
    /\ ended \in BOOLEAN /\ failed \in BOOLEAN /\ parsing \in BOOLEAN
    /\ taken \in 0 .. Len(job.items)
    /\ wave \in Seq(Nat)
    /\ answers \in Seq(Result) /\ ready \in Seq(Result)
    /\ doing \in [Workers -> Nat]
    /\ index \in [Workers -> SUBSET Nat]

(* Every chunk taken was given, or is ready, or is in the wave at hand; each *)
(* of the three is in the unit's order, and what was given or is ready is   *)
(* what its chunk alone gives.                                              *)
Ordered ==
    /\ taken = Len(answers) + Len(ready) + Len(wave)
    /\ Len(ready) + Len(wave) <= WaveSize
    /\ ready # <<>> => wave = <<>>
    /\ \A k \in 1 .. Len(answers) : answers[k] = Abstract!Alone(k)
    /\ \A k \in 1 .. Len(ready) : ready[k] = Abstract!Alone(Len(answers) + k)
    /\ \A k \in 1 .. Len(wave) : wave[k] = (taken - Len(wave)) + k

(* A wave is at hand only inside a call, and parsed only when there is one. *)
AtHand ==
    /\ parsing => wave # <<>>
    /\ wave # <<>> => caller = "asking" /\ ~failed
    /\ wave # <<>> /\ ~parsing => job.stream

(* The workers are at different chunks of the wave, none of them parsed yet, *)
(* each with that chunk's lines alone in its index.                         *)
Shared ==
    /\ DOMAIN parsed \subseteq ToSet(wave)
    /\ \A i \in DOMAIN parsed : parsed[i] = Abstract!Alone(i)
    /\ ~parsing => DOMAIN parsed = {} /\ \A w \in Workers : doing[w] = 0
    /\ \A w \in Workers : index[w] \subseteq ToSet(wave)
    /\ \A w \in Workers :
           doing[w] # 0 => /\ doing[w] \in ToSet(wave) \ DOMAIN parsed
                           /\ index[w] = {doing[w]}
    /\ \A v, w \in Workers : v # w /\ doing[v] # 0 => doing[v] # doing[w]

(* Only the last result given can be an error, and it is iff failed; once   *)
(* None was given there is nothing left to give.                            *)
Latched ==
    /\ \A k \in 1 .. Len(answers) : k < Len(answers) => answers[k].kind = "batch"
    /\ failed => Len(answers) > 0 /\ answers[Len(answers)].kind # "batch"
    /\ ~failed /\ Len(answers) > 0 => answers[Len(answers)].kind = "batch"
    /\ ended => failed \/ Exhausted

IInv == Types /\ Ordered /\ AtHand /\ Shared /\ Latched

------------------------------------------------------------------------------
LEMMA WaveSizeType == WaveSize \in Nat /\ WaveSize > 0
<1>1. Cardinality(Workers) \in Nat /\ Cardinality(Workers) # 0
  BY WavesAssumption, FS_CardinalityType, FS_EmptySet
<1>2. ChunksPerThread \in Nat /\ ChunksPerThread # 0
  BY WavesAssumption
<1>3. \A m, n \in Nat : m # 0 /\ n # 0 => m * n \in Nat /\ m * n > 0
  OBVIOUS
<1> QED
  BY <1>1, <1>2, <1>3 DEF WaveSize

LEMMA ItemsFacts ==
    ASSUME job \in Jobs
    PROVE  /\ Len(job.items) \in Nat
           /\ DOMAIN job.items = 1 .. Len(job.items)
           /\ \A i \in 1 .. Len(job.items) :
                  job.items[i] \in {"batch", "bad", "readError"}
<1>1. job.items \in Seq({"batch", "bad", "readError"})
  BY WavesAssumption
<1> QED
  BY <1>1, LenProperties

LEMMA AloneType ==
    ASSUME job \in Jobs, NEW i \in 1 .. Len(job.items)
    PROVE  Abstract!Alone(i) \in Result /\ Abstract!Alone(i).kind = job.items[i]
<1> QED
  BY ItemsFacts DEF Abstract!Alone, Result

(* The abstract iterator's results: the chunks' own, up to the first that   *)
(* fails.                                                                   *)
LEMMA PromisedFacts ==
    ASSUME job \in Jobs
    PROVE  /\ Abstract!Promised \in Seq(Result)
           /\ Len(Abstract!Promised) \in Nat
           /\ Len(Abstract!Promised) <= Len(job.items)
           /\ \A k \in 1 .. Len(Abstract!Promised) :
                  Abstract!Promised[k] = Abstract!Alone(k)
           /\ \A k \in 1 .. Len(Abstract!Promised) :
                  k < Len(Abstract!Promised) => job.items[k] = "batch"
           /\ Len(Abstract!Promised) < Len(job.items)
                => /\ Len(Abstract!Promised) > 0
                   /\ job.items[Len(Abstract!Promised)] # "batch"
<1> DEFINE failures == {i \in DOMAIN job.items : job.items[i] # "batch"}
           last == IF failures = {} THEN Len(job.items)
                   ELSE CHOOSE i \in failures : \A j \in failures : i <= j
<1>1. Abstract!Promised = [i \in 1 .. last |-> Abstract!Alone(i)]
  BY DEF Abstract!Promised
<1>2. DOMAIN job.items = 1 .. Len(job.items) /\ Len(job.items) \in Nat
  BY ItemsFacts
<1>3. /\ last \in Nat /\ last <= Len(job.items)
      /\ \A k \in 1 .. last : k < last => job.items[k] = "batch"
      /\ last < Len(job.items) => last > 0 /\ job.items[last] # "batch"
  <2>1. CASE failures = {}
    BY <1>2, <2>1
  <2>2. CASE failures # {}
    <3>1. \E i \in failures : \A j \in failures : i <= j
      <4> DEFINE less == OpToRel(<, Nat)
      <4>1. failures \subseteq Nat
        BY <1>2
      <4>2. \A m, n \in Nat : m < n => <<m, n>> \in less
        BY DEF OpToRel
      <4>3. IsWellFoundedOn(less, Nat)
        BY NatLessThanWellFounded
      <4> HIDE DEF failures, less
      <4>4. PICK i \in failures : \A j \in failures : ~ (<<j, i>> \in less)
        BY <2>2, <4>1, <4>3, WFMin, Zenon
      <4> HIDE DEF last
      <4>5. \A j \in failures : ~ (j < i)
        BY <4>1, <4>2, <4>4
      <4> QED BY <4>1, <4>5
    <3>2. last \in failures /\ \A j \in failures : last <= j
      <4> HIDE DEF failures
      <4> QED BY <2>2, <3>1
    <3> HIDE DEF last
    <3>3. last \in 1 .. Len(job.items) /\ job.items[last] # "batch"
      BY <1>2, <3>2
    <3>4. \A k \in 1 .. Len(job.items) : job.items[k] # "batch" => last <= k
      BY <1>2, <3>2
    <3> QED BY <1>2, <3>3, <3>4
  <2> QED BY <2>1, <2>2
<1> HIDE DEF last
<1>4. \A i \in 1 .. last : Abstract!Alone(i) \in Result
  BY <1>2, <1>3, AloneType
<1> QED
  BY <1>1, <1>3, <1>4

------------------------------------------------------------------------------
LEMMA InitHolds ==
    ASSUME Init
    PROVE  IInv
<1>1. Types
  <2>1. wave \in Seq(Nat) /\ answers \in Seq(Result) /\ ready \in Seq(Result)
    BY EmptySeq DEF Init
  <2>2. taken \in 0 .. Len(job.items)
    BY ItemsFacts DEF Init
  <2> QED BY <2>1, <2>2 DEF Init, Types
<1>2. Ordered
  BY WaveSizeType DEF Init, Ordered
<1>3. AtHand /\ Shared /\ Latched
  BY DEF Init, AtHand, Shared, Latched
<1> QED
  BY <1>1, <1>2, <1>3 DEF IInv

LEMMA AskKeeps ==
    ASSUME IInv, Ask
    PROVE  IInv'
<1> USE DEF IInv, Ask, workVars
<1>1. Types'
  BY DEF Types, Result
<1>2. Ordered'
  BY DEF Ordered, Abstract!Alone
<1>3. AtHand' /\ Shared'
  BY DEF AtHand, Shared, Abstract!Alone
<1>4. Latched'
  BY DEF Latched, Exhausted
<1> QED
  BY <1>1, <1>2, <1>3, <1>4

LEMMA AnswerNoneKeeps ==
    ASSUME IInv, AnswerNone
    PROVE  IInv'
<1> USE DEF IInv, AnswerNone, workVars
<1>1. Types'
  BY DEF Types, Result
<1>2. Ordered'
  BY DEF Ordered, Abstract!Alone
<1>3. wave = <<>>
  BY DEF AtHand, Exhausted
<1>4. AtHand' /\ Shared'
  BY <1>3 DEF AtHand, Shared, Abstract!Alone
<1>5. Latched'
  BY DEF Latched, Exhausted
<1> QED
  BY <1>1, <1>2, <1>4, <1>5

LEMMA DeliverKeeps ==
    ASSUME IInv, Deliver
    PROVE  IInv'
<1> USE DEF IInv, Deliver, workVars
<1>1. /\ Head(ready) \in Result /\ Head(ready) = ready[1]
      /\ Tail(ready) \in Seq(Result) /\ Len(Tail(ready)) = Len(ready) - 1
      /\ \A k \in 1 .. Len(Tail(ready)) : Tail(ready)[k] = ready[k + 1]
      /\ Len(ready) \in Nat /\ Len(ready) > 0
  <2>1. ready \in Seq(Result) /\ ready # <<>>
    BY DEF Types
  <2> QED BY <2>1, HeadTailProperties, EmptySeq, LenProperties
<1>2. /\ answers' \in Seq(Result) /\ Len(answers') = Len(answers) + 1
      /\ Len(answers) \in Nat
      /\ \A k \in 1 .. Len(answers) : answers'[k] = answers[k]
      /\ answers'[Len(answers) + 1] = Head(ready)
  BY <1>1 DEF Types
<1>3. wave = <<>> /\ wave' = <<>> /\ Len(wave) = 0
  BY DEF Ordered
<1>4. Types'
  BY <1>1, <1>2 DEF Types, Result
<1>5. Ordered'
  <2>1. taken' = Len(answers') + Len(ready') + Len(wave')
    BY <1>1, <1>2, <1>3 DEF Ordered, Types
  <2>2. Len(ready') + Len(wave') <= WaveSize
    BY <1>1, <1>3, WaveSizeType DEF Ordered
  <2>3. \A k \in 1 .. Len(answers') : answers'[k] = Abstract!Alone(k)
    <3> TAKE k \in 1 .. Len(answers')
    <3>1. CASE k <= Len(answers)
      BY <3>1, <1>2 DEF Ordered
    <3>2. CASE k = Len(answers) + 1
      BY <3>2, <1>1, <1>2 DEF Ordered
    <3> QED BY <3>1, <3>2, <1>2
  <2>4. \A k \in 1 .. Len(ready') : ready'[k] = Abstract!Alone(Len(answers') + k)
    <3> TAKE k \in 1 .. Len(ready')
    <3>1. ready'[k] = ready[k + 1] /\ k + 1 \in 1 .. Len(ready)
      BY <1>1
    <3>2. ready[k + 1] = Abstract!Alone(Len(answers) + (k + 1))
      BY <3>1 DEF Ordered
    <3>3. Len(answers) + (k + 1) = Len(answers') + k
      BY <1>2
    <3> QED BY <3>1, <3>2, <3>3
  <2> QED BY <1>3, <2>1, <2>2, <2>3, <2>4 DEF Ordered, WaveSize, Abstract!Alone
<1>6. AtHand' /\ Shared'
  BY <1>3 DEF AtHand, Shared, Abstract!Alone
<1>7. Latched'
  <2>1. \A k \in 1 .. Len(answers') : k < Len(answers') => answers'[k].kind = "batch"
    BY <1>2 DEF Latched
  <2>2. ~ended
    BY <1>1 DEF Latched, Exhausted
  <2>3. Len(answers') > 0 /\ answers'[Len(answers')] = Head(ready)
    BY <1>2
  <2>4. failed' <=> Head(ready).kind # "batch"
    BY Zenon
  <2>5. ended' => failed' \/ Exhausted'
    BY <2>2
  <2> QED BY <2>1, <2>3, <2>4, <2>5, Zenon DEF Latched
<1> QED
  BY <1>4, <1>5, <1>6, <1>7

(* When another wave is needed no worker is at anything.                    *)
LEMMA NeedsWaveFacts ==
    ASSUME IInv, NeedsWave
    PROVE  /\ caller = "asking" /\ ~failed /\ ready = <<>> /\ ~parsing
           /\ Len(answers) \in Nat /\ Len(ready) = 0 /\ Len(wave) \in Nat
           /\ taken = Len(answers) + Len(wave)
           /\ taken \in Nat /\ taken <= Len(job.items) /\ Len(job.items) \in Nat
           /\ DOMAIN parsed = {} /\ \A w \in Workers : doing[w] = 0
<1>1. Len(answers) \in Nat /\ Len(wave) \in Nat
  BY DEF IInv, Types
<1>2. Len(job.items) \in Nat /\ taken \in 0 .. Len(job.items)
  BY ItemsFacts DEF IInv, Types
<1>3. caller = "asking" /\ ~failed /\ ready = <<>> /\ ~parsing
  BY DEF NeedsWave
<1>4. Len(ready) = 0
  BY <1>3
<1> QED
  BY <1>1, <1>2, <1>3, <1>4 DEF IInv, Ordered, Shared

LEMMA TakeChunksKeeps ==
    ASSUME IInv, TakeChunks
    PROVE  IInv'
<1>1. /\ caller = "asking" /\ ~failed /\ ready = <<>> /\ ~parsing
      /\ Len(answers) \in Nat /\ Len(ready) = 0 /\ Len(wave) \in Nat
      /\ taken = Len(answers) + Len(wave)
      /\ taken \in Nat /\ taken < Len(job.items) /\ Len(job.items) \in Nat
      /\ DOMAIN parsed = {} /\ \A w \in Workers : doing[w] = 0
  BY NeedsWaveFacts DEF TakeChunks
<1>2. wave = <<>> /\ Len(wave) = 0
  BY <1>1 DEF IInv, AtHand, TakeChunks
<1>3. /\ WaveEnd \in Nat /\ WaveEnd > taken
      /\ WaveEnd <= taken + WaveSize /\ WaveEnd <= Len(job.items)
  BY <1>1, WaveSizeType DEF WaveEnd
<1>4. /\ wave' \in Seq(Nat) /\ Len(wave') = WaveEnd - taken
      /\ \A k \in 1 .. Len(wave') : wave'[k] = taken + k
  <2>1. wave' = [i \in 1 .. WaveEnd - taken |-> taken + i]
    BY DEF TakeChunks
  <2> QED BY <1>1, <1>3, <2>1
<1>5. /\ taken' = WaveEnd /\ parsing' = TRUE
      /\ UNCHANGED <<job, caller, answers, ended, failed, ready, doing, index, parsed>>
  BY DEF TakeChunks, workVars
<1>6. Types'
  <2>1. Types
    BY DEF IInv
  <2>2. taken' \in 0 .. Len(job'.items)
    BY <1>1, <1>3, <1>5
  <2> QED BY <1>4, <1>5, <2>1, <2>2 DEF Types, Result
<1>7. Ordered'
  <2>1. \A k \in 1 .. Len(wave') : wave'[k] = (taken' - Len(wave')) + k
    <3>1. taken' - Len(wave') = taken
      BY <1>1, <1>3, <1>4, <1>5
    <3> QED BY <1>4, <3>1
  <2>2. taken' = Len(answers') + Len(ready') + Len(wave')
    BY <1>1, <1>2, <1>3, <1>4, <1>5
  <2>3. Len(ready') + Len(wave') <= WaveSize'
    <3>1. WaveSize' = WaveSize
      BY DEF WaveSize
    <3> QED BY <1>1, <1>3, <1>4, <1>5, <3>1, WaveSizeType
  <2>4. /\ \A k \in 1 .. Len(answers') : answers'[k] = Abstract!Alone(k)'
        /\ ready' = <<>> /\ Len(ready') = 0
    BY <1>1, <1>5 DEF IInv, Ordered, Abstract!Alone
  <2> HIDE DEF WaveSize
  <2> QED BY <2>1, <2>2, <2>3, <2>4 DEF Ordered
<1>8. AtHand'
  BY <1>1, <1>3, <1>4, <1>5 DEF AtHand
<1>9. Shared'
  <2>1. \A w \in Workers : index[w] = {}
    BY <1>2 DEF IInv, Shared, ToSet
  <2> QED BY <1>1, <1>5, <2>1 DEF Shared
<1>10. Latched'
  BY <1>1, <1>5 DEF IInv, Latched, Exhausted
<1> QED
  BY <1>6, <1>7, <1>8, <1>9, <1>10 DEF IInv

LEMMA ReadBlockKeeps ==
    ASSUME IInv, ReadBlock
    PROVE  IInv'
<1>1. /\ caller = "asking" /\ ~failed /\ ready = <<>> /\ ~parsing
      /\ Len(answers) \in Nat /\ Len(ready) = 0 /\ Len(wave) \in Nat
      /\ taken = Len(answers) + Len(wave)
      /\ taken \in Nat /\ taken < Len(job.items) /\ Len(job.items) \in Nat
      /\ DOMAIN parsed = {} /\ \A w \in Workers : doing[w] = 0
  BY NeedsWaveFacts DEF ReadBlock
<1>2. /\ wave' \in Seq(Nat) /\ Len(wave') = Len(wave) + 1
      /\ \A k \in 1 .. Len(wave) : wave'[k] = wave[k]
      /\ wave'[Len(wave) + 1] = taken + 1
  <2>1. wave \in Seq(Nat) /\ wave' = Append(wave, taken + 1)
    BY DEF IInv, Types, ReadBlock
  <2> QED BY <1>1, <2>1
<1>3. /\ taken' = taken + 1 /\ job.stream /\ Len(wave) < WaveSize
      /\ UNCHANGED <<job, caller, answers, ended, failed, parsing, ready, doing,
                     index, parsed>>
  BY DEF ReadBlock, workVars
<1>4. Types'
  <2>1. Types
    BY DEF IInv
  <2>2. taken' \in 0 .. Len(job'.items)
    BY <1>1, <1>3
  <2> QED BY <1>2, <1>3, <2>1, <2>2 DEF Types, Result
<1>5. Ordered'
  <2>1. \A k \in 1 .. Len(wave') : wave'[k] = (taken' - Len(wave')) + k
    <3> TAKE k \in 1 .. Len(wave')
    <3>1. CASE k <= Len(wave)
      <4>1. wave[k] = (taken - Len(wave)) + k
        BY <1>1, <1>2, <3>1 DEF IInv, Ordered
      <4> QED BY <1>1, <1>2, <1>3, <3>1, <4>1
    <3>2. CASE k = Len(wave) + 1
      BY <1>1, <1>2, <1>3, <3>2
    <3> QED BY <1>1, <1>2, <3>1, <3>2
  <2> QED BY <1>1, <1>2, <1>3, <2>1, WaveSizeType
          DEF IInv, Ordered, WaveSize, Abstract!Alone
<1>6. AtHand'
  BY <1>1, <1>3 DEF AtHand
<1>7. Shared'
  <2>1. ToSet(wave) \subseteq ToSet(wave')
    <3>1. /\ wave \in Seq(Nat) /\ DOMAIN wave = 1 .. Len(wave)
          /\ DOMAIN wave' = 1 .. Len(wave')
      BY <1>2, LenProperties DEF IInv, Types
    <3>2. \A k \in DOMAIN wave : k \in DOMAIN wave' /\ wave'[k] = wave[k]
      BY <1>1, <1>2, <3>1
    <3> QED BY <3>2 DEF ToSet
  <2> QED BY <1>1, <1>3, <2>1 DEF IInv, Shared
<1>8. Latched'
  BY <1>1, <1>3 DEF IInv, Latched, Exhausted
<1> QED
  BY <1>4, <1>5, <1>6, <1>7, <1>8 DEF IInv

LEMMA StartWaveKeeps ==
    ASSUME IInv, StartWave
    PROVE  IInv'
<1>1. /\ ~parsing /\ parsing' = TRUE /\ wave # <<>>
      /\ UNCHANGED <<job, caller, answers, ended, failed, taken, wave, ready,
                     doing, index, parsed>>
  BY DEF StartWave, NeedsWave, workVars
<1>2. Types' /\ Ordered'
  BY <1>1 DEF IInv, Types, Result, Ordered, WaveSize, Abstract!Alone
<1>3. AtHand' /\ Shared'
  BY <1>1 DEF IInv, AtHand, Shared, Abstract!Alone
<1>4. Latched'
  BY <1>1 DEF IInv, Latched, Exhausted
<1> QED
  BY <1>2, <1>3, <1>4 DEF IInv

LEMMA StartChunkKeeps ==
    ASSUME IInv, NEW w \in Workers, StartChunk(w)
    PROVE  IInv'
<1>1. PICK i \in ToSet(wave) \ (DOMAIN parsed \cup {doing[v] : v \in Workers}) :
          /\ doing' = [doing EXCEPT ![w] = i]
          /\ index' = [index EXCEPT ![w] = {i}]
  BY DEF StartChunk, IndexFor
<1>2. /\ parsing /\ doing[w] = 0
      /\ UNCHANGED <<job, caller, answers, ended, failed, taken, wave, parsing,
                     parsed, ready>>
  BY DEF StartChunk
<1>3. i \in Nat
  BY <1>1, LenProperties DEF IInv, Types, ToSet
<1>4. Types'
  BY <1>1, <1>2, <1>3 DEF IInv, Types, Result
<1>5. Ordered' /\ AtHand' /\ Latched'
  BY <1>2 DEF IInv, Ordered, AtHand, Latched, Exhausted, WaveSize, Abstract!Alone
<1>6. Shared'
  <2>1. /\ doing'[w] = i /\ index'[w] = {i}
        /\ \A v \in Workers \ {w} : doing'[v] = doing[v] /\ index'[v] = index[v]
    BY <1>1 DEF IInv, Types
  <2>2. \A v \in Workers : index'[v] \subseteq ToSet(wave)
    BY <1>1, <2>1 DEF IInv, Shared
  <2>3. \A v \in Workers :
            doing'[v] # 0 => /\ doing'[v] \in ToSet(wave) \ DOMAIN parsed
                             /\ index'[v] = {doing'[v]}
    BY <1>1, <2>1 DEF IInv, Shared
  <2>4. \A u, v \in Workers : u # v /\ doing'[u] # 0 => doing'[u] # doing'[v]
    <3>1. \A v \in Workers : doing[v] # i
      BY <1>1
    <3> QED BY <2>1, <3>1 DEF IInv, Shared
  <2>5. /\ DOMAIN parsed \subseteq ToSet(wave)
        /\ \A j \in DOMAIN parsed : parsed[j] = Abstract!Alone(j)
    BY DEF IInv, Shared
  <2> QED BY <1>2, <2>2, <2>3, <2>4, <2>5 DEF Shared, Abstract!Alone
<1> QED
  BY <1>4, <1>5, <1>6 DEF IInv

LEMMA FinishChunkKeeps ==
    ASSUME IInv, NEW w \in Workers, FinishChunk(w)
    PROVE  IInv'
<1> DEFINE i == doing[w]
<1>1. /\ i # 0 /\ i \in ToSet(wave) \ DOMAIN parsed /\ index[w] = {i}
      /\ parsing
  BY DEF FinishChunk, IInv, Shared
<1>2. /\ doing' = [doing EXCEPT ![w] = 0]
      /\ UNCHANGED <<job, caller, answers, ended, failed, taken, wave, parsing,
                     index, ready>>
  BY DEF FinishChunk
<1>3. /\ DOMAIN parsed' = DOMAIN parsed \cup {i}
      /\ parsed'[i] = Abstract!Alone(i)
      /\ \A j \in DOMAIN parsed : j # i => parsed'[j] = parsed[j]
  <2>1. parsed' = [j \in DOMAIN parsed \cup {i} |->
                      IF j = i THEN [chunk |-> i, lines |-> index[w],
                                     kind |-> job.items[i]]
                      ELSE parsed[j]]
    BY DEF FinishChunk
  <2> QED BY <1>1, <2>1 DEF Abstract!Alone
<1>4. Types'
  BY <1>2 DEF IInv, Types, Result
<1>5. Ordered' /\ AtHand' /\ Latched'
  BY <1>2 DEF IInv, Ordered, AtHand, Latched, Exhausted, WaveSize, Abstract!Alone
<1>6. Shared'
  <2>1. doing'[w] = 0 /\ \A v \in Workers \ {w} : doing'[v] = doing[v]
    BY <1>2 DEF IInv, Types
  <2>2. \A v \in Workers :
            doing'[v] # 0 => /\ doing'[v] \in ToSet(wave) \ DOMAIN parsed'
                             /\ index[v] = {doing'[v]}
    <3> TAKE v \in Workers
    <3> HAVE doing'[v] # 0
    <3>1. v # w /\ doing'[v] = doing[v]
      BY <2>1
    <3>2. doing[v] \in ToSet(wave) \ DOMAIN parsed /\ index[v] = {doing[v]}
      BY <3>1 DEF IInv, Shared
    <3>3. doing[v] # i
      BY <3>1 DEF IInv, Shared
    <3> QED BY <1>3, <3>1, <3>2, <3>3
  <2>3. \A u, v \in Workers : u # v /\ doing'[u] # 0 => doing'[u] # doing'[v]
    BY <2>1 DEF IInv, Shared
  <2>4. /\ DOMAIN parsed' \subseteq ToSet(wave)
        /\ \A j \in DOMAIN parsed' : parsed'[j] = Abstract!Alone(j)
    <3> HIDE DEF i
    <3> QED BY <1>1, <1>3 DEF IInv, Shared
  <2>5. \A v \in Workers : index[v] \subseteq ToSet(wave)
    BY DEF IInv, Shared
  <2> HIDE DEF i
  <2> QED BY <1>1, <1>2, <2>2, <2>3, <2>4, <2>5 DEF Shared, Abstract!Alone
<1> QED
  BY <1>4, <1>5, <1>6 DEF IInv

LEMMA FinishWaveKeeps ==
    ASSUME IInv, FinishWave
    PROVE  IInv'
<1>1. /\ parsing /\ DOMAIN parsed = ToSet(wave)
      /\ ready' = Collected /\ wave' = <<>> /\ parsed' = <<>> /\ parsing' = FALSE
      /\ index' = [w \in Workers |-> {}]
      /\ UNCHANGED <<job, caller, answers, ended, failed, taken, doing>>
  BY DEF FinishWave
<1>2. /\ wave # <<>> /\ caller = "asking" /\ ~failed
      /\ ready = <<>> /\ Len(ready) = 0
  BY <1>1 DEF IInv, AtHand, Ordered
<1>3. /\ Len(wave) \in Nat /\ Len(answers) \in Nat /\ taken \in Nat
      /\ taken <= Len(job.items) /\ Len(job.items) \in Nat
      /\ DOMAIN wave = 1 .. Len(wave)
      /\ taken = Len(answers) + Len(wave)
  BY <1>2, LenProperties, ItemsFacts DEF IInv, Types, Ordered
<1>4. \A k \in 1 .. Len(wave) :
          /\ parsed[wave[k]] = Abstract!Alone(Len(answers) + k)
          /\ Abstract!Alone(Len(answers) + k) \in Result
  <2> TAKE k \in 1 .. Len(wave)
  <2>1. wave[k] \in DOMAIN parsed
    BY <1>1, <1>3 DEF ToSet
  <2>2. wave[k] = Len(answers) + k
    BY <1>3 DEF IInv, Ordered
  <2>3. Len(answers) + k \in 1 .. Len(job.items)
    BY <1>3
  <2>4. job \in Jobs
    BY DEF IInv, Types
  <2> QED BY <2>1, <2>2, <2>3, <2>4, AloneType DEF IInv, Shared
<1>5. /\ ready' \in Seq(Result) /\ Len(ready') = Len(wave)
      /\ \A k \in 1 .. Len(ready') : ready'[k] = Abstract!Alone(Len(answers) + k)
  <2>1. ready' = [k \in 1 .. Len(wave) |-> parsed[wave[k]]]
    BY <1>1, <1>3 DEF Collected
  <2> QED BY <1>3, <1>4, <2>1
<1>6. Types'
  <2>1. wave' \in Seq(Nat)
    BY <1>1, EmptySeq
  <2>2. Types
    BY DEF IInv
  <2> QED BY <1>1, <1>5, <2>1, <2>2 DEF Types, Result
<1>7. Ordered'
  <2>1. Len(wave') = 0
    BY <1>1
  <2> QED BY <1>1, <1>2, <1>3, <1>5, <2>1 DEF IInv, Ordered, WaveSize, Abstract!Alone
<1>8. \A w \in Workers : doing[w] = 0
  BY <1>1 DEF IInv, Shared
<1>9. AtHand' /\ Shared'
  BY <1>1, <1>8 DEF AtHand, Shared
<1>10. Latched'
  <2>1. ~ended
    BY <1>2 DEF IInv, Latched, Exhausted
  <2> QED BY <1>1, <2>1 DEF IInv, Latched
<1> QED
  BY <1>6, <1>7, <1>9, <1>10 DEF IInv

------------------------------------------------------------------------------
LEMMA StepHolds ==
    ASSUME IInv, [Next]_vars
    PROVE  IInv'
<1>1. CASE Ask
  BY <1>1, AskKeeps
<1>2. CASE Deliver
  BY <1>2, DeliverKeeps
<1>3. CASE AnswerNone
  BY <1>3, AnswerNoneKeeps
<1>4. CASE TakeChunks
  BY <1>4, TakeChunksKeeps
<1>5. CASE ReadBlock
  BY <1>5, ReadBlockKeeps
<1>6. CASE StartWave
  BY <1>6, StartWaveKeeps
<1>7. CASE FinishWave
  BY <1>7, FinishWaveKeeps
<1>8. CASE \E w \in Workers : StartChunk(w)
  BY <1>8, StartChunkKeeps
<1>9. CASE \E w \in Workers : FinishChunk(w)
  BY <1>9, FinishChunkKeeps
<1>10. CASE UNCHANGED vars
  BY <1>10 DEF vars, IInv, Types, Result, Ordered, AtHand, Shared, Latched,
               Exhausted, WaveSize, Abstract!Alone
<1> QED
  BY <1>1, <1>2, <1>3, <1>4, <1>5, <1>6, <1>7, <1>8, <1>9, <1>10
     DEF Next, Serve, Work

LEMMA Inductive == Spec => []IInv
<1>1. Init => IInv
  BY InitHolds
<1>2. IInv /\ [Next]_vars => IInv'
  BY StepHolds
<1> QED
  BY <1>1, <1>2, PTL DEF Spec

------------------------------------------------------------------------------
LEMMA InvariantTyped ==
    ASSUME IInv
    PROVE  TypeInvariant
<1>1. /\ Len(wave) \in Nat /\ DOMAIN wave = 1 .. Len(wave)
      /\ Len(answers) \in Nat /\ Len(ready) \in Nat
      /\ taken \in Nat /\ taken = Len(answers) + Len(ready) + Len(wave)
      /\ taken <= Len(job.items) /\ Len(job.items) \in Nat
  BY LenProperties, ItemsFacts DEF IInv, Types, Ordered
<1>2. ToSet(wave) \subseteq 1 .. taken
  <2> SUFFICES ASSUME NEW k \in 1 .. Len(wave)
               PROVE  wave[k] \in 1 .. taken
    BY <1>1 DEF ToSet
  <2>1. wave[k] = (taken - Len(wave)) + k
    BY DEF IInv, Ordered
  <2> QED BY <1>1, <2>1
<1>3. /\ doing \in [Workers -> 0 .. taken]
      /\ index \in [Workers -> SUBSET (1 .. taken)]
  BY <1>1, <1>2 DEF IInv, Types, Shared
<1>4. \A i \in DOMAIN parsed : parsed[i] \in Result
  <2> TAKE i \in DOMAIN parsed
  <2>1. i \in 1 .. Len(job.items)
    BY <1>1, <1>2 DEF IInv, Shared
  <2>2. job \in Jobs
    BY DEF IInv, Types
  <2> QED BY <2>1, <2>2, AloneType DEF IInv, Shared
<1>5. ToSet(answers) \cup ToSet(ready) \subseteq Result
  BY LenProperties DEF IInv, Types, ToSet
<1>6. DOMAIN parsed \subseteq ToSet(wave)
  BY DEF IInv, Shared
<1>7. /\ job \in Jobs
      /\ caller \in {"idle", "asking"}
      /\ ended \in BOOLEAN /\ failed \in BOOLEAN /\ parsing \in BOOLEAN
      /\ taken \in 0 .. Len(job.items)
  BY DEF IInv, Types
<1> QED
  BY <1>2, <1>3, <1>4, <1>5, <1>6, <1>7 DEF TypeInvariant

(* Of every behaviour: the variables have their types (read_impl.rs 13-200).*)
THEOREM TypeCorrect == Spec => []TypeInvariant
<1>1. IInv => TypeInvariant
  BY InvariantTyped
<1> QED
  BY <1>1, Inductive, PTL

(* Whatever the workers do, no more than a wave of chunks is taken, parsed   *)
(* or ready beyond what the caller was given (read_impl.rs 85-118).         *)
THEOREM NeverMoreThanAWaveAhead == Spec => []AheadByAWave
<1>1. IInv => AheadByAWave
  <2> SUFFICES ASSUME IInv
               PROVE  AheadByAWave
    OBVIOUS
  <2>1. /\ Len(answers) \in Nat /\ Len(ready) \in Nat /\ Len(wave) \in Nat
        /\ taken = Len(answers) + Len(ready) + Len(wave)
        /\ Len(ready) + Len(wave) <= WaveSize
    BY DEF IInv, Types, Ordered
  <2>2. taken - Len(answers) <= WaveSize
    BY <2>1, WaveSizeType
  <2> QED BY <2>2 DEF AheadByAWave, WaveSize
<1> QED
  BY <1>1, Inductive, PTL

(* Once batches() has given an error it takes up no more of the unit and     *)
(* gives nothing but None (read_impl.rs 59-74).                             *)
THEOREM ErrorIsLast == Spec => NothingAfterAnError
<1>1. IInv /\ [Next]_vars
        => [failed => taken' = taken /\ doing' = doing /\ answers' = answers]_vars
  <2> SUFFICES ASSUME IInv, Next, failed
               PROVE  taken' = taken /\ doing' = doing /\ answers' = answers
    OBVIOUS
  <2>1. ~parsing /\ \A w \in Workers : doing[w] = 0
    BY DEF IInv, AtHand, Shared
  <2>2. CASE Ask \/ AnswerNone
    BY <2>2 DEF Ask, AnswerNone, workVars
  <2>3. ~Deliver /\ ~TakeChunks /\ ~ReadBlock /\ ~StartWave /\ ~FinishWave
    BY <2>1 DEF Deliver, TakeChunks, ReadBlock, StartWave, NeedsWave, FinishWave
  <2>4. \A w \in Workers : ~Work(w)
    BY <2>1 DEF Work, StartChunk, FinishChunk
  <2> QED BY <2>2, <2>3, <2>4 DEF Next, Serve
<1> QED
  BY <1>1, Inductive, PTL DEF Spec, NothingAfterAnError

------------------------------------------------------------------------------
(* A result given is the next of those promised.                            *)
LEMMA DeliverAnswers ==
    ASSUME IInv, Deliver
    PROVE  Abstract!Answer
<1> DEFINE n == Len(answers)
           promised == Abstract!Promised
<1>1. /\ n \in Nat /\ Len(ready) \in Nat /\ Len(ready) > 0 /\ Len(wave) \in Nat
      /\ taken = n + Len(ready) + Len(wave)
      /\ taken <= Len(job.items) /\ Len(job.items) \in Nat
  BY ItemsFacts, EmptySeq DEF IInv, Types, Ordered, Deliver
<1>2. job \in Jobs
  BY DEF IInv, Types
<1>3. /\ promised \in Seq(Result) /\ Len(promised) \in Nat
      /\ Len(promised) <= Len(job.items)
      /\ \A k \in 1 .. Len(promised) : promised[k] = Abstract!Alone(k)
      /\ Len(promised) < Len(job.items)
           => Len(promised) > 0 /\ job.items[Len(promised)] # "batch"
  BY <1>2, PromisedFacts
<1> HIDE DEF promised
<1>4. n < Len(promised)
  <2> SUFFICES ASSUME Len(promised) <= n PROVE FALSE
    BY <1>1, <1>3
  <2>1. Len(promised) \in 1 .. n /\ job.items[Len(promised)] # "batch"
    BY <1>1, <1>3
  <2>2. answers[Len(promised)].kind = "batch"
    BY <1>1, <2>1 DEF IInv, Latched, Deliver
  <2>3. answers[Len(promised)] = Abstract!Alone(Len(promised))
    BY <2>1 DEF IInv, Ordered
  <2> QED BY <2>1, <2>2, <2>3 DEF Abstract!Alone
<1>5. answers' = SubSeq(promised, 1, n + 1)
  <2>1. Head(ready) = Abstract!Alone(n + 1) /\ Head(ready) \in Result
    BY <1>1, HeadTailProperties DEF IInv, Types, Ordered, Deliver
  <2>2. /\ answers' \in Seq(Result) /\ Len(answers') = n + 1
        /\ \A k \in 1 .. n : answers'[k] = answers[k]
        /\ answers'[n + 1] = Abstract!Alone(n + 1)
    BY <1>1, <2>1 DEF IInv, Types, Deliver
  <2>3. \A k \in 1 .. n + 1 : promised[k] \in Result
    BY <1>1, <1>3, <1>4, LenProperties
  <2>4. /\ SubSeq(promised, 1, n + 1) \in Seq(Result)
        /\ Len(SubSeq(promised, 1, n + 1)) = n + 1
        /\ \A k \in 1 .. n + 1 : SubSeq(promised, 1, n + 1)[k] = promised[k]
    <3>1. 1 \in Int /\ n + 1 \in Int
      BY <1>1
    <3> HIDE DEF n
    <3> QED BY <1>1, <2>3, <3>1, SubSeqProperties
  <2>5. \A k \in 1 .. n + 1 : answers'[k] = promised[k]
    <3> TAKE k \in 1 .. n + 1
    <3>1. promised[k] = Abstract!Alone(k)
      BY <1>1, <1>3, <1>4
    <3>2. CASE k = n + 1
      BY <2>2, <3>1, <3>2
    <3>3. CASE k \in 1 .. n
      BY <2>2, <3>1, <3>3 DEF IInv, Ordered
    <3> QED BY <1>1, <3>2, <3>3
  <2> HIDE DEF n
  <2>6. \A k \in 1 .. Len(answers') : answers'[k] = SubSeq(promised, 1, n + 1)[k]
    BY <2>2, <2>4, <2>5
  <2> QED BY <2>2, <2>4, <2>6, SeqEqual
<1>6. ~ended
  BY <1>1 DEF IInv, Latched, Exhausted, Deliver
<1>7. caller = "asking" /\ caller' = "idle" /\ UNCHANGED <<job, ended>>
  BY DEF Deliver
<1> QED
  BY <1>4, <1>5, <1>6, <1>7 DEF Abstract!Answer, promised

(* None is given only after all that was promised.                          *)
LEMMA NoneIsLast ==
    ASSUME IInv, AnswerNone
    PROVE  Abstract!AnswerNone
<1> DEFINE n == Len(answers)
           promised == Abstract!Promised
<1>1. /\ n \in Nat /\ Len(ready) \in Nat /\ Len(wave) \in Nat
      /\ taken = n + Len(ready) + Len(wave)
      /\ taken <= Len(job.items) /\ Len(job.items) \in Nat
  BY ItemsFacts DEF IInv, Types, Ordered
<1>2. job \in Jobs /\ answers \in Seq(Result)
  BY DEF IInv, Types
<1>3. /\ promised \in Seq(Result) /\ Len(promised) \in Nat
      /\ Len(promised) <= Len(job.items)
      /\ \A k \in 1 .. Len(promised) : promised[k] = Abstract!Alone(k)
      /\ \A k \in 1 .. Len(promised) : k < Len(promised) => job.items[k] = "batch"
      /\ Len(promised) < Len(job.items)
           => Len(promised) > 0 /\ job.items[Len(promised)] # "batch"
  BY <1>2, PromisedFacts
<1> HIDE DEF promised
<1>4. \A k \in 1 .. n : /\ answers[k] = Abstract!Alone(k)
                        /\ answers[k].kind = job.items[k]
                        /\ k < n => job.items[k] = "batch"
  <2>1. \A k \in 1 .. n : answers[k] = Abstract!Alone(k)
    BY DEF IInv, Ordered
  <2>2. \A k \in 1 .. n : Abstract!Alone(k).kind = job.items[k]
    BY DEF Abstract!Alone
  <2>3. \A k \in 1 .. n : k < n => answers[k].kind = "batch"
    BY DEF IInv, Latched
  <2> HIDE DEF n
  <2> QED BY <2>1, <2>2, <2>3
<1>5. Len(promised) = n
  <2>1. CASE failed
    <3>1. n > 0 /\ job.items[n] # "batch"
      BY <1>1, <1>4, <2>1 DEF IInv, Latched
    <3>2. ~ (n < Len(promised))
      BY <1>1, <1>3, <3>1
    <3>3. ~ (Len(promised) < n)
      BY <1>1, <1>3, <1>4
    <3> HIDE DEF n
    <3> QED BY <1>1, <1>3, <3>2, <3>3
  <2>2. CASE ~failed /\ Exhausted
    <3>1. n = Len(job.items)
      BY <1>1, <2>2 DEF Exhausted
    <3>2. \A k \in 1 .. n : job.items[k] = "batch"
      BY <1>1, <1>4, <2>2 DEF IInv, Latched
    <3> HIDE DEF n
    <3> QED BY <1>1, <1>3, <3>1, <3>2
  <2> QED BY <2>1, <2>2 DEF AnswerNone
<1>6. answers = promised
  <2>1. \A k \in 1 .. Len(answers) : answers[k] = promised[k]
    BY <1>3, <1>4, <1>5
  <2> QED BY <1>2, <1>3, <1>5, <2>1, SeqEqual
<1> QED
  BY <1>6 DEF AnswerNone, Abstract!AnswerNone, promised

(* However many threads parse, in whatever order they finish, the caller is *)
(* answered as BatchIterator says: the chunks' own results, in order, up to *)
(* the first that fails (read_impl.rs 59-118, 187-200).                     *)
THEOREM ImplementsBatchIterator == Spec => IteratesInOrder
<1>1. Init => Abstract!Init
  BY DEF Init, Abstract!Init
<1>2. IInv /\ [Next]_vars => [Abstract!Next]_(Abstract!iteratorVars)
  <2> SUFFICES ASSUME IInv, [Next]_vars
               PROVE  [Abstract!Next]_(Abstract!iteratorVars)
    OBVIOUS
  <2>1. CASE Ask
    BY <2>1 DEF Ask, Abstract!Ask, Abstract!Next
  <2>2. CASE Deliver
    BY <2>2, DeliverAnswers DEF Abstract!Next
  <2>3. CASE AnswerNone
    BY <2>3, NoneIsLast DEF Abstract!Next
  <2>4. CASE TakeChunks \/ ReadBlock \/ StartWave \/ FinishWave
    BY <2>4 DEF TakeChunks, ReadBlock, StartWave, FinishWave, Abstract!iteratorVars
  <2>5. CASE \E w \in Workers : Work(w)
    BY <2>5 DEF Work, StartChunk, FinishChunk, Abstract!iteratorVars
  <2>6. CASE UNCHANGED vars
    BY <2>6 DEF vars, Abstract!iteratorVars
  <2> QED BY <2>1, <2>2, <2>3, <2>4, <2>5, <2>6 DEF Next, Serve
<1> QED
  BY <1>1, <1>2, Inductive, PTL DEF Spec, Abstract!Spec, IteratesInOrder

------------------------------------------------------------------------------
(* The write that is under way, and how many texts of it the writer was     *)
(* given: those at the destination and those buffered.                      *)
Count   == Len(WriteOf(job).batches)
Good(i) == WriteOf(job).batches[i] = "good"
CutShort == WriteOf(job).ending = "parseError"
Carried == Len(sink) + Len(buffered)
Size    == Threads * BatchesPerThread

(* A sequence counts up from a number.                                      *)
Counts(s, from) == s \in Seq(Nat) /\ \A k \in 1 .. Len(s) : s[k] = from + k - 1

WriterTypes ==
    /\ job \in Jobs
    /\ pc \in {"header", "first", "join", "last", "flush", "drop", "return", "done"}
    /\ given \in 0 .. Count
    /\ sourceOver \in BOOLEAN /\ reading \in BOOLEAN
    /\ status \in {"ok", "parse"} /\ readStatus \in {"ok", "parse"}
    /\ stage \in {"off", "format", "write", "over"}
    /\ formatted \subseteq ToSet(inHand)
    /\ put \in 0 .. Len(inHand)
    /\ written \in {"ok", "io", "format"}
    /\ error \in {"no"} \cup RefusalKinds /\ refused \in {"no"} \cup RefusalKinds
    /\ result \in {"open", "ok", "parse", "other"} \cup RefusalKinds

(* The texts and the batches in hand, those read ahead after them: each     *)
(* follows on the one before, and all but the last read were counted.       *)
InOrder ==
    /\ Counts(sink, 0) /\ Counts(buffered, Len(sink)) /\ Len(buffered) <= Capacity
    /\ Counts(inHand, Carried - put) /\ Len(inHand) <= Size
    /\ readWave \in Seq(Nat) /\ Len(readWave) <= Size
    /\ \A k \in 1 .. Len(inHand) : inHand[k] \in 1 .. given
    /\ \A k \in 1 .. Len(readWave) : readWave[k] \in 1 .. given
    /\ Carried - put + Len(inHand) <= given + 1
    /\ pc # "header" => given <= Carried - 1 + 2 * Size
    /\ pc \in {"first", "join"} =>
           /\ Counts(readWave, Carried - put + Len(inHand))
           /\ given + 1 = Carried - put + Len(inHand) + Len(readWave)
    /\ pc \in {"last", "flush"} => given + 1 = Carried - put + Len(inHand)

(* The source was not heard to fail before its error is in readStatus, and  *)
(* the loop ends with all of it read.                                       *)
ReadSoFar ==
    /\ reading => pc \in {"first", "join"}
    /\ pc \in {"first", "join"} =>
           /\ reading => readStatus = "ok" /\ (CutShort => ~sourceOver)
           /\ ~reading =>
                  \/ Len(readWave) = Size /\ readStatus = "ok" /\ (CutShort => ~sourceOver)
                  \/ given = Count /\ (readStatus = "parse" <=> CutShort)
    /\ pc \in {"last", "flush"} =>
           /\ given = Count /\ (status = "parse" <=> CutShort)
           /\ status = "ok" => inHand = <<>>

(* Nothing is written that could not be formatted, nor anything of a wave   *)
(* before all of it was.                                                    *)
Staged ==
    /\ pc = "header" => /\ given = 0 /\ ~sourceOver /\ readWave = <<>>
                        /\ sink = <<>> /\ buffered = <<>>
    /\ pc \in {"header", "first"} => stage = "off"
    /\ pc \in {"header", "first", "join"} => status = "ok"
    /\ pc \in {"join", "last"} => stage # "off"
    /\ pc = "flush" => stage = "over" /\ written = "ok" /\ status = "ok"
    /\ stage = "off" => inHand = <<>> /\ written = "ok" /\ status = "ok"
    /\ stage = "format" => put = 0 /\ written = "ok"
    /\ stage = "write" => written = "ok"
    /\ stage \in {"format", "write"} => pc \in {"join", "last"}
    /\ stage \in {"write", "over"} /\ written = "ok" =>
           \A k \in 1 .. Len(inHand) : Good(inHand[k])
    /\ stage = "over" /\ written = "ok" => put = Len(inHand)
    /\ written = "format" => \E i \in 1 .. Count : WriteOf(job).batches[i] = "odd"
    /\ \A i \in 1 .. Carried - 1 : Good(i)

(* What the errors tell: a refusal is kept until the writer is dropped, and *)
(* what is not told of was not lost.                                        *)
Told ==
    /\ written = "io" => error # "no"
    /\ error # "no" => refused = error
    /\ pc \notin {"drop", "return", "done"} /\ written # "io" => error = "no"
    /\ pc \notin {"return", "done"} => error = refused
    /\ pc \in {"drop", "return", "done"} /\ written = "ok"
          /\ (status = "parse" \/ error = "no") =>
              Carried = Count + 1 /\ (status = "parse" <=> CutShort)
    /\ pc \in {"drop", "return", "done"} /\ written = "ok"
          /\ error = "no" /\ status = "ok" =>
              buffered = <<>> /\ refused = "no"
    /\ pc \in {"return", "done"} => refused # "no" \/ buffered = <<>>
    /\ pc # "done" => result = "open"

WInv == WriterTypes /\ InOrder /\ ReadSoFar /\ Staged /\ Told

------------------------------------------------------------------------------
LEMMA SizeType == Size \in Nat /\ Size > 0 /\ Capacity \in Nat /\ Capacity > 0
<1>1. \A m, n \in Nat : m # 0 /\ n # 0 => m * n \in Nat /\ m * n > 0
  OBVIOUS
<1> QED
  BY <1>1, PipelineAssumption DEF Size

LEMMA SmallestOf ==
    ASSUME NEW S \in SUBSET Nat, S # {}
    PROVE  \E m \in S : \A n \in S : m <= n
<1> DEFINE less == OpToRel(<, Nat)
<1>1. \A m, n \in Nat : m < n => <<m, n>> \in less
  BY DEF OpToRel
<1>2. \E m \in S : \A n \in S : ~ (<<n, m>> \in less)
  <2> HIDE DEF less
  <2>1. IsWellFoundedOn(less, Nat)
    BY NatLessThanWellFounded DEF less
  <2> QED BY <2>1, WFMin, Zenon
<1> HIDE DEF less
<1>3. PICK m \in S : \A n \in S : ~ (n < m)
  BY <1>1, <1>2
<1> QED
  BY <1>3

(* The write a read makes has batches, good or odd, and an ending.          *)
LEMMA WriteFacts ==
    ASSUME job \in Jobs
    PROVE  /\ WriteOf(job).batches \in Seq({"good", "odd"}) /\ Count \in Nat
           /\ DOMAIN WriteOf(job).batches = 1 .. Count
           /\ WriteOf(job).ending \in {"end", "parseError"}
           /\ WriteOf(job) \in Writes
<1> DEFINE failures == {i \in DOMAIN job.items : job.items[i] # "batch"}
           n == IF failures = {} THEN Len(job.items) ELSE Min(failures) - 1
           batches == [i \in 1 .. n |-> IF i \in job.odd THEN "odd" ELSE "good"]
<1>1. DOMAIN job.items = 1 .. Len(job.items) /\ Len(job.items) \in Nat
  BY ItemsFacts
<1>2. n \in Nat
  <2>1. CASE failures = {}
    BY <1>1, <2>1
  <2>2. CASE failures # {}
    <3>1. failures \in SUBSET Nat /\ \A i \in failures : i >= 1
      BY <1>1
    <3>2. \E i \in failures : \A j \in failures : i <= j
      <4> HIDE DEF failures
      <4> QED BY <2>2, <3>1, SmallestOf
    <3>3. Min(failures) \in failures
      <4> HIDE DEF failures
      <4> QED BY <3>2 DEF Min
    <3>4. n = Min(failures) - 1
      BY <2>2
    <3> HIDE DEF failures, n
    <3>5. \A m \in failures : m - 1 \in Nat
      BY <3>1
    <3> QED BY <3>3, <3>4, <3>5
  <2> QED BY <2>1, <2>2
<1>3. WriteOf(job) = [batches |-> batches,
                      ending |-> IF failures = {} THEN "end" ELSE "parseError",
                      large |-> job.large]
  BY DEF WriteOf
<1> HIDE DEF n
<1>4. batches \in Seq({"good", "odd"}) /\ Len(batches) = n /\ DOMAIN batches = 1 .. n
  BY <1>2
<1> HIDE DEF batches, failures
<1>5. WriteOf(job).batches = batches /\ WriteOf(job).ending \in {"end", "parseError"}
  BY <1>3
<1>6. WriteOf(job) \in Writes
  BY DEF Writes
<1> QED
  BY <1>2, <1>4, <1>5, <1>6 DEF Count

------------------------------------------------------------------------------
LEMMA CountsEmpty == \A from : Counts(<<>>, from) /\ Len(<<>>) = 0
BY DEF Counts

LEMMA CountsAppend ==
    ASSUME NEW s, NEW from \in Int, Counts(s, from), NEW m \in Nat, m = from + Len(s)
    PROVE  Counts(Append(s, m), from) /\ Len(Append(s, m)) = Len(s) + 1
<1>1. s \in Seq(Nat) /\ Len(s) \in Nat
  BY DEF Counts
<1>2. /\ Append(s, m) \in Seq(Nat) /\ Len(Append(s, m)) = Len(s) + 1
      /\ \A k \in 1 .. Len(s) : Append(s, m)[k] = s[k]
      /\ Append(s, m)[Len(s) + 1] = m
  BY <1>1
<1>3. \A k \in 1 .. Len(s) + 1 : Append(s, m)[k] = from + k - 1
  <2> TAKE k \in 1 .. Len(s) + 1
  <2>1. CASE k \in 1 .. Len(s)
    BY <1>2, <2>1 DEF Counts
  <2>2. CASE k = Len(s) + 1
    BY <1>1, <1>2, <2>2
  <2> QED BY <1>1, <2>1, <2>2
<1> QED
  BY <1>2, <1>3 DEF Counts

LEMMA CountsConcat ==
    ASSUME NEW s, NEW t, NEW from \in Int,
           Counts(s, from), Counts(t, from + Len(s))
    PROVE  Counts(s \o t, from) /\ Len(s \o t) = Len(s) + Len(t)
<1>1. s \in Seq(Nat) /\ t \in Seq(Nat) /\ Len(s) \in Nat /\ Len(t) \in Nat
  BY DEF Counts
<1>2. /\ s \o t \in Seq(Nat) /\ Len(s \o t) = Len(s) + Len(t)
      /\ \A k \in 1 .. Len(s) + Len(t) :
             (s \o t)[k] = IF k <= Len(s) THEN s[k] ELSE t[k - Len(s)]
  BY <1>1, ConcatProperties
<1>3. \A k \in 1 .. Len(s) + Len(t) : (s \o t)[k] = from + k - 1
  <2> TAKE k \in 1 .. Len(s) + Len(t)
  <2>1. CASE k <= Len(s)
    BY <1>1, <1>2, <2>1 DEF Counts
  <2>2. CASE k > Len(s)
    <3>1. k - Len(s) \in 1 .. Len(t)
      BY <1>1, <2>2
    <3>2. t[k - Len(s)] = (from + Len(s)) + (k - Len(s)) - 1
      BY <3>1 DEF Counts
    <3>3. (s \o t)[k] = t[k - Len(s)]
      BY <1>1, <1>2, <2>2
    <3> QED BY <1>1, <3>2, <3>3
  <2> QED BY <1>1, <2>1, <2>2
<1> QED
  BY <1>2, <1>3 DEF Counts

LEMMA CountsSubSeq ==
    ASSUME NEW s, NEW from \in Int, Counts(s, from),
           NEW m \in 1 .. Len(s) + 1, NEW n \in m - 1 .. Len(s)
    PROVE  /\ Counts(SubSeq(s, m, n), from + m - 1)
           /\ Len(SubSeq(s, m, n)) = n - m + 1
<1>1. s \in Seq(Nat) /\ Len(s) \in Nat /\ m \in Nat /\ n \in Nat /\ m <= n + 1
  BY DEF Counts
<1>2. \A k \in m .. n : s[k] \in Nat
  BY <1>1
<1>3. /\ SubSeq(s, m, n) \in Seq(Nat)
      /\ Len(SubSeq(s, m, n)) = IF m <= n THEN n - m + 1 ELSE 0
      /\ \A k \in 1 .. n - m + 1 : SubSeq(s, m, n)[k] = s[m + k - 1]
  BY <1>1, <1>2, SubSeqProperties
<1>4. Len(SubSeq(s, m, n)) = n - m + 1
  BY <1>1, <1>3
<1>5. \A k \in 1 .. n - m + 1 : SubSeq(s, m, n)[k] = (from + m - 1) + k - 1
  <2> TAKE k \in 1 .. n - m + 1
  <2>1. m + k - 1 \in 1 .. Len(s)
    BY <1>1
  <2>2. s[m + k - 1] = from + (m + k - 1) - 1
    BY <2>1 DEF Counts
  <2> QED BY <1>1, <1>3, <2>2
<1> QED
  BY <1>3, <1>4, <1>5 DEF Counts

(* What the destination takes of the buffer stays in order, and no text is  *)
(* lost.                                                                    *)
LEMMA DriveOutKeeps ==
    ASSUME Counts(sink, 0), Counts(buffered, Len(sink)),
           NEW n \in 0 .. Len(buffered), Writer!DriveOut(n)
    PROVE  /\ Counts(sink', 0) /\ Counts(buffered', Len(sink'))
           /\ Len(sink') = Len(sink) + n /\ Len(buffered') = Len(buffered) - n
           /\ Carried' = Carried
<1>1. /\ sink' = sink \o SubSeq(buffered, 1, n)
      /\ buffered' = SubSeq(buffered, n + 1, Len(buffered))
  BY DEF Writer!DriveOut
<1>2. Len(sink) \in Nat /\ Len(buffered) \in Nat /\ n \in Nat
  BY DEF Counts
<1>3. /\ Counts(SubSeq(buffered, 1, n), Len(sink) + 1 - 1)
      /\ Len(SubSeq(buffered, 1, n)) = n - 1 + 1
  BY <1>2, CountsSubSeq
<1>4. /\ Counts(SubSeq(buffered, n + 1, Len(buffered)), Len(sink) + (n + 1) - 1)
      /\ Len(SubSeq(buffered, n + 1, Len(buffered))) = Len(buffered) - (n + 1) + 1
  <2>1. n + 1 \in 1 .. Len(buffered) + 1 /\ Len(buffered) \in (n + 1) - 1 .. Len(buffered)
    BY <1>2
  <2> QED BY <1>2, <2>1, CountsSubSeq
<1>5. 0 + Len(sink) = Len(sink) + 1 - 1 /\ Len(sink) = 0 + Len(sink)
  BY <1>2
<1>6. /\ Counts(sink \o SubSeq(buffered, 1, n), 0)
      /\ Len(sink \o SubSeq(buffered, 1, n)) = Len(sink) + Len(SubSeq(buffered, 1, n))
  BY <1>3, <1>5, CountsConcat
<1>7. /\ Len(sink') = Len(sink) + n /\ Len(buffered') = Len(buffered) - n
      /\ Len(sink') = Len(sink) + (n + 1) - 1
  BY <1>1, <1>2, <1>3, <1>4, <1>6
<1>8. Carried' = Carried
  BY <1>2, <1>7 DEF Carried
<1>9. Counts(buffered', Len(sink'))
  BY <1>1, <1>4, <1>7, Zenon
<1> QED
  BY <1>1, <1>6, <1>7, <1>8, <1>9

(* A text that is accepted is the next.                                     *)
LEMMA AcceptKeeps ==
    ASSUME Counts(sink, 0), Counts(buffered, Len(sink)), Len(buffered) <= Capacity,
           Writer!Accept(Carried)
    PROVE  /\ Counts(sink', 0) /\ Counts(buffered', Len(sink'))
           /\ Len(buffered') <= Capacity /\ Len(sink') >= Len(sink)
           /\ Carried' = Carried + 1
           /\ error' = "no" /\ refused' = refused
<1>1. Len(sink) \in Nat /\ Len(buffered) \in Nat /\ Carried \in Nat
  BY DEF Counts, Carried
<1>2. error' = "no" /\ refused' = refused
  BY DEF Writer!Accept, Writer!Track
<1>3. CASE Writer!Large(Carried)
  <2>1. sink' = sink \o Append(buffered, Carried) /\ buffered' = <<>>
    BY <1>3 DEF Writer!Accept
  <2>2. /\ Counts(Append(buffered, Carried), Len(sink))
        /\ Len(Append(buffered, Carried)) = Len(buffered) + 1
    <3>1. Carried = Len(sink) + Len(buffered)
      BY DEF Carried
    <3> QED BY <1>1, <3>1, CountsAppend
  <2>3. /\ Counts(sink \o Append(buffered, Carried), 0)
        /\ Len(sink \o Append(buffered, Carried)) = Len(sink) + Len(Append(buffered, Carried))
    <3>1. Len(sink) = 0 + Len(sink)
      BY <1>1
    <3> QED BY <2>2, <3>1, CountsConcat
  <2>4. Counts(buffered', Len(sink')) /\ Len(buffered') = 0
    BY <2>1, CountsEmpty
  <2>5. Len(sink') = Len(sink) + Len(buffered) + 1
    BY <1>1, <2>1, <2>2, <2>3
  <2> QED BY <1>1, <1>2, <2>1, <2>3, <2>4, <2>5, SizeType DEF Carried
<1>4. CASE ~Writer!Large(Carried) /\ Len(buffered) < Capacity
  <2>1. buffered' = Append(buffered, Carried) /\ sink' = sink
    BY <1>4 DEF Writer!Accept
  <2>2. /\ Counts(Append(buffered, Carried), Len(sink))
        /\ Len(Append(buffered, Carried)) = Len(buffered) + 1
    <3>1. Carried = Len(sink) + Len(buffered)
      BY DEF Carried
    <3> QED BY <1>1, <3>1, CountsAppend
  <2> QED BY <1>1, <1>2, <1>4, <2>1, <2>2, SizeType DEF Carried
<1>5. CASE ~Writer!Large(Carried) /\ ~(Len(buffered) < Capacity)
  <2>1. sink' = sink \o buffered /\ buffered' = <<Carried>>
    BY <1>5 DEF Writer!Accept
  <2>2. Counts(sink \o buffered, 0) /\ Len(sink \o buffered) = Len(sink) + Len(buffered)
    <3>1. Len(sink) = 0 + Len(sink)
      BY <1>1
    <3> QED BY <3>1, CountsConcat
  <2>3. Counts(<<Carried>>, Carried) /\ Len(<<Carried>>) = 1
    BY <1>1 DEF Counts
  <2>4. Len(sink') = Carried
    BY <2>1, <2>2 DEF Carried
  <2> QED BY <1>1, <1>2, <2>1, <2>2, <2>3, <2>4, SizeType DEF Carried
<1> QED
  BY <1>3, <1>4, <1>5

------------------------------------------------------------------------------
LEMMA WriterInit ==
    ASSUME job \in Jobs, Writer!Init
    PROVE  WInv
<1> USE DEF Writer!Init
<1>1. WriterTypes
  <2>1. given \in 0 .. Count /\ Len(inHand) = 0 /\ put \in 0 .. Len(inHand)
    BY WriteFacts
  <2> QED BY <2>1 DEF WriterTypes
<1>2. Carried = 0 /\ Size \in Nat
  BY SizeType DEF Carried
<1>3. InOrder
  BY <1>2, CountsEmpty, SizeType DEF InOrder
<1>4. ReadSoFar /\ Staged /\ Told
  BY <1>2 DEF ReadSoFar, Staged, Told
<1> QED
  BY <1>1, <1>3, <1>4 DEF WInv

LEMMA EndReadKeeps ==
    ASSUME WInv, Writer!EndRead, UNCHANGED job
    PROVE  WInv'
<1> USE DEF WInv, Writer!EndRead, Writer!waveVars, Writer!stageVars, Writer!outVars
<1>1. WriterTypes'
  <2>1. readStatus' \in {"ok", "parse"} /\ sourceOver' \in BOOLEAN /\ reading' \in BOOLEAN
    BY DEF WriterTypes
  <2> QED BY <2>1 DEF WriterTypes, Count, ToSet
<1>2. InOrder'
  BY DEF InOrder, Carried, Counts
<1>3. ReadSoFar'
  <2>1. Size = Writer!WaveSize
    BY DEF Size, Writer!WaveSize
  <2>2. Len(readWave) \in Nat /\ Len(readWave) <= Size /\ Size \in Nat
    BY SizeType DEF InOrder
  <2> QED BY <2>1, <2>2 DEF WriterTypes, ReadSoFar, Count, CutShort, Writer!WaveOpen, Writer!SourceFails
<1>4. Staged' /\ Told'
  BY DEF Staged, Told, Carried, Good, CutShort, Count, ReadSoFar
<1> QED
  BY <1>1, <1>2, <1>3, <1>4

LEMMA FormatKeeps ==
    ASSUME WInv, Writer!Format, UNCHANGED job
    PROVE  WInv'
<1> USE DEF WInv, Writer!Format, Writer!readVars, Writer!waveVars, Writer!outVars
<1>1. WriterTypes'
  BY DEF WriterTypes, Count, ToSet, Writer!ToSet
<1>2. InOrder'
  BY DEF InOrder, Carried, Counts
<1>3. ReadSoFar'
  BY DEF ReadSoFar, Count, CutShort
<1>4. Staged' /\ Told'
  BY DEF Staged, Told, Carried, Good, CutShort, Count
<1> QED
  BY <1>1, <1>2, <1>3, <1>4

LEMMA CollectKeeps ==
    ASSUME WInv, Writer!Collect, UNCHANGED job
    PROVE  WInv'
<1> USE DEF WInv, Writer!Collect, Writer!readVars, Writer!waveVars, Writer!outVars
<1>1. WriterTypes'
  BY DEF WriterTypes, Count, ToSet
<1>2. InOrder'
  BY DEF InOrder, Carried, Counts
<1>3. ReadSoFar'
  BY DEF ReadSoFar, Count, CutShort
<1>4. DOMAIN inHand = 1 .. Len(inHand) /\ ToSet(inHand) \subseteq 1 .. Count
  <2>1. inHand \in Seq(Nat) /\ \A k \in 1 .. Len(inHand) : inHand[k] \in 1 .. Count
    BY WriteFacts DEF InOrder, Counts, WriterTypes
  <2> QED BY <2>1 DEF ToSet
<1>5. Staged'
  BY <1>4 DEF Staged, Carried, Good, CutShort, Count, ToSet, Writer!ToSet, WriterTypes
<1>6. Told'
  BY DEF Staged, Told, Carried, Good, CutShort, Count
<1> QED
  BY <1>1, <1>2, <1>3, <1>5, <1>6

LEMMA EndWriteKeeps ==
    ASSUME WInv, Writer!EndWrite, UNCHANGED job
    PROVE  WInv'
<1> USE DEF WInv, Writer!EndWrite, Writer!readVars, Writer!waveVars, Writer!outVars
<1>1. WriterTypes'
  BY DEF WriterTypes, Count, ToSet
<1>2. InOrder'
  BY DEF InOrder, Carried, Counts
<1>3. ReadSoFar'
  BY DEF ReadSoFar, Count, CutShort
<1>4. Staged' /\ Told'
  BY DEF Staged, Told, Carried, Good, CutShort, Count
<1> QED
  BY <1>1, <1>2, <1>3, <1>4

LEMMA FailKeeps ==
    ASSUME WInv, Writer!Fail, pc = "join", ~reading, stage = "over", written # "ok",
           UNCHANGED job
    PROVE  WInv'
<1> USE DEF WInv, Writer!Fail, Writer!readVars, Writer!waveVars, Writer!stageVars,
            Writer!outVars
<1>1. WriterTypes'
  BY DEF WriterTypes, Count, ToSet
<1>2. InOrder'
  BY DEF InOrder, Carried, Counts
<1>3. ReadSoFar'
  BY DEF ReadSoFar, Count, CutShort
<1>4. Staged' /\ Told'
  BY DEF Staged, Told, Carried, Good, CutShort, Count
<1> QED
  BY <1>1, <1>2, <1>3, <1>4

LEMMA LastWrittenKeeps ==
    ASSUME WInv, Writer!LastWritten, UNCHANGED job
    PROVE  WInv'
<1> USE DEF WInv, Writer!LastWritten, Writer!readVars, Writer!waveVars,
            Writer!stageVars, Writer!outVars
<1>1. WriterTypes'
  BY DEF WriterTypes, Count, ToSet
<1>2. InOrder'
  BY DEF InOrder, Carried, Counts
<1>3. ReadSoFar'
  BY DEF ReadSoFar, Count, CutShort
<1>4. Staged'
  BY DEF Staged, Carried, Good, Count
<1>5. ASSUME written = "ok"
      PROVE  Carried = Count + 1 /\ (status = "parse" <=> CutShort)
  <2>1. given + 1 = Carried - put + Len(inHand)
    BY DEF InOrder
  <2>2. put = Len(inHand)
    BY <1>5 DEF Staged
  <2>3. given = Count /\ (status = "parse" <=> CutShort)
    BY DEF ReadSoFar
  <2>4. Carried \in Nat /\ Len(inHand) \in Nat /\ Count \in Nat
    BY WriteFacts, LenProperties DEF InOrder, Counts, Carried, WriterTypes
  <2> QED
    BY <2>1, <2>2, <2>3, <2>4
<1>6. Told'
  <2> HIDE DEF WInv, Writer!LastWritten
  <2>1. /\ pc = "last" /\ pc' \in {"flush", "drop"}
        /\ pc' = "drop" /\ written = "ok" => status # "ok"
        /\ UNCHANGED <<job, written, error, refused, status, buffered, sink, result>>
    BY DEF Writer!LastWritten
  <2>2. Told /\ UNCHANGED <<Carried, Count, CutShort>>
    BY <2>1 DEF WInv, Carried, Count, CutShort
  <2> HIDE DEF Writer!readVars, Writer!waveVars, Writer!stageVars, Writer!outVars
  <2> QED
    BY <1>5, <2>1, <2>2 DEF Told
<1> QED
  BY <1>1, <1>2, <1>3, <1>4, <1>6

LEMMA ReturnKeeps ==
    ASSUME WInv, Writer!Return, UNCHANGED job
    PROVE  WInv'
<1> USE DEF WInv, Writer!Return, Writer!readVars, Writer!waveVars,
            Writer!stageVars, Writer!outVars
<1>1. WriterTypes'
  BY DEF WriterTypes, Count, ToSet, Writer!Outcome
<1>2. InOrder'
  BY DEF InOrder, Carried, Counts
<1>3. ReadSoFar'
  BY DEF ReadSoFar, Count, CutShort
<1>4. Staged' /\ Told'
  BY DEF Staged, Told, Carried, Good, CutShort, Count
<1> QED
  BY <1>1, <1>2, <1>3, <1>4

LEMMA ReadBatchKeeps ==
    ASSUME WInv, Writer!ReadBatch, UNCHANGED job
    PROVE  WInv'
<1> USE DEF WInv
<1>1. /\ reading /\ given < Count /\ given' = given + 1
      /\ readWave' = Append(readWave, given + 1) /\ Len(readWave) < Size
      /\ UNCHANGED <<pc, sourceOver, reading, readStatus, result, inHand, status,
                     stage, formatted, put, written, buffered, sink, error, refused>>
  BY DEF Writer!ReadBatch, Writer!waveVars, Writer!stageVars, Writer!outVars, Count,
         Writer!WaveOpen, Writer!WaveSize, Size
<1>2. pc \in {"first", "join"}
  BY <1>1 DEF ReadSoFar
<1>3. /\ Len(readWave) \in Nat /\ Len(inHand) \in Nat /\ put \in Nat
      /\ Len(sink) \in Nat /\ Len(buffered) \in Nat /\ Carried \in Nat
      /\ given \in Nat /\ Count \in Nat /\ put <= Len(inHand)
  BY WriteFacts DEF WriterTypes, InOrder, Counts, Carried
<1>4. WriterTypes'
  BY <1>1, <1>3 DEF WriterTypes, Count, ToSet
<1>5. InOrder'
  <2>1. /\ given + 1 = Carried - put + Len(inHand) + Len(readWave)
        /\ Counts(readWave, Carried - put + Len(inHand))
    BY <1>2 DEF InOrder
  <2>2. /\ Counts(readWave', Carried - put + Len(inHand))
        /\ Len(readWave') = Len(readWave) + 1
    <3>1. Carried - put + Len(inHand) \in Int /\ given + 1 \in Nat
      BY <1>3
    <3> QED BY <1>1, <2>1, <3>1, CountsAppend
  <2>3. /\ readWave' \in Seq(Nat)
        /\ \A k \in 1 .. Len(readWave') : readWave'[k] \in 1 .. given'
    BY <1>1, <1>3 DEF InOrder
  <2>4. Carried' = Carried /\ Size' = Size
    BY <1>1 DEF Carried, Size
  <2>5. /\ given' <= Carried - 1 + 2 * Size /\ Len(readWave') <= Size
        /\ given' + 1 = Carried - put + Len(inHand) + Len(readWave')
        /\ Carried - put + Len(inHand) <= given' + 1
    <3>1. Len(inHand) <= Size
      BY DEF InOrder
    <3>2. Size \in Nat
      BY SizeType
    <3> QED BY <1>1, <1>3, <2>1, <2>2, <3>1, <3>2
  <2>6. \A k \in 1 .. Len(inHand) : inHand[k] \in 1 .. given'
    BY <1>1, <1>3 DEF InOrder
  <2> QED BY <1>1, <1>2, <2>2, <2>3, <2>4, <2>5, <2>6 DEF InOrder, Counts
<1>6. ReadSoFar' /\ Staged' /\ Told'
  BY <1>1, <1>2 DEF ReadSoFar, Staged, Told, Carried, Good, CutShort, Count
<1> QED
  BY <1>4, <1>5, <1>6

(* A refusal loses no text and is kept.                                     *)
LEMMA RefuseKeeps ==
    ASSUME Counts(sink, 0), Counts(buffered, Len(sink)), Len(buffered) <= Capacity,
           refused = "no", NEW text, Writer!Refuse(text)
    PROVE  /\ Counts(sink', 0) /\ Counts(buffered', Len(sink'))
           /\ Len(buffered') <= Capacity /\ Carried' = Carried
           /\ error' \in RefusalKinds /\ refused' = error' /\ error' # "no"
<1>1. PICK kind \in RefusalKinds, n \in 0 .. Len(buffered) :
          Writer!DriveOut(n) /\ error' = kind /\ refused' = kind
  BY DEF Writer!Refuse, Writer!Track, Writer!Refusal
<1>2. /\ Counts(sink', 0) /\ Counts(buffered', Len(sink'))
      /\ Len(buffered') = Len(buffered) - n /\ Carried' = Carried
  BY <1>1, DriveOutKeeps
<1>3. Len(buffered) \in Nat /\ Len(buffered') <= Capacity
  BY <1>2, SizeType DEF Counts
<1> QED
  BY <1>1, <1>2, <1>3, PipelineAssumption

LEMMA WriteHeaderKeeps ==
    ASSUME WInv, Writer!WriteHeader, UNCHANGED job
    PROVE  WInv'
<1> USE DEF WInv
<1>1. /\ pc = "header" /\ given = 0 /\ ~sourceOver /\ readWave = <<>> /\ ~reading
      /\ sink = <<>> /\ buffered = <<>> /\ Carried = 0 /\ status = "ok"
      /\ inHand = <<>> /\ put = 0 /\ written = "ok" /\ stage = "off"
      /\ error = "no" /\ refused = "no" /\ Len(inHand) = 0
      /\ UNCHANGED <<inHand, status, stage, formatted, put, written, result>>
  BY DEF Writer!WriteHeader, Staged, Told, ReadSoFar, Carried, Writer!waveVars,
         Writer!stageVars, WriterTypes
<1>2. Counts(sink, 0) /\ Counts(buffered, Len(sink)) /\ Len(buffered) <= Capacity
  BY DEF InOrder
<1>3. CASE /\ Writer!Accept(0) /\ pc' = "first" /\ Writer!StartReading
  <2>1. /\ Counts(sink', 0) /\ Counts(buffered', Len(sink'))
        /\ Len(buffered') <= Capacity /\ Carried' = 1
        /\ error' = "no" /\ refused' = "no"
    BY <1>1, <1>2, <1>3, AcceptKeeps
  <2>2. /\ pc' = "first" /\ reading' = TRUE /\ readWave' = <<>>
        /\ readStatus' = "ok" /\ UNCHANGED <<given, sourceOver>>
    BY <1>3 DEF Writer!StartReading
  <2>3. WriterTypes'
    BY <1>1, <2>1, <2>2 DEF WriterTypes, Count, ToSet
  <2>4. InOrder'
    BY <1>1, <2>1, <2>2, CountsEmpty, SizeType DEF InOrder, Size
  <2>5. ReadSoFar' /\ Staged' /\ Told'
    BY <1>1, <2>1, <2>2 DEF ReadSoFar, Staged, Told, Good, CutShort, Count
  <2> QED BY <2>3, <2>4, <2>5
<1>4. CASE /\ Writer!Refuse(0) /\ pc' = "drop" /\ UNCHANGED Writer!readVars
  <2>1. /\ Counts(sink', 0) /\ Counts(buffered', Len(sink'))
        /\ Len(buffered') <= Capacity /\ Carried' = 0
        /\ error' \in RefusalKinds /\ refused' = error' /\ error' # "no"
    BY <1>1, <1>2, <1>4, RefuseKeeps
  <2>2. pc' = "drop" /\ UNCHANGED <<given, sourceOver, reading, readWave, readStatus>>
    BY <1>4 DEF Writer!readVars
  <2>3. WriterTypes'
    BY <1>1, <2>1, <2>2 DEF WriterTypes, Count, ToSet
  <2>4. InOrder'
    BY <1>1, <2>1, <2>2, CountsEmpty, SizeType DEF InOrder, Size
  <2>5. ReadSoFar' /\ Staged' /\ Told'
    BY <1>1, <2>1, <2>2 DEF ReadSoFar, Staged, Told, Good, CutShort, Count
  <2> QED BY <2>3, <2>4, <2>5
<1> QED
  BY <1>3, <1>4 DEF Writer!WriteHeader

(* The text to be written is the next.                                      *)
LEMMA NextText ==
    ASSUME WInv, put < Len(inHand)
    PROVE  Writer!TextToWrite = Carried
<1>1. Len(inHand) \in Nat /\ put \in Nat /\ Carried \in Nat
  BY DEF WInv, WriterTypes, InOrder, Counts, Carried
<1>2. \A k \in 1 .. Len(inHand) : inHand[k] = (Carried - put) + k - 1
  BY DEF WInv, InOrder, Counts
<1>3. inHand[put + 1] = (Carried - put) + (put + 1) - 1
  BY <1>1, <1>2
<1> QED
  BY <1>1, <1>3 DEF Writer!TextToWrite

LEMMA WriteTextKeeps ==
    ASSUME WInv, Writer!WriteText, UNCHANGED job
    PROVE  WInv'
<1> USE DEF WInv
<1>1. /\ stage = "write" /\ put < Len(inHand) /\ pc \in {"join", "last"}
      /\ written = "ok" /\ error = "no" /\ refused = "no"
      /\ UNCHANGED <<given, sourceOver, reading, readWave, readStatus, inHand, status,
                     formatted, pc, result>>
  BY DEF Writer!WriteText, Staged, Told, Writer!readVars, Writer!waveVars, WriterTypes
<1>2. /\ Len(inHand) \in Nat /\ put \in Nat /\ Carried \in Nat
      /\ given \in Nat /\ Len(readWave) \in Nat
  BY DEF WriterTypes, InOrder, Counts, Carried
<1>3. Counts(sink, 0) /\ Counts(buffered, Len(sink)) /\ Len(buffered) <= Capacity
  BY DEF InOrder
<1>4. Writer!TextToWrite = Carried
  BY <1>1, NextText
<1>5. Good(Carried)
  BY <1>1, <1>2, <1>4 DEF Staged, Writer!TextToWrite
<1>6. CASE /\ Writer!Accept(Writer!TextToWrite) /\ put' = put + 1
           /\ UNCHANGED <<stage, written>>
  <2>1. /\ Counts(sink', 0) /\ Counts(buffered', Len(sink'))
        /\ Len(buffered') <= Capacity /\ Carried' = Carried + 1
        /\ error' = "no" /\ refused' = "no"
    BY <1>1, <1>3, <1>4, <1>6, AcceptKeeps
  <2>2. Carried' - put' = Carried - put
    BY <1>2, <1>6, <2>1
  <2>3. WriterTypes'
    BY <1>1, <1>2, <1>6, <2>1 DEF WriterTypes, Count, ToSet
  <2>4. InOrder'
    <3>1. /\ given' <= Carried' - 1 + 2 * Size
          /\ Carried' - put' + Len(inHand') <= given' + 1
          /\ pc \in {"first", "join"} =>
                 given' + 1 = Carried' - put' + Len(inHand') + Len(readWave')
          /\ pc \in {"last", "flush"} =>
                 given' + 1 = Carried' - put' + Len(inHand')
      <4>1. /\ given <= Carried - 1 + 2 * Size
            /\ Carried - put + Len(inHand) <= given + 1
            /\ pc \in {"first", "join"} =>
                   given + 1 = Carried - put + Len(inHand) + Len(readWave)
            /\ pc \in {"last", "flush"} => given + 1 = Carried - put + Len(inHand)
        BY <1>1 DEF InOrder
      <4>2. given' <= Carried' - 1 + 2 * Size
        BY <1>1, <1>2, <2>1, <4>1, SizeType
      <4> QED BY <1>1, <2>2, <4>1, <4>2, Zenon
    <3>2. Counts(inHand', Carried' - put')
      BY <1>1, <2>2 DEF InOrder
    <3>3. pc \in {"first", "join"} => Counts(readWave', Carried' - put' + Len(inHand'))
      BY <1>1, <2>2 DEF InOrder
    <3> QED BY <1>1, <2>1, <3>1, <3>2, <3>3 DEF InOrder, Size
  <2>5. ReadSoFar'
    BY <1>1, <1>6 DEF ReadSoFar, Count, CutShort
  <2>6. \A i \in 1 .. Carried' - 1 : Good(i)
    BY <1>2, <1>5, <2>1 DEF Staged
  <2>7. Staged' /\ Told'
    BY <1>1, <1>6, <2>1, <2>6 DEF Staged, Told, Good, CutShort, Count
  <2> QED BY <2>3, <2>4, <2>5, <2>7
<1>7. CASE /\ Writer!Refuse(Writer!TextToWrite) /\ stage' = "over" /\ written' = "io"
           /\ UNCHANGED put
  <2>1. /\ Counts(sink', 0) /\ Counts(buffered', Len(sink'))
        /\ Len(buffered') <= Capacity /\ Carried' = Carried
        /\ error' \in RefusalKinds /\ refused' = error' /\ error' # "no"
    BY <1>1, <1>3, <1>7, RefuseKeeps
  <2>2. WriterTypes'
    BY <1>1, <1>7, <2>1 DEF WriterTypes, Count, ToSet
  <2>3. InOrder'
    BY <1>1, <1>7, <2>1 DEF InOrder, Size, Counts
  <2>4. ReadSoFar'
    BY <1>1, <1>7 DEF ReadSoFar, Count, CutShort
  <2>5. Staged' /\ Told'
    BY <1>1, <1>7, <2>1 DEF Staged, Told, Good, CutShort, Count
  <2> QED BY <2>2, <2>3, <2>4, <2>5
<1> QED
  BY <1>6, <1>7 DEF Writer!WriteText

(* The turn taken when the wave at hand, if any, is written.                *)
LEMMA TakeTurnKeeps ==
    ASSUME WInv, Writer!TakeTurn, UNCHANGED job, pc \in {"first", "join"}, ~reading,
           written = "ok", put = Len(inHand)
    PROVE  WInv'
<1> USE DEF WInv
<1>1. /\ inHand' = readWave /\ status' = readStatus /\ stage' = "format"
      /\ formatted' = {} /\ put' = 0 /\ written' = "ok"
      /\ UNCHANGED <<buffered, sink, error, refused, result, given, sourceOver>>
  BY DEF Writer!TakeTurn, Writer!StartWriting, Writer!StartReading, Writer!outVars,
         Writer!readVars
<1>2. /\ Carried \in Nat /\ Len(inHand) \in Nat /\ Len(readWave) \in Nat /\ given \in Nat
      /\ Size \in Nat /\ Size > 0 /\ Count \in Nat /\ readWave \in Seq(Nat)
  BY SizeType, WriteFacts DEF WriterTypes, InOrder, Counts, Carried
<1>3. /\ Counts(readWave, Carried) /\ given + 1 = Carried + Len(readWave)
      /\ Len(readWave) <= Size
  <2>1. Carried - put + Len(inHand) = Carried
    BY <1>2
  <2> QED BY <2>1 DEF InOrder
<1>4. error = "no" /\ refused = "no"
  BY DEF Told
<1>5. Carried' = Carried
  BY <1>1 DEF Carried
<1>6. /\ Counts(sink', 0) /\ Counts(buffered', Len(sink')) /\ Len(buffered') <= Capacity
      /\ Counts(inHand', Carried' - put') /\ Len(inHand') <= Size
      /\ \A k \in 1 .. Len(inHand') : inHand'[k] \in 1 .. given'
      /\ Carried' - put' + Len(inHand') = given' + 1
      /\ given' <= Carried' - 1 + 2 * Size
  <2>1. Carried - 0 = Carried
    BY <1>2
  <2>2. given <= Carried - 1 + 2 * Size
    BY <1>2, <1>3
  <2> QED BY <1>1, <1>3, <1>5, <2>1, <2>2 DEF InOrder
<1>7. CASE /\ readStatus = "ok" /\ readWave # <<>>
           /\ pc' = "join" /\ reading' = TRUE /\ readWave' = <<>> /\ readStatus' = "ok"
  <2>1. WriterTypes'
    BY <1>1, <1>2, <1>7 DEF WriterTypes, Count
  <2>2. InOrder'
    <3>1. /\ readWave' \in Seq(Nat) /\ Len(readWave') = 0 /\ Len(readWave') <= Size
          /\ \A k \in 1 .. Len(readWave') : readWave'[k] \in 1 .. given'
          /\ Counts(readWave', Carried' - put' + Len(inHand'))
      BY <1>2, <1>7, CountsEmpty
    <3>2. /\ given' + 1 = Carried' - put' + Len(inHand') + Len(readWave')
          /\ Carried' - put' + Len(inHand') <= given' + 1
      BY <1>1, <1>2, <1>5, <1>6, <3>1
    <3> QED BY <1>6, <1>7, <3>1, <3>2 DEF InOrder, Size
  <2>3. ReadSoFar'
    BY <1>1, <1>2, <1>7 DEF ReadSoFar, CutShort, Count
  <2>4. Staged' /\ Told'
    BY <1>1, <1>4, <1>5, <1>7 DEF Staged, Told, Good, CutShort, Count
  <2> QED BY <2>1, <2>2, <2>3, <2>4
<1>8. CASE /\ ~(readStatus = "ok" /\ readWave # <<>>)
           /\ pc' = "last" /\ UNCHANGED <<reading, readWave, readStatus>>
  <2>1. WriterTypes'
    BY <1>1, <1>2, <1>8 DEF WriterTypes, Count
  <2>2. InOrder'
    <3>1. Carried' - put' + Len(inHand') <= given' + 1
      BY <1>1, <1>2, <1>5, <1>6
    <3>2. /\ readWave' \in Seq(Nat) /\ Len(readWave') <= Size
          /\ \A k \in 1 .. Len(readWave') : readWave'[k] \in 1 .. given'
      BY <1>1, <1>8 DEF InOrder
    <3> QED BY <1>6, <1>8, <3>1, <3>2 DEF InOrder, Size
  <2>3. given = Count /\ (readStatus = "parse" <=> CutShort)
    <3>1. Len(readWave) = Size /\ readStatus = "ok" => readWave # <<>>
      BY <1>2
    <3> QED BY <1>8, <3>1 DEF ReadSoFar
  <2>4. ReadSoFar'
    BY <1>1, <1>8, <2>3 DEF ReadSoFar, CutShort, Count, WriterTypes
  <2>5. Staged' /\ Told'
    BY <1>1, <1>4, <1>5, <1>8 DEF Staged, Told, Good, CutShort, Count
  <2> QED BY <2>1, <2>2, <2>4, <2>5
<1> QED
  BY <1>7, <1>8 DEF Writer!TakeTurn, Writer!AnotherTurn, Writer!StartReading, Writer!readVars

LEMMA FlushKeeps ==
    ASSUME WInv, Writer!Flush, UNCHANGED job
    PROVE  WInv'
<1> USE DEF WInv
<1>1. /\ pc = "flush" /\ pc' = "drop" /\ error = "no" /\ refused = "no" /\ ~reading
      /\ written = "ok" /\ status = "ok" /\ stage = "over" /\ put = Len(inHand)
      /\ UNCHANGED <<given, sourceOver, reading, readWave, readStatus, inHand, status,
                     stage, formatted, put, written, result>>
  BY DEF Writer!Flush, Staged, Told, ReadSoFar, Writer!readVars, Writer!waveVars,
         Writer!stageVars
<1>2. Counts(sink, 0) /\ Counts(buffered, Len(sink)) /\ Len(buffered) \in Nat
  BY DEF InOrder, Counts
<1>3. PICK n \in 0 .. Len(buffered) :
          /\ Writer!DriveOut(n) /\ error' \in {"no"} \cup RefusalKinds
          /\ refused' = error' /\ (error' = "no" => n = Len(buffered))
  <2>1. Len(buffered) \in 0 .. Len(buffered)
    BY <1>2
  <2> QED BY <1>1, <2>1, PipelineAssumption
             DEF Writer!Flush, Writer!Track, Writer!Refusal
<1>4. /\ Counts(sink', 0) /\ Counts(buffered', Len(sink'))
      /\ Len(buffered') = Len(buffered) - n /\ Carried' = Carried
  BY <1>2, <1>3, DriveOutKeeps
<1>5. WriterTypes'
  BY <1>1, <1>3 DEF WriterTypes, Count, ToSet
<1>6. InOrder'
  <2>1. Len(buffered') <= Capacity
    BY <1>2, <1>4, SizeType DEF InOrder
  <2> QED BY <1>1, <1>4, <2>1 DEF InOrder, Size
<1>7. ReadSoFar' /\ Staged'
  BY <1>1, <1>4 DEF ReadSoFar, Staged, Good, CutShort, Count
<1>8. Told'
  <2>1. error' = "no" => buffered' = <<>>
    <3>1. error' = "no" => Len(buffered') = 0
      BY <1>2, <1>3, <1>4
    <3> QED BY <1>4, <3>1 DEF Counts
  <2>2. Carried = Count + 1
    <3>1. given + 1 = Carried - put + Len(inHand) /\ given = Count
      BY <1>1 DEF InOrder, ReadSoFar
    <3>2. put \in Nat /\ Carried \in Nat /\ Count \in Nat
      BY <1>2, WriteFacts DEF WriterTypes, InOrder, Counts, Carried
    <3> QED BY <1>1, <3>1, <3>2
  <2>3. status = "parse" <=> CutShort
    BY <1>1 DEF ReadSoFar
  <2> QED BY <1>1, <1>3, <1>4, <2>1, <2>2, <2>3 DEF Told, CutShort, Count
<1> QED
  BY <1>5, <1>6, <1>7, <1>8

LEMMA DropKeeps ==
    ASSUME WInv, Writer!Drop, UNCHANGED job
    PROVE  WInv'
<1> USE DEF WInv
<1>1. /\ pc = "drop" /\ pc' = "return" /\ ~reading /\ error = refused
      /\ UNCHANGED <<given, sourceOver, reading, readWave, readStatus, inHand, status,
                     stage, formatted, put, written, error, result>>
  BY DEF Writer!Drop, Told, ReadSoFar, Writer!readVars, Writer!waveVars, Writer!stageVars
<1>2. Counts(sink, 0) /\ Counts(buffered, Len(sink)) /\ Len(buffered) \in Nat
  BY DEF InOrder, Counts
<1>3. PICK n \in 0 .. Len(buffered) :
          /\ Writer!DriveOut(n)
          /\ \/ n = Len(buffered) /\ refused' = refused
             \/ /\ n < Len(buffered) /\ refused' \in RefusalKinds \cup {"no"}
                /\ refused' # "no" /\ (refused # "no" => refused' = refused)
  <2>1. Len(buffered) \in 0 .. Len(buffered)
    BY <1>2
  <2> QED BY <2>1, PipelineAssumption DEF Writer!Drop, Writer!Refusal, WriterTypes
<1>4. /\ Counts(sink', 0) /\ Counts(buffered', Len(sink'))
      /\ Len(buffered') = Len(buffered) - n /\ Carried' = Carried
  BY <1>2, <1>3, DriveOutKeeps
<1>5. WriterTypes'
  BY <1>1, <1>3 DEF WriterTypes, Count, ToSet
<1>6. InOrder'
  <2>1. Len(buffered') <= Capacity
    BY <1>2, <1>4, SizeType DEF InOrder
  <2> QED BY <1>1, <1>4, <2>1 DEF InOrder, Size
<1>7. ReadSoFar' /\ Staged'
  BY <1>1, <1>4 DEF ReadSoFar, Staged, Good, CutShort, Count
<1>8. Told'
  <2>1. refused' # "no" \/ buffered' = <<>>
    <3>1. n = Len(buffered) => Len(buffered') = 0
      BY <1>2, <1>4
    <3> QED BY <1>3, <1>4, <3>1 DEF Counts
  <2>2. buffered = <<>> => n = 0 /\ Len(buffered) = 0 /\ buffered' = <<>>
    <3>1. buffered = <<>> => n = 0 /\ Len(buffered) = 0 /\ Len(buffered') = 0
      BY <1>2, <1>3, <1>4
    <3> QED BY <1>4, <3>1 DEF Counts
  <2>3. buffered = <<>> => refused' = refused
    BY <1>3, <2>2
  <2>4. error # "no" => refused' = error
    BY <1>1, <1>3
  <2>5. buffered = <<>> => buffered' = <<>> /\ refused' = refused
    BY <2>2, <2>3
  <2> QED BY <1>1, <1>4, <2>1, <2>4, <2>5 DEF Told, CutShort, Count
<1> QED
  BY <1>5, <1>6, <1>7, <1>8

(* A step of the writer or of its reader, whoever takes it.                 *)
LEMMA WriterStep ==
    ASSUME WInv, UNCHANGED job,
           Writer!Reader \/ Writer!Writer \/ Writer!Main \/ UNCHANGED writerVars
    PROVE  WInv'
<1>1. CASE Writer!Reader
  BY <1>1, ReadBatchKeeps, EndReadKeeps DEF Writer!Reader
<1>2. CASE Writer!Writer
  BY <1>2, FormatKeeps, CollectKeeps, WriteTextKeeps, EndWriteKeeps DEF Writer!Writer
<1>3. CASE Writer!FirstRead
  <2>1. pc = "first" /\ ~reading /\ Writer!TakeTurn
    BY <1>3 DEF Writer!FirstRead
  <2>2. written = "ok" /\ inHand = <<>>
    BY <2>1 DEF WInv, Staged
  <2>3. put = Len(inHand)
    BY <2>2 DEF WInv, WriterTypes
  <2> QED BY <2>1, <2>2, <2>3, TakeTurnKeeps
<1>4. CASE Writer!Join
  <2>1. pc = "join" /\ ~reading /\ stage = "over"
    BY <1>4 DEF Writer!Join
  <2>2. CASE written = "ok" /\ Writer!TakeTurn
    <3>1. put = Len(inHand)
      BY <2>1, <2>2 DEF WInv, Staged
    <3> QED BY <2>1, <2>2, <3>1, TakeTurnKeeps
  <2>3. CASE written # "ok" /\ Writer!Fail
    BY <2>1, <2>3, FailKeeps
  <2> QED BY <1>4, <2>2, <2>3 DEF Writer!Join, Writer!WrittenWell
<1>5. CASE \/ Writer!WriteHeader \/ Writer!LastWritten \/ Writer!Flush \/ Writer!Drop
           \/ Writer!Return
  BY <1>5, WriteHeaderKeeps, LastWrittenKeeps, FlushKeeps, DropKeeps, ReturnKeeps
<1>6. CASE UNCHANGED writerVars
  BY <1>6 DEF writerVars, WInv, WriterTypes, InOrder, ReadSoFar, Staged, Told, Counts,
              Carried, Size, Good, CutShort, Count, ToSet
<1> QED
  BY <1>1, <1>2, <1>3, <1>4, <1>5, <1>6 DEF Writer!Main

------------------------------------------------------------------------------
(* How the two are held together.  Only a reader waits for the parser; over *)
(* scan() it is in_waves' read(), with room left in its wave, and what it   *)
(* was given is the parser's answers, less the error.  The parser is at a   *)
(* whole wave's distance only while it is asked.                            *)
Together ==
    /\ caller = "asking" =>
           \/ job.client \in {"caller", "read"}
           \/ job.client = "writeScan" /\ reading /\ Len(readWave) < Size
    /\ job.client = "writeScan" => given = Len(answers) - (IF failed THEN 1 ELSE 0)
    /\ job.client = "writeScan" /\ failed => given < Carried - 1 + 2 * Size
    /\ job.client = "write" => taken = 0 /\ caller = "idle"
    /\ job.client \in {"caller", "read"} => pc = "header"
    /\ caller = "idle" \/ failed => Len(ready) < WaveSize

(* read() is done once the parser gave an error or None.                    *)
JoinedOnce ==
    /\ whole # "open" => job.client = "read" /\ (failed \/ ended) /\ whole = Joined
    /\ job.client = "read" /\ (failed \/ ended) => caller = "idle"

PInv == IInv /\ WInv /\ Together /\ JoinedOnce

(* A step is one of the parser's or none of its, one of the writer's or     *)
(* none of its, and the job stays.                                          *)
LEMMA StepOfEach ==
    ASSUME [NextAll]_allVars
    PROVE  /\ [Next]_vars /\ UNCHANGED job
           /\ Writer!Reader \/ Writer!Writer \/ Writer!Main \/ UNCHANGED writerVars
<1>1. [Next]_vars => UNCHANGED job
  BY DEF Next, Serve, Work, Ask, Deliver, AnswerNone, TakeChunks, ReadBlock, StartWave,
         FinishWave, StartChunk, FinishChunk, vars
<1>2. CASE CallerAsks \/ AskForBatch
  BY <1>1, <1>2 DEF CallerAsks, AskForBatch, Next
<1>3. CASE CallerIsAnswered
  BY <1>1, <1>3 DEF CallerIsAnswered, Next, Serve
<1>4. CASE ReadAll
  BY <1>1, <1>4 DEF ReadAll, Read, AskForAll, Collect, Join, Next, Serve
<1>5. CASE Parse
  BY <1>1, <1>5 DEF Parse, Next, Serve
<1>6. CASE GiveBatch
  BY <1>1, <1>6 DEF GiveBatch, Next, Serve, Writer!Reader
<1>7. CASE GiveEnd
  BY <1>1, <1>7 DEF GiveEnd, Next, Serve, Writer!Reader
<1>8. CASE StopAsking \/ ReadItsOwn
  BY <1>1, <1>8 DEF StopAsking, ReadItsOwn, Writer!Reader
<1>9. CASE WriteWave \/ WriteMain
  BY <1>1, <1>9 DEF WriteWave, WriteMain, Writing
<1>10. CASE \E w \in Workers : ParseOn(w)
  BY <1>1, <1>10 DEF ParseOn, Next
<1>11. CASE UNCHANGED allVars
  BY <1>1, <1>11 DEF allVars
<1> QED
  BY <1>2, <1>3, <1>4, <1>5, <1>6, <1>7, <1>8, <1>9, <1>10, <1>11 DEF NextAll, Reading

(* The writer itself reads nothing, and takes back no text.                 *)
LEMMA WriterReadsNothing ==
    ASSUME WInv, UNCHANGED job, Writer!Writer \/ Writer!Main
    PROVE  /\ given' = given /\ Carried' >= Carried
           /\ reading => reading' /\ readWave' = readWave
<1>1. /\ Counts(sink, 0) /\ Counts(buffered, Len(sink)) /\ Len(buffered) <= Capacity
      /\ Carried \in Nat
  BY DEF WInv, InOrder, Counts, Carried
<1>2. CASE \/ Writer!Format \/ Writer!Collect \/ Writer!EndWrite \/ Writer!FirstRead
           \/ Writer!Join \/ Writer!LastWritten \/ Writer!Return
  BY <1>1, <1>2 DEF Writer!Format, Writer!Collect, Writer!EndWrite, Writer!FirstRead,
         Writer!Join, Writer!LastWritten, Writer!Return, Writer!readVars, Writer!outVars,
         Writer!TakeTurn, Writer!StartReading, Writer!Fail, Carried, WInv, Staged
<1>3. CASE Writer!WriteHeader
  <2>1. /\ given' = given /\ ~reading /\ Carried = 0 /\ refused = "no"
    BY <1>3 DEF Writer!WriteHeader, Writer!StartReading, Writer!readVars, WInv, Staged,
                ReadSoFar, Told, Carried
  <2>2. Writer!Accept(Carried) \/ Writer!Refuse(0)
    BY <1>3, <2>1 DEF Writer!WriteHeader
  <2>3. Carried' >= Carried
    BY <1>1, <2>1, <2>2, AcceptKeeps, RefuseKeeps
  <2> QED BY <2>1, <2>3
<1>4. CASE Writer!WriteText
  <2>1. /\ UNCHANGED Writer!readVars /\ put < Len(inHand) /\ refused = "no"
    BY <1>4 DEF Writer!WriteText, WInv, Staged, Told
  <2>2. Writer!Accept(Carried) \/ Writer!Refuse(Carried)
    BY <1>4, <2>1, NextText DEF Writer!WriteText
  <2>3. Carried' >= Carried
    BY <1>1, <2>1, <2>2, AcceptKeeps, RefuseKeeps
  <2> QED BY <2>1, <2>3 DEF Writer!readVars
<1>5. CASE Writer!Flush \/ Writer!Drop
  <2>1. UNCHANGED Writer!readVars
    BY <1>5 DEF Writer!Flush, Writer!Drop
  <2>2. \E n \in 0 .. Len(buffered) : Writer!DriveOut(n)
    BY <1>1, <1>5 DEF Writer!Flush, Writer!Drop, Counts
  <2>3. Carried' = Carried
    BY <1>1, <2>2, DriveOutKeeps
  <2> QED BY <1>1, <2>1, <2>3 DEF Writer!readVars
<1> QED
  BY <1>2, <1>3, <1>4, <1>5 DEF Writer!Writer, Writer!Main

LEMMA TogetherInit ==
    ASSUME InitAll
    PROVE  PInv
<1>1. job \in Jobs /\ Init /\ Writer!Init /\ whole = "open"
  BY DEF InitAll, Init
<1>2. IInv /\ WInv
  BY <1>1, InitHolds, WriterInit
<1>3. Together /\ JoinedOnce
  BY <1>1, WaveSizeType DEF Together, JoinedOnce, Init, Writer!Init
<1> QED
  BY <1>2, <1>3 DEF PInv

(* Only the pool's work and the wave's taking leave the caller as it was    *)
(* and the results ready; a wave that is finished was asked for.            *)
LEMMA ParseKeepsCalling ==
    ASSUME IInv, TakeChunks \/ ReadBlock \/ StartWave \/ FinishWave
                 \/ \E w \in Workers : Work(w)
    PROVE  /\ UNCHANGED <<caller, answers, ended, failed>>
           /\ caller = "idle" \/ failed => ready' = ready
           /\ job.client = "write" /\ caller = "idle" => taken' = taken
<1>1. \A w \in Workers : Work(w) => UNCHANGED <<caller, answers, ended, failed, ready, taken>>
  BY DEF Work, StartChunk, FinishChunk
<1>2. FinishWave => caller = "asking" /\ ~failed
  BY DEF FinishWave, IInv, AtHand
<1> QED
  BY <1>1, <1>2 DEF TakeChunks, ReadBlock, StartWave, FinishWave, NeedsWave

LEMMA AnswerLeavesRoom ==
    ASSUME IInv, Together, Deliver \/ AnswerNone
    PROVE  /\ caller = "asking" /\ caller' = "idle" /\ taken' = taken
           /\ Len(ready') < WaveSize
<1>1. caller = "asking" /\ caller' = "idle" /\ taken' = taken
  BY DEF Deliver, AnswerNone
<1>2. CASE Deliver
  <2>1. ready # <<>> /\ ready' = Tail(ready) /\ ready \in Seq(Result)
    BY <1>2 DEF Deliver, IInv, Types
  <2>2. Len(Tail(ready)) = Len(ready) - 1 /\ Len(ready) \in Nat
    BY <2>1
  <2>3. Len(ready) <= WaveSize
    <3>1. Len(ready) + Len(wave) <= WaveSize /\ Len(wave) \in Nat
      BY DEF IInv, Ordered, Types
    <3> QED BY <2>2, <3>1, WaveSizeType
  <2> QED BY <1>1, <2>1, <2>2, <2>3, WaveSizeType
<1>3. CASE AnswerNone
  <2>1. ready' = ready /\ (failed \/ ready = <<>>)
    BY <1>3 DEF AnswerNone, Exhausted
  <2> QED BY <1>1, <2>1, WaveSizeType DEF Together
<1> QED
  BY <1>1, <1>2, <1>3

LEMMA TogetherKeeps ==
    ASSUME PInv, [NextAll]_allVars
    PROVE  Together'
<1> USE DEF PInv
<1>1. UNCHANGED job /\ WaveSize' = WaveSize /\ Size' = Size
  BY StepOfEach DEF WaveSize, Size
<1>2. job \in Jobs /\ job.client \in {"caller", "read", "write", "writeScan"}
  BY PipelineAssumption DEF IInv, Types
<1>3. /\ given \in Nat /\ Carried \in Nat /\ Size \in Nat /\ Len(readWave) \in Nat
      /\ Len(answers) \in Nat
  BY SizeType, WriteFacts DEF WInv, WriterTypes, InOrder, Counts, Carried, IInv, Types
<1>4. CASE CallerAsks
  BY <1>1, <1>4 DEF CallerAsks, Ask, Together, writerVars, Carried
<1>5. CASE CallerIsAnswered
  BY <1>1, <1>2, <1>5, AnswerLeavesRoom DEF CallerIsAnswered, Together, writerVars
<1>6. CASE ReadAll
  <2>1. job.client = "read" /\ UNCHANGED writerVars
    BY <1>6 DEF ReadAll
  <2>2. CASE AskForAll
    BY <1>1, <2>1, <2>2 DEF AskForAll, Ask, Together, writerVars
  <2>3. CASE Collect
    BY <1>1, <2>1, <2>3, AnswerLeavesRoom DEF Collect, Together, writerVars
  <2>4. CASE Join
    BY <1>1, <2>1, <2>4 DEF Join, Together, writerVars, vars
  <2> QED BY <1>6, <2>2, <2>3, <2>4 DEF ReadAll, Read
<1>7. CASE Parse \/ \E w \in Workers : ParseOn(w)
  <2>1. /\ UNCHANGED <<caller, answers, ended, failed, writerVars>>
        /\ caller = "idle" \/ failed => ready' = ready
        /\ job.client = "write" /\ caller = "idle" => taken' = taken
    BY <1>7, ParseKeepsCalling DEF Parse, ParseOn
  <2> QED BY <1>1, <2>1 DEF Together, writerVars, Carried
<1>8. CASE AskForBatch
  <2>1. reading /\ Len(readWave) < Size
    BY <1>8 DEF AskForBatch, Writer!WaveOpen, Writer!WaveSize, Size
  <2> QED BY <1>1, <1>8, <2>1 DEF AskForBatch, Ask, Together, writerVars, Carried
<1>9. CASE GiveBatch
  <2>1. /\ job.client = "writeScan" /\ Deliver /\ ~failed' /\ ~failed
        /\ given' = given + 1 /\ Len(answers') = Len(answers) + 1
    BY <1>9 DEF GiveBatch, Deliver, Writer!ReadBatch, IInv, Types
  <2> QED BY <1>1, <1>3, <2>1, AnswerLeavesRoom DEF Together
<1>10. CASE GiveEnd
  <2>1. /\ job.client = "writeScan" /\ given' = given /\ Carried' = Carried
        /\ Len(readWave) < Size
    BY <1>10 DEF GiveEnd, Writer!EndRead, Writer!outVars, Carried, Writer!WaveOpen,
                 Writer!WaveSize, Size
  <2>2. reading /\ given < Carried - 1 + 2 * Size
    <3>1. reading /\ pc \in {"first", "join"}
      BY <1>10 DEF GiveEnd, Writer!EndRead, WInv, ReadSoFar
    <3>2. /\ given + 1 = Carried - put + Len(inHand) + Len(readWave)
          /\ Len(inHand) <= Size
      BY <3>1 DEF WInv, InOrder
    <3>3. Len(inHand) \in Nat /\ put \in Nat
      BY DEF WInv, InOrder, WriterTypes, Counts
    <3>4. \A g, c, p, l, r, z \in Nat :
              g + 1 = c - p + l + r /\ l <= z /\ r < z => g < c - 1 + 2 * z
      OBVIOUS
    <3>5. given < Carried - 1 + 2 * Size
      BY <1>3, <2>1, <3>2, <3>3, <3>4
    <3> QED BY <3>1, <3>5
  <2>3. CASE Deliver /\ failed'
    <3>1. ~failed /\ Len(answers') = Len(answers) + 1
      BY <2>3 DEF Deliver, IInv, Types
    <3> QED BY <1>1, <1>3, <2>1, <2>2, <2>3, <3>1, AnswerLeavesRoom DEF Together
  <2>4. CASE AnswerNone
    <3>1. UNCHANGED <<answers, failed>>
      BY <2>4 DEF AnswerNone
    <3> QED BY <1>1, <1>3, <2>1, <2>2, <2>4, <3>1, AnswerLeavesRoom DEF Together
  <2> QED BY <1>10, <2>3, <2>4 DEF GiveEnd
<1>11. CASE StopAsking
  BY <1>1, <1>11 DEF StopAsking, Writer!EndRead, Writer!outVars, Together, vars, Carried
<1>12. CASE ReadItsOwn
  BY <1>1, <1>12 DEF ReadItsOwn, Together, vars
<1>13. CASE WriteWave \/ WriteMain
  <2>1. /\ job.client \in {"write", "writeScan"} /\ UNCHANGED vars
        /\ given' = given /\ Carried' >= Carried /\ Carried' \in Nat
        /\ reading => reading' /\ readWave' = readWave
    <3>1. Writer!Writer \/ Writer!Main
      BY <1>13 DEF WriteWave, WriteMain
    <3>2. WInv'
      BY <1>1, <3>1, WriterStep
    <3>3. Carried' \in Nat
      BY <3>2 DEF WInv, InOrder, Counts, Carried
    <3> QED BY <1>1, <1>13, <3>1, <3>3, WriterReadsNothing DEF WriteWave, WriteMain, Writing
  <2>2. given < Carried - 1 + 2 * Size => given' < Carried' - 1 + 2 * Size
    <3>1. \A g, c, d, z \in Nat : g < c - 1 + 2 * z /\ d >= c => g < d - 1 + 2 * z
      OBVIOUS
    <3>2. given' = given /\ Carried' >= Carried /\ Carried' \in Nat
      BY <2>1
    <3> QED BY <1>3, <3>1, <3>2
  <2> QED BY <1>1, <2>1, <2>2 DEF Together, vars
<1>14. CASE UNCHANGED allVars
  BY <1>1, <1>14 DEF allVars, Together, vars, writerVars, Carried
<1> QED
  BY <1>4, <1>5, <1>6, <1>7, <1>8, <1>9, <1>10, <1>11, <1>12, <1>13, <1>14
     DEF NextAll, Reading

LEMMA JoinedOnceKeeps ==
    ASSUME PInv, [NextAll]_allVars
    PROVE  JoinedOnce'
<1> USE DEF PInv, JoinedOnce
<1>1. UNCHANGED job
  BY StepOfEach
<1>2. job \in Jobs /\ job.client \in {"caller", "read", "write", "writeScan"}
  BY PipelineAssumption DEF IInv, Types
<1>3. CASE job.client # "read"
  <2>1. whole' = whole
    BY <1>2, <1>3 DEF NextAll, Reading, CallerAsks, CallerIsAnswered, ReadAll, Parse,
           AskForBatch, GiveBatch, GiveEnd, StopAsking, ReadItsOwn, WriteWave, WriteMain,
           Writing, ParseOn, allVars
  <2> QED BY <1>1, <1>3, <2>1
<1>4. CASE job.client = "read"
  <2>1. CASE AskForAll
    BY <1>1, <1>4, <2>1 DEF AskForAll, Ask
  <2>2. CASE Collect
    BY <1>1, <1>4, <2>2 DEF Collect, Deliver, AnswerNone
  <2>3. CASE Join
    BY <1>1, <1>4, <2>3 DEF Join, Joined, Batches, Fits, ToSet, vars
  <2>4. CASE Parse \/ \E w \in Workers : ParseOn(w)
    <3>1. UNCHANGED <<caller, answers, ended, failed, whole>>
      BY <2>4, ParseKeepsCalling DEF Parse, ParseOn
    <3> QED BY <1>1, <3>1 DEF Joined, Batches, Fits, ToSet
  <2>5. CASE UNCHANGED allVars
    BY <1>1, <2>5 DEF allVars, vars, Joined, Batches, Fits, ToSet
  <2> QED BY <1>4, <2>1, <2>2, <2>3, <2>4, <2>5 DEF NextAll, Reading, CallerAsks,
         CallerIsAnswered, ReadAll, Read, AskForBatch, GiveBatch, GiveEnd, StopAsking,
         ReadItsOwn, WriteWave, WriteMain, Writing
<1> QED
  BY <1>3, <1>4

LEMMA PipelineInductive == SpecAll => []PInv
<1>1. InitAll => PInv
  BY TogetherInit
<1>2. PInv /\ [NextAll]_allVars => PInv'
  <2> SUFFICES ASSUME PInv, [NextAll]_allVars
               PROVE  PInv'
    OBVIOUS
  <2>1. IInv'
    BY StepOfEach, StepHolds DEF PInv
  <2>2. WInv'
    BY StepOfEach, WriterStep DEF PInv
  <2> QED BY <2>1, <2>2, TogetherKeeps, JoinedOnceKeeps DEF PInv
<1> QED
  BY <1>1, <1>2, PTL DEF SpecAll

------------------------------------------------------------------------------
LEMMA CarriedWereGiven ==
    ASSUME WInv
    PROVE  /\ Len(sink) \in Nat /\ Len(buffered) \in Nat /\ Carried \in Nat
           /\ Len(sink) <= Carried /\ Carried - 1 <= given
           /\ given \in Nat /\ Count \in Nat /\ given <= Count
<1>1. /\ Len(sink) \in Nat /\ Len(buffered) \in Nat /\ Len(inHand) \in Nat
      /\ given \in 0 .. Count /\ Count \in Nat /\ put \in 0 .. Len(inHand)
      /\ Carried - put + Len(inHand) <= given + 1
  BY WriteFacts DEF WInv, InOrder, Counts, WriterTypes
<1>2. Carried = Len(sink) + Len(buffered)
  BY DEF Carried
<1> HIDE DEF Carried
<1> QED
  BY <1>1, <1>2

LEMMA WriterTyped ==
    ASSUME WInv
    PROVE  Writer!TypeInvariant
<1>1. job \in Jobs
  BY DEF WInv, WriterTypes
<1>2. WriteOf(job) \in Writes
  BY <1>1, WriteFacts
<1>3. Writer!ToSet(inHand) \cup Writer!ToSet(readWave) \subseteq 1 .. given
  <2>1. inHand \in Seq(Nat) /\ readWave \in Seq(Nat)
    BY DEF WInv, InOrder, Counts
  <2> QED BY <2>1 DEF WInv, InOrder, Writer!ToSet
<1>4. Writer!ToSet(buffered) \cup Writer!ToSet(sink) \subseteq 0 .. given
  <2>1. /\ Len(sink) \in Nat /\ Len(buffered) \in Nat /\ Carried \in Nat
        /\ Carried - 1 <= given /\ given \in Nat /\ Carried = Len(sink) + Len(buffered)
    BY CarriedWereGiven DEF Carried
  <2>2. \A k \in 1 .. Len(sink) : sink[k] \in 0 .. given
    <3>1. \A k \in 1 .. Len(sink) : sink[k] = 0 + k - 1
      BY DEF WInv, InOrder, Counts
    <3> QED BY <2>1, <3>1
  <2>3. \A k \in 1 .. Len(buffered) : buffered[k] \in 0 .. given
    <3>1. \A k \in 1 .. Len(buffered) : buffered[k] = Len(sink) + k - 1
      BY DEF WInv, InOrder, Counts
    <3> QED BY <2>1, <3>1
  <2>4. buffered \in Seq(Nat) /\ sink \in Seq(Nat)
    BY DEF WInv, InOrder, Counts
  <2> QED BY <2>2, <2>3, <2>4 DEF Writer!ToSet
<1>5. Len(inHand) <= Writer!WaveSize /\ Len(readWave) <= Writer!WaveSize
  BY DEF WInv, InOrder, Size, Writer!WaveSize
<1>6. Len(buffered) <= Capacity
  BY DEF WInv, InOrder
<1>7. formatted \subseteq Writer!ToSet(inHand)
  BY DEF WInv, WriterTypes, ToSet, Writer!ToSet
<1>8. /\ pc \in {"header", "first", "join", "last", "flush", "drop", "return", "done"}
      /\ given \in 0 .. Len(WriteOf(job).batches)
      /\ sourceOver \in BOOLEAN /\ reading \in BOOLEAN
      /\ status \in {"ok", "parse"} /\ readStatus \in {"ok", "parse"}
      /\ stage \in {"off", "format", "write", "over"}
      /\ put \in 0 .. Len(inHand)
      /\ written \in {"ok", "io", "format"}
      /\ {error, refused} \subseteq {"no"} \cup RefusalKinds
      /\ result \in {"open", "ok", "parse", "other"} \cup RefusalKinds
  BY DEF WInv, WriterTypes, Count
<1> QED
  BY <1>2, <1>3, <1>4, <1>5, <1>6, <1>7, <1>8 DEF Writer!TypeInvariant

(* Of every conversion: the variables of parser and writer have their types *)
(* (read_impl.rs 13-200, writer.rs 20-22, 66-110, 232-290).                 *)
THEOREM PipelineTyped == SpecAll => []PipelineTypes
<1>1. PInv => PipelineTypes
  BY InvariantTyped, WriterTyped DEF PInv, PipelineTypes
<1> QED
  BY <1>1, PipelineInductive, PTL

(* Whoever calls next(), the parser under the entry points is ParserWaves': *)
(* what is proved of every parallel read holds here (read_impl.rs 59-118).  *)
THEOREM EveryReadIsAParallelRead ==
    SpecAll => [](AheadByAWave) /\ IteratesInOrder /\ NothingAfterAnError
<1>1. InitAll => Init
  BY DEF InitAll
<1>2. [NextAll]_allVars => [Next]_vars
  BY StepOfEach
<1>3. SpecAll => Spec
  BY <1>1, <1>2, PTL DEF SpecAll, Spec
<1> QED
  BY <1>3, NeverMoreThanAWaveAhead, ImplementsBatchIterator, ErrorIsLast

LEMMA ThreeWavesHeld ==
    ASSUME PInv
    PROVE  HoldsThreeWaves
<1> USE DEF PInv
<1>1. /\ Size \in Nat /\ Size > 0 /\ WaveSize \in Nat /\ WaveSize > 0
      /\ given \in Nat /\ Carried \in Nat /\ Carried = Len(sink) + Len(buffered)
  BY SizeType, WaveSizeType, CarriedWereGiven DEF Carried
<1>2. Writer!HoldsTwoWaves
  <2>1. Writer!WaveSize = Size
    BY DEF Writer!WaveSize, Size
  <2>2. pc # "header" => given <= Carried - 1 + 2 * Size
    BY DEF WInv, InOrder
  <2> QED BY <1>1, <2>1, <2>2 DEF Writer!HoldsTwoWaves
<1>3. ASSUME pc # "header"
      PROVE  taken < Carried - 1 + 2 * Size + WaveSize
  <2>1. job.client \in {"write", "writeScan"}
    BY <1>3, PipelineAssumption DEF Together, IInv, Types
  <2>2. CASE job.client = "write"
    <3>1. taken = 0
      BY <2>2 DEF Together
    <3>2. \A c, z, w \in Nat : z > 0 /\ w > 0 => 0 < c - 1 + 2 * z + w
      OBVIOUS
    <3> QED BY <1>1, <3>1, <3>2
  <2>3. CASE job.client = "writeScan"
    <3>1. /\ taken = Len(answers) + Len(ready) + Len(wave)
          /\ Len(ready) + Len(wave) <= WaveSize
          /\ Len(answers) \in Nat /\ Len(ready) \in Nat /\ Len(wave) \in Nat
      BY DEF IInv, Ordered, Types
    <3>2. given <= Carried - 1 + 2 * Size
      BY <1>3 DEF WInv, InOrder
    <3>3. given = Len(answers) - (IF failed THEN 1 ELSE 0)
      BY <2>3 DEF Together
    <3>4. CASE failed
      <4>1. Len(ready) < WaveSize /\ wave = <<>> /\ given < Carried - 1 + 2 * Size
        BY <2>3, <3>4 DEF Together, IInv, AtHand
      <4>2. \A a, g, r, c, z, w \in Nat :
                g = a - 1 /\ r < w /\ g < c - 1 + 2 * z => a + r + 0 < c - 1 + 2 * z + w
        OBVIOUS
      <4>3. Len(wave) = 0 /\ given = Len(answers) - 1
        BY <3>3, <3>4, <4>1
      <4> QED BY <1>1, <3>1, <4>1, <4>2, <4>3
    <3>5. CASE ~failed /\ caller = "idle"
      <4>1. Len(ready) < WaveSize /\ wave = <<>>
        BY <3>5 DEF Together, IInv, AtHand
      <4>2. \A a, r, c, z, w \in Nat :
                r < w /\ a <= c - 1 + 2 * z => a + r + 0 < c - 1 + 2 * z + w
        OBVIOUS
      <4>3. Len(wave) = 0 /\ given = Len(answers)
        BY <3>1, <3>3, <3>5, <4>1
      <4> QED BY <1>1, <3>1, <3>2, <4>1, <4>2, <4>3
    <3>6. CASE ~failed /\ caller = "asking"
      <4>1. reading /\ Len(readWave) < Size
        BY <2>3, <3>6 DEF Together
      <4>2. /\ given + 1 = Carried - put + Len(inHand) + Len(readWave)
            /\ Len(inHand) <= Size
        BY <4>1 DEF WInv, InOrder, ReadSoFar
      <4>3. Len(inHand) \in Nat /\ put \in Nat /\ Len(readWave) \in Nat
        BY DEF WInv, InOrder, WriterTypes, Counts
      <4>4. \A g, c, p, l, r, z \in Nat :
                g + 1 = c - p + l + r /\ l <= z /\ r < z => g < c - 1 + 2 * z
        OBVIOUS
      <4>5. given < Carried - 1 + 2 * Size
        BY <1>1, <4>1, <4>2, <4>3, <4>4
      <4>6. \A a, r, v, c, z, w \in Nat :
                r + v <= w /\ a < c - 1 + 2 * z => a + r + v < c - 1 + 2 * z + w
        OBVIOUS
      <4>7. given = Len(answers)
        BY <3>1, <3>3, <3>6
      <4> QED BY <1>1, <3>1, <4>5, <4>6, <4>7
    <3> QED BY <3>4, <3>5, <3>6 DEF IInv, Types
  <2> QED BY <2>1, <2>2, <2>3
<1>4. Carried - 1 + 2 * Size + WaveSize
        = Len(sink) + Len(buffered) - 1 + 2 * Threads * BatchesPerThread
            + Cardinality(Workers) * ChunksPerThread
  <2>1. 2 * Size = 2 * Threads * BatchesPerThread
    <3>1. \A m, n \in Nat : 2 * (m * n) = 2 * m * n
      OBVIOUS
    <3> QED BY <3>1, PipelineAssumption DEF Size
  <2> QED BY <1>1, <2>1 DEF WaveSize
<1> QED
  BY <1>2, <1>3, <1>4 DEF HoldsThreeWaves

(* However large the unit: the writer holds two waves of batches, the       *)
(* parser one of chunks (docs/design.md:38, 54; read_impl.rs 13-16,         *)
(* writer.rs 20-22, 257-281).                                               *)
THEOREM ThreeWavesAtMost == SpecAll => []HoldsThreeWaves
<1>1. PInv => HoldsThreeWaves
  BY ThreeWavesHeld
<1> QED
  BY <1>1, PipelineInductive, PTL

(* After the destination has refused, no read is begun (docs/design.md:272, *)
(* writer.rs 277-281).                                                      *)
THEOREM RefusalStopsReading == SpecAll => NoReadAfterARefusal
<1>1. PInv /\ [NextAll]_allVars => [refused # "no" /\ ~reading => ~reading']_allVars
  <2> SUFFICES ASSUME PInv, [NextAll]_allVars, refused # "no", ~reading
               PROVE  ~reading'
    BY DEF allVars
  <2>1. WInv
    BY DEF PInv
  <2>2. CASE Writer!Reader
    BY <2>2 DEF Writer!Reader, Writer!ReadBatch, Writer!EndRead
  <2>3. CASE Writer!WriteHeader \/ Writer!FirstRead
    BY <2>1, <2>3 DEF Writer!WriteHeader, Writer!FirstRead, WInv, Staged, Told
  <2>4. CASE Writer!Join
    <3>1. ~Writer!WrittenWell
      BY <2>1, <2>4 DEF Writer!Join, Writer!WrittenWell, WInv, Told
    <3> QED BY <2>4, <3>1 DEF Writer!Join, Writer!Fail, Writer!readVars
  <2>5. CASE \/ Writer!Writer \/ Writer!LastWritten \/ Writer!Flush \/ Writer!Drop
             \/ Writer!Return
    BY <2>5 DEF Writer!Writer, Writer!Format, Writer!Collect, Writer!WriteText,
           Writer!EndWrite, Writer!LastWritten, Writer!Flush, Writer!Drop, Writer!Return,
           Writer!readVars
  <2>6. CASE UNCHANGED writerVars
    BY <2>6 DEF writerVars
  <2> QED BY <2>2, <2>3, <2>4, <2>5, <2>6, StepOfEach DEF Writer!Main
<1> QED
  BY <1>1, PipelineInductive, PTL DEF SpecAll, NoReadAfterARefusal

------------------------------------------------------------------------------
(* What is joined, once there is something to join.                         *)
LEMMA AnswersGiven ==
    ASSUME IInv, failed \/ ended
    PROVE  /\ answers \in Seq(Result) /\ Len(answers) \in Nat
           /\ Len(job.items) \in Nat /\ DOMAIN job.items = 1 .. Len(job.items)
           /\ \A k \in 1 .. Len(answers) : /\ answers[k].chunk = k
                                           /\ answers[k].kind = job.items[k]
           /\ \A k \in 1 .. Len(answers) : k < Len(answers) => job.items[k] = "batch"
           /\ failed => Len(answers) > 0 /\ job.items[Len(answers)] # "batch"
           /\ ~failed => /\ Len(answers) = Len(job.items)
                         /\ \A k \in 1 .. Len(answers) : job.items[k] = "batch"
<1>1. /\ answers \in Seq(Result) /\ Len(answers) \in Nat /\ Len(ready) \in Nat
      /\ Len(wave) \in Nat /\ job \in Jobs
  BY DEF IInv, Types
<1>2. Len(job.items) \in Nat /\ DOMAIN job.items = 1 .. Len(job.items)
  BY <1>1, ItemsFacts
<1>3. \A k \in 1 .. Len(answers) : answers[k].chunk = k /\ answers[k].kind = job.items[k]
  <2> TAKE k \in 1 .. Len(answers)
  <2>1. answers[k] = Abstract!Alone(k)
    BY DEF IInv, Ordered
  <2> QED BY <2>1 DEF Abstract!Alone
<1>4. \A k \in 1 .. Len(answers) : k < Len(answers) => job.items[k] = "batch"
  BY <1>3 DEF IInv, Latched
<1>5. failed => Len(answers) > 0 /\ job.items[Len(answers)] # "batch"
  BY <1>1, <1>3 DEF IInv, Latched
<1>6. ASSUME ~failed
      PROVE  /\ Len(answers) = Len(job.items)
             /\ \A k \in 1 .. Len(answers) : job.items[k] = "batch"
  <2>1. ready = <<>> /\ wave = <<>> /\ taken = Len(job.items)
    BY <1>6 DEF IInv, Latched, Exhausted
  <2>2. Len(answers) = Len(job.items)
    BY <1>1, <2>1 DEF IInv, Ordered
  <2>3. Len(answers) > 0 => job.items[Len(answers)] = "batch"
    BY <1>1, <1>3, <1>6 DEF IInv, Latched
  <2> QED BY <1>1, <1>4, <2>2, <2>3
<1> QED
  BY <1>1, <1>2, <1>3, <1>4, <1>5, <1>6

(* Of every read(): all of the unit in order, the first error, or TooLarge  *)
(* of a unit without one that is (reader.rs 11-16, 30-40, error.rs 33).     *)
THEOREM ReadGivesAll == SpecAll => []GivesAllOrTheFirstError
<1>1. PInv => GivesAllOrTheFirstError
  <2> SUFFICES ASSUME PInv, whole # "open"
               PROVE  GivesAllOrTheFirstError
    BY DEF GivesAllOrTheFirstError
  <2> DEFINE chunks == [k \in DOMAIN answers |-> answers[k].chunk]
  <2>1. IInv /\ (failed \/ ended) /\ whole = Joined
    BY DEF PInv, JoinedOnce
  <2>2. /\ answers \in Seq(Result) /\ Len(answers) \in Nat
        /\ Len(job.items) \in Nat /\ DOMAIN job.items = 1 .. Len(job.items)
        /\ \A k \in 1 .. Len(answers) : /\ answers[k].chunk = k
                                        /\ answers[k].kind = job.items[k]
        /\ \A k \in 1 .. Len(answers) : k < Len(answers) => job.items[k] = "batch"
        /\ failed => Len(answers) > 0 /\ job.items[Len(answers)] # "batch"
        /\ ~failed => /\ Len(answers) = Len(job.items)
                      /\ \A k \in 1 .. Len(answers) : job.items[k] = "batch"
    BY <2>1, AnswersGiven
  <2>3. DOMAIN answers = 1 .. Len(answers)
    BY <2>2
  <2>4. chunks = [k \in 1 .. Len(answers) |-> k] /\ Len(chunks) = Len(answers)
    BY <2>2, <2>3
  <2> HIDE DEF chunks
  <2>5. ~failed => chunks = [c \in All |-> c] /\ \A c \in All : job.items[c] = "batch"
    BY <2>2, <2>4 DEF All
  <2>6. failed => /\ job.items[Last(chunks)] # "batch"
                  /\ \A c \in 1 .. Last(chunks) - 1 : job.items[c] = "batch"
    <3>1. failed => Last(chunks) = Len(answers)
      BY <2>2, <2>4 DEF Last
    <3> QED BY <2>2, <3>1
  <2>7. ~failed => Batches = All
    BY <2>2, <2>3 DEF Batches, All, ToSet
  <2>8. /\ whole = "bad" => failed
        /\ whole = "ok" => ~failed
        /\ whole = "tooLarge" => ~failed /\ ~Fits(Batches)
    BY <2>1 DEF Joined
  <2>9. whole = "tooLarge" => ~Fits(All)
    BY <2>7, <2>8
  <2> QED BY <2>5, <2>6, <2>8, <2>9 DEF GivesAllOrTheFirstError, chunks
<1> QED
  BY <1>1, PipelineInductive, PTL

------------------------------------------------------------------------------
(* All there is to write: the header and the batches before the first that  *)
(* cannot be formatted, in order.                                           *)
LEMMA TextFacts ==
    ASSUME job \in Jobs
    PROVE  \E n \in 0 .. Count :
               /\ Sequential!Text = [k \in 1 .. n + 1 |-> k - 1]
               /\ \A i \in 1 .. n : Good(i)
               /\ n < Count => ~Good(n + 1)
               /\ Sequential!OddOnes = {} <=> n = Count
<1>1. /\ Count \in Nat /\ DOMAIN WriteOf(job).batches = 1 .. Count
      /\ \A i \in 1 .. Count : WriteOf(job).batches[i] \in {"good", "odd"}
  BY WriteFacts
<1> DEFINE odd == Sequential!OddOnes
<1>2. odd = {i \in 1 .. Count : WriteOf(job).batches[i] = "odd"}
  BY <1>1 DEF Sequential!OddOnes
<1>3. CASE odd = {}
  <2>1. Sequential!Text = [k \in 1 .. Count + 1 |-> k - 1]
    BY <1>3 DEF Sequential!Text, Count
  <2>2. \A i \in 1 .. Count : Good(i)
    BY <1>1, <1>2, <1>3 DEF Good
  <2> QED BY <1>1, <1>3, <2>1, <2>2
<1>4. CASE odd # {}
  <2> DEFINE first == CHOOSE i \in odd : \A j \in odd : i <= j
  <2>1. odd \in SUBSET Nat
    BY <1>1, <1>2
  <2> HIDE DEF odd
  <2>2. \E i \in odd : \A j \in odd : i <= j
    BY <1>4, <2>1, SmallestOf
  <2>3. first \in odd /\ \A j \in odd : first <= j
    BY <2>2
  <2>4. Sequential!Text = [k \in 1 .. (first - 1) + 1 |-> k - 1]
    BY <1>4 DEF Sequential!Text, odd
  <2> HIDE DEF first
  <2>5. first \in 1 .. Count /\ WriteOf(job).batches[first] = "odd"
    BY <1>2, <2>3
  <2>6. \A i \in 1 .. first - 1 : Good(i)
    <3> SUFFICES ASSUME NEW i \in 1 .. first - 1 PROVE Good(i)
      OBVIOUS
    <3>1. i \in 1 .. Count /\ i < first
      BY <1>1, <2>5
    <3>2. i \notin odd
      BY <1>1, <2>3, <2>5, <3>1
    <3> QED BY <1>1, <1>2, <3>1, <3>2 DEF Good
  <2>7. first - 1 \in 0 .. Count /\ first - 1 < Count /\ (first - 1) + 1 = first
    BY <1>1, <2>5
  <2> QED BY <1>4, <2>4, <2>5, <2>6, <2>7 DEF Good, odd
<1> QED
  BY <1>3, <1>4

(* The texts at the destination are the first of those, under the mapping.  *)
LEMMA DestinationHas ==
    ASSUME PInv
    PROVE  [k \in DOMAIN sink |-> ChunkOf(sink[k])] = [k \in 1 .. Len(sink) |-> k - 1]
<1>1. /\ DOMAIN sink = 1 .. Len(sink) /\ Len(sink) \in Nat
      /\ \A k \in 1 .. Len(sink) : sink[k] = 0 + k - 1
  BY DEF PInv, WInv, InOrder, Counts
<1>2. /\ Len(sink) <= Carried /\ Carried - 1 <= given /\ given \in Nat /\ Carried \in Nat
  BY CarriedWereGiven DEF PInv
<1>3. ASSUME NEW k \in 1 .. Len(sink)
      PROVE  ChunkOf(sink[k]) = k - 1
  <2>1. sink[k] = k - 1 /\ k - 1 \in 0 .. given
    BY <1>1, <1>2
  <2>2. CASE k - 1 = 0 \/ job.client = "write"
    <3>1. ChunkOf(k - 1) = k - 1
      BY <1>2, <2>1, <2>2 DEF ChunkOf
    <3> QED BY <2>1, <3>1
  <2>3. CASE k - 1 > 0 /\ job.client # "write"
    <3>1. job.client = "writeScan"
      <4>1. sink # <<>>
        BY <1>1
      <4> QED BY <2>3, <4>1, PipelineAssumption
              DEF PInv, IInv, Types, Together, WInv, Staged
    <3>2. given <= Len(answers) /\ Len(answers) \in Nat
      BY <1>2, <3>1 DEF PInv, Together, IInv, Types
    <3>3. k - 1 \in 1 .. Len(answers)
      BY <1>2, <2>1, <2>3, <3>2
    <3>4. answers[k - 1] = Abstract!Alone(k - 1)
      BY <3>3 DEF PInv, IInv, Ordered
    <3>5. answers[k - 1].chunk = k - 1 /\ answers[k - 1].lines = {k - 1}
      BY <3>4 DEF Abstract!Alone
    <3> QED BY <2>1, <2>3, <3>5 DEF ChunkOf
  <2> QED BY <2>1, <2>2, <2>3
<1> QED
  BY <1>1, <1>3

(* Of the texts there are to write, as many reached the destination as the  *)
(* mapping says, and all of them if all were carried and none is left.      *)
Reached == [k \in DOMAIN sink |-> ChunkOf(sink[k])]

InText ==
    /\ Len(Sequential!Text) \in Nat /\ Len(sink) \in 0 .. Len(Sequential!Text)
    /\ Reached = SubSeq(Sequential!Text, 1, Len(sink)) /\ Len(Reached) = Len(sink)
    /\ Len(sink) = Count + 1 => Reached = Sequential!Text /\ Sequential!OddOnes = {}

LEMMA DestinationInText ==
    ASSUME PInv
    PROVE  InText
<1> DEFINE out == Reached
<1>1. job \in Jobs
  BY DEF PInv, IInv, Types
<1>2. PICK n \in 0 .. Count :
          /\ Sequential!Text = [k \in 1 .. n + 1 |-> k - 1]
          /\ \A i \in 1 .. n : Good(i)
          /\ n < Count => ~Good(n + 1)
          /\ Sequential!OddOnes = {} <=> n = Count
  BY <1>1, TextFacts
<1>3. /\ Len(sink) \in Nat /\ Carried \in Nat /\ Len(sink) <= Carried
      /\ Carried - 1 <= given /\ given \in Nat /\ given <= Count /\ Count \in Nat
  BY CarriedWereGiven DEF PInv
<1>4. \A i \in 1 .. Carried - 1 : Good(i)
  BY DEF PInv, WInv, Staged
<1>5. out = [k \in 1 .. Len(sink) |-> k - 1]
  BY DestinationHas DEF Reached
<1> HIDE DEF out
<1>6. Len(sink) <= n + 1
  <2> SUFFICES ASSUME n + 1 < Len(sink) PROVE FALSE
    BY <1>3
  <2>1. n < Count /\ n + 1 \in 1 .. Carried - 1
    BY <1>3
  <2> QED BY <1>2, <1>4, <2>1
<1>7. Len(Sequential!Text) = n + 1 /\ n + 1 \in Nat /\ Sequential!Text \in Seq(Nat)
  BY <1>2, <1>3
<1>8. Len(out) = Len(sink)
  BY <1>3, <1>5
<1>9. out = SubSeq(Sequential!Text, 1, Len(sink))
  <2>1. /\ SubSeq(Sequential!Text, 1, Len(sink))
             = [k \in 1 .. Len(sink) |-> Sequential!Text[1 + k - 1]]
    BY <1>3, <1>7
  <2>2. \A k \in 1 .. Len(sink) : Sequential!Text[1 + k - 1] = k - 1
    BY <1>2, <1>3, <1>6
  <2> QED BY <1>5, <2>1, <2>2
<1>10. Len(sink) = Count + 1 => out = Sequential!Text /\ Sequential!OddOnes = {}
  <2>1. Len(sink) = Count + 1 => n = Count
    BY <1>3, <1>6
  <2> QED BY <1>2, <1>5, <2>1
<1>11. Len(Sequential!Text) \in Nat /\ Len(sink) \in 0 .. Len(Sequential!Text)
  BY <1>3, <1>6, <1>7
<1> QED
  BY <1>8, <1>9, <1>10, <1>11, Zenon DEF out, InText

(* Before write_to returns, a step of the writer lets more texts through or *)
(* is refused for the first time, or neither.                               *)
LEMMA WritesOn ==
    ASSUME WInv, UNCHANGED job,
           \/ Writer!Reader \/ Writer!Writer \/ Writer!WriteHeader \/ Writer!FirstRead
           \/ Writer!Join \/ Writer!LastWritten \/ Writer!Flush \/ Writer!Drop
    PROVE  /\ result = "open" /\ result' = "open" /\ Len(sink') >= Len(sink)
           /\ \/ refused' = refused
              \/ refused = "no" /\ refused' \in RefusalKinds
<1>1. /\ Counts(sink, 0) /\ Counts(buffered, Len(sink)) /\ Len(buffered) <= Capacity
      /\ Len(sink) \in Nat /\ Len(buffered) \in Nat
  BY DEF WInv, InOrder, Counts
<1>2. CASE \/ Writer!Reader \/ Writer!Format \/ Writer!Collect \/ Writer!EndWrite
           \/ Writer!FirstRead \/ Writer!Join \/ Writer!LastWritten
  <2>1. pc # "done" /\ UNCHANGED <<sink, refused, result>>
    BY <1>2 DEF Writer!Reader, Writer!ReadBatch, Writer!EndRead, Writer!Format,
           Writer!Collect, Writer!EndWrite, Writer!FirstRead, Writer!Join, Writer!Fail,
           Writer!TakeTurn, Writer!LastWritten, Writer!outVars, WInv, ReadSoFar, Staged
  <2> QED BY <1>1, <2>1 DEF WInv, Told
<1>3. CASE Writer!WriteHeader
  <2>1. /\ pc # "done" /\ result' = result /\ refused = "no" /\ Carried = 0
        /\ Writer!Accept(0) \/ Writer!Refuse(0)
    BY <1>3 DEF Writer!WriteHeader, WInv, Staged, Told, Carried
  <2>2. /\ Len(sink') >= Len(sink)
        /\ refused' = refused \/ refused' \in RefusalKinds
    <3>1. CASE Writer!Accept(0)
      BY <1>1, <2>1, <3>1, AcceptKeeps
    <3>2. CASE Writer!Refuse(0)
      <4>1. \E n \in 0 .. Len(buffered) : Writer!DriveOut(n)
        BY <3>2 DEF Writer!Refuse
      <4>2. Len(sink') >= Len(sink)
        BY <1>1, <4>1, DriveOutKeeps
      <4> QED BY <1>1, <2>1, <3>2, <4>2, RefuseKeeps
    <3> QED BY <2>1, <3>1, <3>2
  <2> QED BY <2>1, <2>2 DEF WInv, Told
<1>4. CASE Writer!WriteText
  <2>1. /\ pc # "done" /\ result' = result /\ refused = "no"
        /\ Writer!Accept(Carried) \/ Writer!Refuse(Carried)
    BY <1>4, NextText DEF Writer!WriteText, WInv, Staged, Told
  <2>2. /\ Len(sink') >= Len(sink)
        /\ refused' = refused \/ refused' \in RefusalKinds
    <3>1. CASE Writer!Accept(Carried)
      BY <1>1, <3>1, AcceptKeeps
    <3>2. CASE Writer!Refuse(Carried)
      <4>1. \E n \in 0 .. Len(buffered) : Writer!DriveOut(n)
        BY <3>2 DEF Writer!Refuse
      <4>2. Len(sink') >= Len(sink)
        BY <1>1, <4>1, DriveOutKeeps
      <4> QED BY <1>1, <2>1, <3>2, <4>2, RefuseKeeps
    <3> QED BY <2>1, <3>1, <3>2
  <2> QED BY <2>1, <2>2 DEF WInv, Told
<1>5. CASE Writer!Flush \/ Writer!Drop
  <2>1. /\ pc # "done" /\ result' = result
        /\ \/ refused' = refused
           \/ refused = "no" /\ refused' \in RefusalKinds
    BY <1>5 DEF Writer!Flush, Writer!Drop, Writer!Refusal
  <2>2. \E n \in 0 .. Len(buffered) : Writer!DriveOut(n)
    BY <1>1, <1>5 DEF Writer!Flush, Writer!Drop
  <2>3. Len(sink') >= Len(sink)
    BY <1>1, <2>2, DriveOutKeeps
  <2> QED BY <2>1, <2>3 DEF WInv, Told
<1> QED
  BY <1>2, <1>3, <1>4, <1>5 DEF Writer!Writer

(* What write_to returns is what the texts at the destination allow.        *)
LEMMA ReturnsTruly ==
    ASSUME PInv, InText, Writer!Return, UNCHANGED <<job, Reached>>
    PROVE  \/ Sequential!EndWell \/ Sequential!EndWithParseError
           \/ Sequential!EndRefused \/ Sequential!EndUnformatted
<1>1. /\ pc = "return" /\ result = "open" /\ result' = Writer!Outcome
      /\ UNCHANGED <<sink, refused>>
  BY DEF Writer!Return, Writer!outVars, PInv, WInv, Told
<1>2. job \in Jobs /\ WriteOf(job).ending \in {"end", "parseError"}
  BY WriteFacts DEF PInv, IInv, Types
<1>3. /\ Len(sink) \in Nat /\ Len(buffered) \in Nat /\ Carried = Len(sink) + Len(buffered)
      /\ Count \in Nat
  BY CarriedWereGiven DEF PInv, Carried
<1>4. UNCHANGED WriteOf(job)
  OBVIOUS
<1>5. CASE status = "parse" /\ written = "ok"
  <2>1. Carried = Count + 1 /\ CutShort /\ (refused # "no" \/ buffered = <<>>)
    BY <1>1, <1>5 DEF PInv, WInv, Told
  <2>2. buffered = <<>> => Reached = Sequential!Text
    BY <1>3, <2>1 DEF InText
  <2>3. Sequential!OddOnes = {}
    <3>1. \A i \in 1 .. Count : Good(i)
      BY <1>3, <2>1 DEF PInv, WInv, Staged
    <3> QED BY <1>2, <3>1, WriteFacts DEF Sequential!OddOnes, Good
  <2>4. Writer!Outcome = "parse"
    BY <1>5 DEF Writer!Outcome
  <2> QED BY <1>1, <1>4, <2>1, <2>2, <2>3, <2>4
          DEF Sequential!EndWithParseError, CutShort, Reached
<1>6. CASE ~(status = "parse" /\ written = "ok") /\ error # "no"
  <2>1. refused # "no" /\ Writer!Outcome = refused
    BY <1>6 DEF Writer!Outcome, PInv, WInv, Told
  <2> QED BY <1>1, <1>4, <2>1 DEF Sequential!EndRefused, Reached
<1>7. CASE error = "no" /\ written # "ok"
  <2>1. Writer!Outcome = "other" /\ written = "format"
    BY <1>7 DEF Writer!Outcome, PInv, WInv, Told, WriterTypes
  <2>2. Sequential!OddOnes # {}
    BY <1>2, <2>1, WriteFacts DEF Sequential!OddOnes, PInv, WInv, Staged
  <2> QED BY <1>1, <1>4, <2>1, <2>2 DEF Sequential!EndUnformatted, Reached
<1>8. CASE error = "no" /\ written = "ok" /\ status # "parse"
  <2>1. /\ Carried = Count + 1 /\ ~CutShort /\ refused = "no" /\ buffered = <<>>
    BY <1>1, <1>8 DEF PInv, WInv, Told, WriterTypes
  <2>2. Reached = Sequential!Text /\ Sequential!OddOnes = {}
    BY <1>3, <2>1 DEF InText
  <2>3. Writer!Outcome = "ok"
    BY <1>8 DEF Writer!Outcome
  <2> QED BY <1>1, <1>2, <1>4, <2>1, <2>2, <2>3 DEF Sequential!EndWell, CutShort, Reached
<1> QED
  BY <1>5, <1>6, <1>7, <1>8

LEMMA ConvertsStep ==
    ASSUME PInv, InText, PInv', InText', [NextAll]_allVars
    PROVE  [Sequential!Next]_(Sequential!writeVars)
<1>1. /\ UNCHANGED job
      /\ Writer!Reader \/ Writer!Writer \/ Writer!Main \/ UNCHANGED writerVars
  BY StepOfEach
<1>2. Sequential!Text' = Sequential!Text /\ UNCHANGED WriteOf(job)
  BY <1>1 DEF Sequential!Text, Sequential!OddOnes
<1>3. sink' = sink => Reached' = Reached
  BY <1>2 DEF InText
<1>4. CASE UNCHANGED writerVars
  BY <1>2, <1>3, <1>4 DEF writerVars, Sequential!writeVars, Reached
<1>5. CASE Writer!Return
  <2>1. UNCHANGED Reached
    BY <1>3, <1>5 DEF Writer!Return, Writer!outVars
  <2> QED BY <1>1, <1>5, <2>1, ReturnsTruly DEF Sequential!Next
<1>6. CASE \/ Writer!Reader \/ Writer!Writer \/ Writer!WriteHeader \/ Writer!FirstRead
           \/ Writer!Join \/ Writer!LastWritten \/ Writer!Flush \/ Writer!Drop
  <2>1. /\ result = "open" /\ result' = result /\ Len(sink') >= Len(sink)
        /\ \/ refused' = refused
           \/ refused = "no" /\ refused' \in RefusalKinds
    BY <1>1, <1>6, WritesOn DEF PInv
  <2>2. /\ Len(sink') \in Len(Reached) .. Len(Sequential!Text)
        /\ Reached' = SubSeq(Sequential!Text, 1, Len(sink'))
    BY <1>2, <2>1 DEF InText
  <2>3. Sequential!Emit
    BY <1>2, <2>1, <2>2 DEF Sequential!Emit, Reached
  <2> QED BY <2>3 DEF Sequential!Next
<1> QED
  BY <1>1, <1>4, <1>5, <1>6 DEF Writer!Main

(* Whichever threads parse, format and write when, however far the reading  *)
(* runs ahead and wherever the destination refuses: a conversion writes     *)
(* what writing one batch after another would, and returns what that would  *)
(* (reader.rs 22-28, writer.rs 66-69, 257-259).                             *)
THEOREM ImplementsSequentialWrite == SpecAll => ConvertsInSequence
<1>1. InitAll => Sequential!Init
  <2> SUFFICES ASSUME InitAll PROVE Sequential!Init
    OBVIOUS
  <2>1. sink = <<>> /\ refused = "no" /\ result = "open" /\ job \in Jobs
    BY DEF InitAll, Writer!Init, Init
  <2>2. Reached = <<>>
    BY <2>1 DEF Reached
  <2>3. WriteOf(job) \in Writes
    BY <2>1 DEF Writes
  <2> QED BY <2>1, <2>2, <2>3 DEF Sequential!Init, Reached
<1>2. PInv => InText
  BY DestinationInText
<1>3. PInv /\ InText /\ PInv' /\ InText' /\ [NextAll]_allVars
        => [Sequential!Next]_(Sequential!writeVars)
  BY ConvertsStep
<1> QED
  BY <1>1, <1>2, <1>3, PipelineInductive, PTL DEF SpecAll, Sequential!Spec, ConvertsInSequence
==============================================================================
