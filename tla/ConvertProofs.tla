----------------------------- MODULE ConvertProofs -----------------------------
(***************************************************************************)
(* What holds of every set of writes to one file, however many, however    *)
(* long their outputs and wherever they fail or are killed: the file is    *)
(* replaced whole or left alone.  And what holds of every command, on any  *)
(* input and whatever other writers do: its exit status tells the truth,   *)
(* and nothing is touched in vain.                                         *)
(***************************************************************************)
EXTENDS Convert, TLAPS

Types ==
    /\ file \in [by : Writers \cup {Before}, parts : Int]
    /\ temp \in [Writers -> Int]
    /\ pc \in [Writers -> {"create", "write", "persist", "ok", "error", "killed"}]

(* The file holds the whole of someone's output, and so does a temp file    *)
(* that is about to be renamed over it.                                     *)
Whole == /\ file.parts = Parts
         /\ \A w \in Writers : pc[w] = "persist" => temp[w] = Parts

(* There is a temp file only between its creation and its end.              *)
NoStrayTemp ==
    \A w \in Writers : pc[w] \in {"create", "ok", "error"} => temp[w] = NoTemp

IInv == Types /\ Whole /\ NoStrayTemp

------------------------------------------------------------------------------
LEMMA InitIInv == Init => IInv
BY FileAssumption DEF Init, IInv, Types, Whole, NoStrayTemp, NoTemp

(* No step of a writer breaks the invariant.                                *)
LEMMA StepIInv == ASSUME IInv, NEW w \in Writers, Step(w) PROVE IInv'
<1> USE DEF IInv, Types, Whole, NoStrayTemp, Goto, SetTemp, NoTemp
<1>1. CASE Create(w)      BY <1>1, FileAssumption DEF Create
<1>2. CASE WritePart(w)   BY <1>2, FileAssumption DEF WritePart
<1>3. CASE WriteFails(w)  BY <1>3, FileAssumption DEF WriteFails
<1>4. CASE WriteEnds(w)   BY <1>4, FileAssumption DEF WriteEnds, Written
<1>5. CASE Rename(w)      BY <1>5, FileAssumption DEF Rename
<1>6. CASE RenameFails(w) BY <1>6, FileAssumption DEF RenameFails, TempRemoved
<1>7. CASE Kill(w)        BY <1>7, FileAssumption DEF Kill
<1>8. QED BY <1>1, <1>2, <1>3, <1>4, <1>5, <1>6, <1>7 DEF Step

LEMMA NextIInv == IInv /\ [Next]_vars => IInv'
<1>1. ASSUME IInv, Next PROVE IInv'
  BY <1>1, StepIInv DEF Next
<1>2. ASSUME IInv, UNCHANGED vars PROVE IInv'
  BY <1>2 DEF vars, IInv, Types, Whole, NoStrayTemp
<1>3. QED BY <1>1, <1>2

LEMMA Invariance == Spec => []IInv
BY InitIInv, NextIInv, PTL DEF Spec

(* A write that ended, well or not, has left no temp file, unless its       *)
(* process was killed.                                                      *)
THEOREM NoTempIsLeft == Spec => []OnlyTheKilledLeaveATemp
<1>1. IInv => OnlyTheKilledLeaveATemp
  BY DEF IInv, NoStrayTemp, OnlyTheKilledLeaveATemp
<1>2. QED BY <1>1, Invariance, PTL

------------------------------------------------------------------------------
ResultOf(w) == IF pc[w] \in Ended THEN pc[w] ELSE "open"

(* What can be seen of a writer's step: it replaces the file, it ends and   *)
(* leaves the file alone, or nothing.                                       *)
Replaces(w) == /\ pc[w] \notin Ended
               /\ file' = [by |-> w, parts |-> Parts]
               /\ pc' = [pc EXCEPT ![w] = "ok"]

Leaves(w) == /\ pc[w] \notin Ended
             /\ UNCHANGED file
             /\ \E p \in {"error", "killed"} : pc' = [pc EXCEPT ![w] = p]

Passes(w) == /\ UNCHANGED file
             /\ \/ UNCHANGED pc
                \/ /\ pc[w] \notin Ended
                   /\ \E p \in {"write", "persist"} : pc' = [pc EXCEPT ![w] = p]

LEMMA StepSeen ==
    ASSUME IInv, NEW w \in Writers, Step(w)
    PROVE  Replaces(w) \/ Leaves(w) \/ Passes(w)
<1> USE DEF Replaces, Leaves, Passes, Goto, Ended
<1>1. CASE Create(w)      BY <1>1 DEF Create
<1>2. CASE WritePart(w)   BY <1>2 DEF WritePart
<1>3. CASE WriteFails(w)  BY <1>3 DEF WriteFails
<1>4. CASE WriteEnds(w)   BY <1>4 DEF WriteEnds
<1>5. CASE Rename(w)      BY <1>5 DEF Rename, IInv, Whole
<1>6. CASE RenameFails(w) BY <1>6 DEF RenameFails
<1>7. CASE Kill(w)        BY <1>7 DEF Kill
<1>8. QED BY <1>1, <1>2, <1>3, <1>4, <1>5, <1>6, <1>7 DEF Step

(* A step that is seen is AtomicReplace's, whoever keeps the temp files.    *)
LEMMA SeenIsAbstract ==
    ASSUME pc \in [Writers -> {"create", "write", "persist", "ok", "error", "killed"}],
           NEW w \in Writers, Replaces(w) \/ Leaves(w) \/ Passes(w)
    PROVE  [Abstract!Next]_(Abstract!fileVars)
<1> DEFINE R == [v \in Writers |-> ResultOf(v)]
<1>1. ASSUME pc[w] \notin Ended, NEW p \in Ended, pc' = [pc EXCEPT ![w] = p]
      PROVE  R' = [R EXCEPT ![w] = p] /\ R[w] = "open"
  BY <1>1 DEF Ended, ResultOf
<1>2. CASE Replaces(w)
  <2>1. R' = [R EXCEPT ![w] = "ok"] /\ R[w] = "open"
    BY <1>1, <1>2 DEF Replaces, Ended
  <2>2. (IF file.parts = Parts THEN file.by ELSE "partial")' = w
    BY <1>2 DEF Replaces
  <2>3. Abstract!Replace(w)
    BY <2>1, <2>2 DEF Abstract!Replace, ResultOf
  <2> QED
    BY <2>3 DEF Abstract!Next
<1>3. CASE Leaves(w)
  <2>1. PICK p \in {"error", "killed"} : pc' = [pc EXCEPT ![w] = p]
    BY <1>3 DEF Leaves
  <2>2. R' = [R EXCEPT ![w] = p] /\ R[w] = "open"
    BY <1>1, <1>3, <2>1 DEF Leaves, Ended
  <2>3. Abstract!Leave(w)
    BY <1>3, <2>2 DEF Abstract!Leave, ResultOf, Leaves
  <2> QED
    BY <2>3 DEF Abstract!Next
<1>4. CASE Passes(w)
  <2>1. R' = R
    BY <1>4 DEF Passes, Ended, ResultOf
  <2> QED
    BY <1>4, <2>1 DEF Passes, Abstract!fileVars, ResultOf
<1> QED
  BY <1>2, <1>3, <1>4

(* Writing to a file implements AtomicReplace: Rename is its Replace, each  *)
(* failure or kill its Leave, and every other step changes nothing there.   *)
THEOREM ImplementsAtomicReplace == Spec => ReplacesWhole
<1>1. Init => Abstract!Init
  BY DEF Init, Abstract!Init, Ended
<1>2. ASSUME IInv, [Next]_vars
      PROVE  [Abstract!Next]_(Abstract!fileVars)
  <2>1. CASE Next
    BY <1>2, <2>1, StepSeen, SeenIsAbstract DEF Next, IInv, Types
  <2>2. CASE UNCHANGED vars
    BY <2>2 DEF vars, Abstract!fileVars
  <2> QED
    BY <1>2, <2>1, <2>2
<1>3. QED BY <1>1, <1>2, Invariance, PTL DEF Spec, ReplacesWhole, Abstract!Spec

------------------------------------------------------------------------------
(* Where the command is, and what it has done.                              *)
RunTypes ==
    /\ job \in Jobs
    /\ at \in {"start", "layout", "scan", "write", "persist", "exit"}
    /\ refused \in {"no"} \cup RefusalKinds
    /\ returned \in {"open", "ok", "parse", "other"} \cup RefusalKinds
    /\ status \in {"running", "success", "failure", "killed"}
    /\ status = "running" <=> at # "exit"

(* The command's place in to_file, which it only enters to write to a file. *)
InToFile ==
    /\ job.toStdout \/ at \in {"start", "layout", "scan"} => pc[Fwf] = "create"
    /\ at = "write" => pc[Fwf] \in {"create", "write"}
    /\ at = "persist" => ~job.toStdout /\ pc[Fwf] = "persist"
    /\ ~job.toStdout => /\ status = "success" => pc[Fwf] = "ok"
                        /\ status = "failure" => pc[Fwf] \in {"create", "error"}
                        /\ status = "killed" => pc[Fwf] = "killed"

(* Whether the checks that come before the destination were passed.         *)
MayWrite == Format = "parquet" /\ job.toStdout /\ job.terminal => job.force

InOrder ==
    /\ at \in {"layout", "scan", "write", "persist"} => MayWrite
    /\ at \in {"scan", "write", "persist"} => job.layoutGood
    /\ at \in {"write", "persist"} => job.inputOpens
    /\ at \in {"start", "layout", "scan"} =>
           out = <<>> /\ returned = "open" /\ temp[Fwf] = NoTemp /\ file.by # Fwf

AllOut == out = Sink!Text /\ job.write.ending = "end" /\ Sink!OddOnes = {}

(* What the write's result says of it, and of the temp file it filled.      *)
ToldTruly ==
    /\ returned = "ok" => AllOut
    /\ returned = "brokenPipe" => refused = "brokenPipe"
    /\ refused = "brokenPipe" => job.toStdout
    /\ at = "write" /\ ~job.toStdout /\ returned = "ok" =>
           pc[Fwf] = "write" /\ temp[Fwf] = Parts
    /\ status = "success" => returned \in {"ok", "brokenPipe"}
    /\ at = "persist" => returned = "ok"

CInv == /\ IInv /\ RunTypes /\ InToFile /\ InOrder /\ ToldTruly
        /\ TouchesNothingInVain

LEMMA InitCInv == InitRun => CInv
<1> SUFFICES ASSUME InitRun PROVE CInv
  OBVIOUS
<1>1. IInv
  BY InitIInv DEF InitRun
<1>2. /\ temp[Fwf] = NoTemp /\ file.by # Fwf /\ pc[Fwf] = "create"
      /\ out = <<>> /\ returned = "open" /\ refused = "no" /\ at = "start"
      /\ status = "running" /\ job \in Jobs
  BY ConvertAssumption, FileAssumption DEF InitRun, Init
<1>3. "brokenPipe" # "no" /\ TouchesNothingInVain
  BY <1>2 DEF TouchesNothingInVain
<1> QED
  BY <1>1, <1>2, <1>3
     DEF CInv, RunTypes, InToFile, InOrder, ToldTruly

(* The checks before the write, and every end of the command that leaves    *)
(* the file and the temp files alone.                                       *)
LEMMA BeforeWriteCInv == CInv /\ (Start \/ ReadLayout \/ Scan) => CInv'
<1> SUFFICES ASSUME CInv, Start \/ ReadLayout \/ Scan PROVE CInv'
  OBVIOUS
<1> USE DEF CInv
<1>1. IInv'
  BY DEF IInv, Types, Whole, NoStrayTemp, Start, ReadLayout, Scan, vars
<1>2. UNCHANGED <<job, out, refused, returned>> /\ UNCHANGED vars
  BY DEF Start, ReadLayout, Scan, Exit, Advance
<1>3. UNCHANGED <<Format, Sink!Text, Sink!OddOnes>>
  BY <1>2 DEF Format, Sink!Text, Sink!OddOnes
<1>4. RunTypes'
  BY <1>2 DEF RunTypes, Start, ReadLayout, Scan, Exit, Advance
<1>5. InToFile'
  BY <1>2 DEF RunTypes, InToFile, Start, ReadLayout, Scan, Exit, Advance, vars
<1>6. InOrder'
  BY <1>2, <1>3
     DEF RunTypes, InOrder, MayWrite, Start, ReadLayout, Scan, Exit, Advance, vars,
         TouchesNothingInVain, RefusesTerminal
<1>7. ToldTruly'
  BY <1>2, <1>3
     DEF RunTypes, ToldTruly, AllOut, Start, ReadLayout, Scan, Exit, Advance, vars,
         InOrder
<1>8. TouchesNothingInVain'
  BY <1>2, <1>3 DEF TouchesNothingInVain, vars
<1> QED
  BY <1>1, <1>4, <1>5, <1>6, <1>7, <1>8

(* What was written, as long as that and the command stay the same.         *)
LEMMA SameText ==
    ASSUME UNCHANGED job
    PROVE  UNCHANGED <<Format, MayWrite, Sink!Text, Sink!OddOnes>>
BY DEF Format, MayWrite, Sink!Text, Sink!OddOnes

LEMMA MakeTempCInv == CInv /\ MakeTemp => CInv'
<1> SUFFICES ASSUME CInv, MakeTemp PROVE CInv'
  OBVIOUS
<1> USE DEF CInv
<1>1. Fwf \in Writers
  BY ConvertAssumption
<1>2. IInv'
  BY <1>1, StepIInv DEF MakeTemp, Step
<1>3. /\ UNCHANGED <<job, out, refused, returned, file>> /\ ~job.toStdout
      /\ at = "write" /\ pc[Fwf] = "create" /\ status = "running"
      /\ \/ pc'[Fwf] = "write" /\ at' = "write" /\ status' = "running"
         \/ pc'[Fwf] = "error" /\ at' = "exit" /\ status' = "failure"
  BY <1>1 DEF MakeTemp, Create, Goto, Exit, runVars, IInv, Types, RunTypes
<1>4. UNCHANGED <<Format, MayWrite, Sink!Text, Sink!OddOnes>>
  BY <1>3, SameText
<1>5. RunTypes'
  BY <1>3 DEF RunTypes
<1>6. InToFile'
  BY <1>3 DEF InToFile
<1>7. InOrder'
  BY <1>3, <1>4 DEF InOrder
<1>8. returned # "ok"
  BY <1>3 DEF ToldTruly
<1>9. ToldTruly'
  BY <1>3, <1>4, <1>8 DEF ToldTruly, AllOut
<1>10. TouchesNothingInVain'
  BY <1>3, <1>4 DEF TouchesNothingInVain, InOrder, MayWrite
<1> QED
  BY <1>2, <1>5, <1>6, <1>7, <1>9, <1>10

(* A write says "ok" when all of it is out, and no more after that.         *)
LEMMA WriteTells ==
    ASSUME CInv, Write
    PROVE  /\ returned = "open" /\ UNCHANGED job
           /\ refused' \in {"no"} \cup RefusalKinds
           /\ returned' \in {"open", "ok", "parse", "other"} \cup RefusalKinds
           /\ returned' = "ok" => AllOut'
           /\ returned' = "brokenPipe" => refused' = "brokenPipe"
           /\ refused' = "brokenPipe" => job.toStdout
<1> USE DEF CInv
<1>1. /\ UNCHANGED job /\ (refused' = "brokenPipe" => job.toStdout)
      /\ Sink!Next \/ EndParquet
  BY DEF Write
<1>2. UNCHANGED <<Sink!Text, Sink!OddOnes>>
  BY <1>1, SameText
<1>3. RefusalKinds \cap {"no", "open", "ok", "parse", "other"} = {}
  BY ConvertAssumption
<1>4. refused \in {"no"} \cup RefusalKinds
  BY DEF RunTypes
<1>5. CASE Sink!Emit
  BY <1>1, <1>2, <1>3, <1>4, <1>5 DEF Sink!Emit
<1>6. CASE Sink!EndWell
  BY <1>1, <1>2, <1>3, <1>4, <1>6 DEF Sink!EndWell, AllOut
<1>7. CASE Sink!EndWithParseError
  BY <1>1, <1>2, <1>3, <1>4, <1>7 DEF Sink!EndWithParseError
<1>8. CASE Sink!EndRefused
  BY <1>1, <1>2, <1>3, <1>4, <1>8 DEF Sink!EndRefused
<1>9. CASE Sink!EndUnformatted
  BY <1>1, <1>2, <1>3, <1>4, <1>9 DEF Sink!EndUnformatted
<1>10. CASE EndParquet
  BY <1>1, <1>2, <1>3, <1>4, <1>10 DEF EndParquet
<1> QED
  BY <1>1, <1>5, <1>6, <1>7, <1>8, <1>9, <1>10 DEF Sink!Next

LEMMA WriteCInv == CInv /\ Write => CInv'
<1> SUFFICES ASSUME CInv, Write PROVE CInv'
  OBVIOUS
<1> USE DEF CInv
<1>1. /\ Fwf \in Writers /\ Parts = 2
  BY ConvertAssumption
<1>2. /\ UNCHANGED <<job, at, status, file, pc>> /\ at = "write"
      /\ job.toStdout => UNCHANGED temp
      /\ ~job.toStdout => /\ pc[Fwf] = "write"
                          /\ \E n \in {0, 1, Parts} : temp' = [temp EXCEPT ![Fwf] = n]
                          /\ returned' = "ok" => temp' = [temp EXCEPT ![Fwf] = Parts]
  BY DEF Write, FillTemp, SetTemp, vars
<1>3. UNCHANGED <<Format, MayWrite>>
  BY <1>2, SameText
<1>4. /\ temp \in [Writers -> Int] /\ temp' \in [Writers -> Int]
      /\ \A w \in Writers : temp'[w] # temp[w] => w = Fwf /\ pc[w] = "write"
      /\ ~job.toStdout /\ returned' = "ok" => temp'[Fwf] = Parts
  <2>1. temp \in [Writers -> Int]
    BY DEF IInv, Types
  <2>2. CASE job.toStdout
    BY <1>2, <2>1, <2>2
  <2>3. CASE ~job.toStdout
    BY <1>1, <1>2, <2>1, <2>3
  <2> QED
    BY <2>2, <2>3
<1>5. IInv'
  BY <1>2, <1>4 DEF IInv, Types, Whole, NoStrayTemp
<1>6. RunTypes' /\ InToFile'
  BY <1>2, WriteTells DEF RunTypes, InToFile
<1>7. InOrder'
  BY <1>2, <1>3 DEF InOrder
<1>8. ToldTruly'
  BY <1>2, <1>4, WriteTells DEF ToldTruly, RunTypes
<1>9. TouchesNothingInVain'
  BY <1>2, <1>3 DEF TouchesNothingInVain, InOrder, MayWrite
<1> QED
  BY <1>5, <1>6, <1>7, <1>8, <1>9

LEMMA StdoutWrittenCInv == CInv /\ StdoutWritten => CInv'
<1> SUFFICES ASSUME CInv, StdoutWritten PROVE CInv'
  OBVIOUS
<1> USE DEF CInv
<1>1. /\ UNCHANGED <<job, out, refused, returned, file, temp, pc>>
      /\ at = "write" /\ at' = "exit" /\ job.toStdout /\ returned # "open"
      /\ status' = IF Succeeds THEN "success" ELSE "failure"
  BY DEF StdoutWritten, Exit, vars
<1>2. UNCHANGED <<Format, MayWrite, Sink!Text, Sink!OddOnes>>
  BY <1>1, SameText
<1>3. IInv'
  BY <1>1 DEF IInv, Types, Whole, NoStrayTemp
<1>4. RunTypes' /\ InToFile' /\ InOrder'
  BY <1>1, <1>2 DEF RunTypes, InToFile, InOrder
<1>5. ToldTruly'
  BY <1>1, <1>2 DEF ToldTruly, AllOut, Succeeds
<1>6. TouchesNothingInVain'
  BY <1>1, <1>2 DEF TouchesNothingInVain, InOrder
<1> QED
  BY <1>3, <1>4, <1>5, <1>6

LEMMA FileWrittenCInv == CInv /\ FileWritten => CInv'
<1> SUFFICES ASSUME CInv, FileWritten PROVE CInv'
  OBVIOUS
<1> USE DEF CInv
<1>1. Fwf \in Writers
  BY ConvertAssumption
<1>2. /\ UNCHANGED <<job, out, refused, returned, file>>
      /\ at = "write" /\ ~job.toStdout /\ status = "running"
  BY DEF FileWritten, Exit, Advance, WriteFails, RunTypes
<1>3. UNCHANGED <<Format, MayWrite, Sink!Text, Sink!OddOnes>>
  BY <1>2, SameText
<1>4. MayWrite /\ job.layoutGood /\ job.inputOpens
  BY <1>2 DEF InOrder
<1>5. TouchesNothingInVain'
  BY <1>2, <1>3, <1>4 DEF TouchesNothingInVain, MayWrite
<1>6. InOrder'
  BY <1>2, <1>3, <1>4 DEF InOrder, FileWritten, Exit, Advance
<1>7. CASE Persists
  <2>1. /\ at' = "persist" /\ UNCHANGED <<status, temp>> /\ returned = "ok"
        /\ pc' = [pc EXCEPT ![Fwf] = "persist"]
    BY <1>7 DEF FileWritten, Advance, Goto, Persists
  <2>2. pc[Fwf] = "write" /\ temp[Fwf] = Parts
    BY <1>2, <2>1 DEF ToldTruly
  <2>3. IInv'
    BY <1>1, <1>2, <2>1, <2>2 DEF IInv, Types, Whole, NoStrayTemp
  <2>4. RunTypes' /\ InToFile'
    BY <1>1, <1>2, <2>1 DEF RunTypes, InToFile, IInv, Types
  <2>5. ToldTruly'
    BY <1>2, <1>3, <2>1 DEF ToldTruly, AllOut
  <2> QED
    BY <1>5, <1>6, <2>3, <2>4, <2>5
<1>8. CASE ~Persists
  <2>1. WriteFails(Fwf) /\ returned # "ok" /\ ~Succeeds
    BY <1>2, <1>8 DEF FileWritten, Persists, Succeeds, ToldTruly
  <2>2. at' = "exit" /\ status' = "failure"
    BY <1>8, <2>1 DEF FileWritten, Exit
  <2>3. IInv'
    BY <1>1, <2>1, StepIInv DEF Step
  <2>4. pc'[Fwf] = "error"
    BY <1>1, <2>1 DEF WriteFails, Goto, IInv, Types
  <2>5. RunTypes' /\ InToFile'
    BY <1>2, <2>2, <2>4 DEF RunTypes, InToFile
  <2>6. ToldTruly'
    BY <1>2, <1>3, <2>1, <2>2 DEF ToldTruly, AllOut
  <2> QED
    BY <1>5, <1>6, <2>3, <2>5, <2>6
<1> QED
  BY <1>7, <1>8

LEMMA PersistCInv == CInv /\ Persist => CInv'
<1> SUFFICES ASSUME CInv, Persist PROVE CInv'
  OBVIOUS
<1> USE DEF CInv
<1>1. Fwf \in Writers
  BY ConvertAssumption
<1>2. /\ UNCHANGED <<job, out, refused, returned>>
      /\ at = "persist" /\ at' = "exit" /\ ~job.toStdout /\ returned = "ok"
      /\ \/ Rename(Fwf) /\ status' = "success" /\ pc'[Fwf] = "ok"
         \/ RenameFails(Fwf) /\ status' = "failure" /\ pc'[Fwf] = "error"
  BY <1>1 DEF Persist, Exit, InToFile, ToldTruly, Rename, RenameFails, Goto, IInv, Types
<1>3. UNCHANGED <<Format, MayWrite, Sink!Text, Sink!OddOnes>>
  BY <1>2, SameText
<1>4. IInv'
  BY <1>1, <1>2, StepIInv DEF Step
<1>5. RunTypes' /\ InToFile' /\ InOrder'
  BY <1>2, <1>3 DEF RunTypes, InToFile, InOrder
<1>6. ToldTruly'
  BY <1>2, <1>3 DEF ToldTruly, AllOut
<1>7. TouchesNothingInVain'
  BY <1>2, <1>3 DEF TouchesNothingInVain, InOrder, MayWrite
<1> QED
  BY <1>4, <1>5, <1>6, <1>7

LEMMA KilledCInv == CInv /\ Killed => CInv'
<1> SUFFICES ASSUME CInv, Killed PROVE CInv'
  OBVIOUS
<1> USE DEF CInv
<1>1. Fwf \in Writers
  BY ConvertAssumption
<1>2. /\ UNCHANGED <<job, out, refused, returned, file, temp>>
      /\ at # "exit" /\ at' = "exit" /\ status' = "killed"
      /\ IF job.toStdout THEN UNCHANGED pc ELSE Kill(Fwf) /\ pc'[Fwf] = "killed"
  BY <1>1 DEF Killed, Exit, Kill, Goto, vars, IInv, Types
<1>3. UNCHANGED <<Format, MayWrite, Sink!Text, Sink!OddOnes>>
  BY <1>2, SameText
<1>4. IInv'
  <2>1. CASE job.toStdout
    BY <1>2, <2>1 DEF IInv, Types, Whole, NoStrayTemp
  <2>2. CASE ~job.toStdout
    BY <1>1, <1>2, <2>2, StepIInv DEF Step
  <2> QED
    BY <2>1, <2>2
<1>5. RunTypes' /\ InToFile' /\ InOrder'
  BY <1>2, <1>3 DEF RunTypes, InToFile, InOrder
<1>6. ToldTruly'
  BY <1>2, <1>3 DEF ToldTruly, AllOut
<1>7. TouchesNothingInVain'
  BY <1>2, <1>3 DEF TouchesNothingInVain
<1> QED
  BY <1>4, <1>5, <1>6, <1>7

(* Another writer's step: the command's place and its temp file are its own.*)
LEMMA OthersLeaveIt ==
    ASSUME IInv, NEW w \in Writers \ {Fwf}, Step(w)
    PROVE  /\ pc'[Fwf] = pc[Fwf] /\ temp'[Fwf] = temp[Fwf]
           /\ file'.by # file.by => file'.by = w
<1> USE ConvertAssumption DEF IInv, Types, Goto, SetTemp
<1>1. CASE Create(w)      BY <1>1 DEF Create
<1>2. CASE WritePart(w)   BY <1>2 DEF WritePart
<1>3. CASE WriteFails(w)  BY <1>3 DEF WriteFails
<1>4. CASE WriteEnds(w)   BY <1>4 DEF WriteEnds, Written
<1>5. CASE Rename(w)      BY <1>5 DEF Rename
<1>6. CASE RenameFails(w) BY <1>6 DEF RenameFails, TempRemoved
<1>7. CASE Kill(w)        BY <1>7 DEF Kill
<1>8. QED BY <1>1, <1>2, <1>3, <1>4, <1>5, <1>6, <1>7 DEF Step

LEMMA OtherWritesCInv == CInv /\ OtherWrites => CInv'
<1> SUFFICES ASSUME CInv, OtherWrites PROVE CInv'
  OBVIOUS
<1> USE DEF CInv
<1>1. PICK w \in Writers \ {Fwf} : Step(w)
  BY DEF OtherWrites
<1>2. /\ pc'[Fwf] = pc[Fwf] /\ temp'[Fwf] = temp[Fwf]
      /\ file'.by = Fwf => file.by = Fwf
  BY <1>1, OthersLeaveIt
<1>3. UNCHANGED <<job, at, out, refused, returned, status>>
  BY DEF OtherWrites, runVars
<1>4. UNCHANGED <<Format, MayWrite, Sink!Text, Sink!OddOnes>>
  BY <1>3, SameText
<1>5. IInv'
  BY <1>1, StepIInv
<1>6. RunTypes' /\ InToFile'
  BY <1>2, <1>3 DEF RunTypes, InToFile
<1>7. InOrder' /\ ToldTruly'
  BY <1>2, <1>3, <1>4 DEF InOrder, ToldTruly, AllOut
<1>8. TouchesNothingInVain'
  BY <1>2, <1>3, <1>4 DEF TouchesNothingInVain
<1> QED
  BY <1>5, <1>6, <1>7, <1>8

LEMMA NextCInv == CInv /\ [NextRun]_<<vars, runVars>> => CInv'
<1>1. CInv /\ UNCHANGED <<vars, runVars>> => CInv'
  <2> SUFFICES ASSUME CInv, UNCHANGED <<vars, runVars>> PROVE CInv'
    OBVIOUS
  <2>1. UNCHANGED <<Format, MayWrite, Sink!Text, Sink!OddOnes>>
    BY SameText DEF runVars
  <2> QED
    BY <2>1 DEF CInv, IInv, Types, Whole, NoStrayTemp, RunTypes, InToFile, InOrder,
                ToldTruly, AllOut, TouchesNothingInVain, vars, runVars
<1> QED
  BY <1>1, BeforeWriteCInv, MakeTempCInv, WriteCInv, StdoutWrittenCInv, FileWrittenCInv,
     PersistCInv, KilledCInv, OtherWritesCInv DEF NextRun

LEMMA RunInvariance == SpecRun => []CInv
BY InitCInv, NextCInv, PTL DEF SpecRun

------------------------------------------------------------------------------
(* Of every command: success means that all of the input was parsed and     *)
(* written, or that the reader of stdout had enough (docs/design.md:272).   *)
THEOREM SuccessMeansWhole == SpecRun => []SuccessIsWhole
<1>1. CInv => SuccessIsWhole
  BY DEF CInv, ToldTruly, AllOut, SuccessIsWhole
<1> QED
  BY <1>1, RunInvariance, PTL

(* Of every command: a bad layout, an input that cannot be opened and a     *)
(* terminal leave the destination untouched (main.rs 74-80, 101).           *)
THEOREM NothingTouchedInVain == SpecRun => []TouchesNothingInVain
<1>1. CInv => TouchesNothingInVain
  BY DEF CInv
<1> QED
  BY <1>1, RunInvariance, PTL

(* Among the other writers of its file, too, the command leaves a temp file *)
(* only if it is killed (docs/design.md:271).                               *)
THEOREM CommandLeavesNoTemp == SpecRun => []OnlyTheKilledLeaveATemp
<1>1. CInv => OnlyTheKilledLeaveATemp
  BY DEF CInv, IInv, NoStrayTemp, OnlyTheKilledLeaveATemp
<1> QED
  BY <1>1, RunInvariance, PTL

------------------------------------------------------------------------------
(* What is seen of the command's own steps on a file is as of any writer's, *)
(* and on stdout there is nothing to see.                                   *)
LEMMA CommandSeen ==
    ASSUME CInv, NextRun, ~OtherWrites
    PROVE  Replaces(Fwf) \/ Leaves(Fwf) \/ Passes(Fwf)
<1>1. Fwf \in Writers
  BY ConvertAssumption
<1>2. ASSUME NEW w \in Writers, Step(w) PROVE Replaces(w) \/ Leaves(w) \/ Passes(w)
  BY <1>2, StepSeen DEF CInv
<1>3. CASE Start \/ ReadLayout \/ Scan \/ StdoutWritten
  BY <1>3 DEF Start, ReadLayout, Scan, StdoutWritten, Passes, vars
<1>4. CASE MakeTemp
  BY <1>1, <1>2, <1>4 DEF MakeTemp, Step
<1>5. CASE Write
  BY <1>5 DEF Write, FillTemp, Passes, vars
<1>6. CASE FileWritten
  <2>1. CASE Persists
    <3>1. pc[Fwf] = "write"
      BY <1>6, <2>1 DEF FileWritten, Persists, CInv, ToldTruly
    <3> QED
      BY <1>6, <2>1, <3>1 DEF FileWritten, Passes, Goto, Ended
  <2>2. CASE ~Persists
    BY <1>1, <1>2, <1>6, <2>2 DEF FileWritten, Step
  <2> QED
    BY <2>1, <2>2
<1>7. CASE Persist
  BY <1>1, <1>2, <1>7 DEF Persist, Step
<1>8. CASE Killed
  BY <1>1, <1>2, <1>8 DEF Killed, Step, Passes, vars
<1> QED
  BY <1>3, <1>4, <1>5, <1>6, <1>7, <1>8 DEF NextRun

(* The command is one of the writers of a file: with it among them, too,    *)
(* the file is replaced whole or left alone (writer.rs 61-62, 81-93).       *)
THEOREM CommandReplacesWhole == SpecRun => ReplacesWhole
<1>1. InitRun => Abstract!Init
  BY DEF InitRun, Init, Abstract!Init, Ended
<1>2. ASSUME CInv, [NextRun]_<<vars, runVars>>
      PROVE  [Abstract!Next]_(Abstract!fileVars)
  <2>1. pc \in [Writers -> {"create", "write", "persist", "ok", "error", "killed"}]
    BY <1>2 DEF CInv, IInv, Types
  <2>2. CASE OtherWrites
    <3>1. PICK w \in Writers \ {Fwf} : Step(w)
      BY <2>2 DEF OtherWrites
    <3>2. Replaces(w) \/ Leaves(w) \/ Passes(w)
      BY <1>2, <3>1, StepSeen DEF CInv
    <3> QED
      BY <2>1, <3>2, SeenIsAbstract
  <2>3. CASE NextRun /\ ~OtherWrites
    BY <1>2, <2>1, <2>3, CommandSeen, SeenIsAbstract, ConvertAssumption
  <2>4. CASE UNCHANGED <<vars, runVars>>
    BY <2>4 DEF vars, Abstract!fileVars
  <2> QED
    BY <1>2, <2>2, <2>3, <2>4
<1> QED
  BY <1>1, <1>2, RunInvariance, PTL DEF SpecRun, ReplacesWhole, Abstract!Spec

------------------------------------------------------------------------------
(* What is told of each write: of the command's, by its exit status.        *)
ToldOf(w) == IF w = Fwf THEN FwfResult ELSE ResultOf(w)

LEMMA FwfResultIs ==
    /\ job.toStdout \/ status = "running" => FwfResult = "open"
    /\ ~job.toStdout /\ status = "success" => FwfResult = "ok"
    /\ ~job.toStdout /\ status = "failure" => FwfResult = "error"
    /\ ~job.toStdout /\ status = "killed" => FwfResult = "killed"
BY DEF FwfResult

(* The command tells of its file's replacement in the step that replaces    *)
(* it, and of an error in one that leaves it.                               *)
LEMMA CommandTells ==
    ASSUME CInv, CInv', NextRun, ~OtherWrites
    PROVE  [Replace!Next]_(Replace!fileVars)
<1> DEFINE R == [v \in Writers |-> ToldOf(v)]
<1>1. Fwf \in Writers
  BY ConvertAssumption
<1>2. Replaces(Fwf) \/ Leaves(Fwf) \/ Passes(Fwf)
  BY CommandSeen
<1>3. pc \in [Writers -> {"create", "write", "persist", "ok", "error", "killed"}]
  BY DEF CInv, IInv, Types
<1>4. status = "running" /\ UNCHANGED job
  BY DEF CInv, RunTypes, NextRun, Start, ReadLayout, Scan, MakeTemp, Write,
         StdoutWritten, FileWritten, Persist, Killed, Exit, Advance, runVars
<1>5. R[Fwf] = "open"
  BY <1>1, <1>4, FwfResultIs DEF ToldOf
<1>6. \A v \in Writers : v # Fwf => R'[v] = R[v]
  BY <1>2, <1>3 DEF ToldOf, ResultOf, Replaces, Leaves, Passes
<1>7. R' = [R EXCEPT ![Fwf] = FwfResult']
  BY <1>1, <1>6 DEF ToldOf
<1>8. FwfResult' = "open" =>  R' = R
  BY <1>1, <1>5, <1>7
<1> HIDE DEF R
<1>9. CASE job.toStdout
  <2>1. FwfResult' = "open"
    <3>1. (job.toStdout)'
      BY <1>4, <1>9
    <3> QED
      BY <3>1 DEF FwfResult
  <2>2. pc[Fwf] = "create" /\ pc'[Fwf] = "create"
    BY <1>4, <1>9 DEF CInv, InToFile
  <2>3. UNCHANGED file
    BY <1>1, <1>2, <1>3, <2>2 DEF Replaces, Leaves, Passes
  <2> QED
    BY <1>8, <2>1, <2>3 DEF Replace!fileVars, R, ToldOf, ResultOf
<1>10. CASE ~job.toStdout /\ status' = "running"
  <2>1. FwfResult' = "open"
    BY <1>10 DEF FwfResult
  <2>2. pc'[Fwf] \in {"create", "write", "persist"}
    BY <1>10 DEF CInv, InToFile, RunTypes
  <2>3. UNCHANGED file
    BY <1>1, <1>2, <1>3, <2>2 DEF Replaces, Leaves, Passes
  <2> QED
    BY <1>8, <2>1, <2>3 DEF Replace!fileVars, R, ToldOf, ResultOf
<1>11. CASE ~job.toStdout /\ status' = "success"
  <2>1. pc'[Fwf] = "ok" /\ pc[Fwf] \notin Ended
    BY <1>1, <1>3, <1>4, <1>11 DEF CInv, InToFile, RunTypes, Ended
  <2>2. Replaces(Fwf)
    BY <1>1, <1>2, <1>3, <2>1 DEF Leaves, Passes, Ended
  <2>3. (IF file.parts = Parts THEN file.by ELSE "partial")' = Fwf
    BY <2>2 DEF Replaces
  <2>4. FwfResult' = "ok"
    BY <1>4, <1>11 DEF FwfResult
  <2>5. Replace!Replace(Fwf)
    BY <1>1, <1>5, <1>7, <2>3, <2>4 DEF Replace!Replace, R, ToldOf, ResultOf
  <2> QED
    BY <1>1, <2>5 DEF Replace!Next
<1>12. CASE ~job.toStdout /\ status' \in {"failure", "killed"}
  <2>1. pc'[Fwf] # "ok"
    BY <1>4, <1>12 DEF CInv, InToFile
  <2>2. UNCHANGED file
    BY <1>1, <1>2, <1>3, <2>1 DEF Replaces, Leaves, Passes
  <2>3. FwfResult' \in {"error", "killed"}
    BY <1>4, <1>12 DEF FwfResult
  <2>4. Replace!Leave(Fwf)
    BY <1>1, <1>5, <1>7, <2>2, <2>3 DEF Replace!Leave, R, ToldOf, ResultOf
  <2> QED
    BY <1>1, <2>4 DEF Replace!Next
<1> QED
  BY <1>9, <1>10, <1>11, <1>12 DEF CInv, RunTypes

(* Another writer's step tells nothing of the command's.                    *)
LEMMA OthersTell ==
    ASSUME CInv, OtherWrites
    PROVE  [Replace!Next]_(Replace!fileVars)
<1> DEFINE R == [v \in Writers |-> ToldOf(v)]
<1>1. PICK w \in Writers \ {Fwf} : Step(w)
  BY DEF OtherWrites
<1>2. Replaces(w) \/ Leaves(w) \/ Passes(w)
  BY <1>1, StepSeen DEF CInv
<1>3. pc \in [Writers -> {"create", "write", "persist", "ok", "error", "killed"}]
  BY DEF CInv, IInv, Types
<1>4. FwfResult' = FwfResult
  BY DEF OtherWrites, runVars, FwfResult
<1>5. ASSUME pc[w] \notin Ended, NEW p \in Ended, pc' = [pc EXCEPT ![w] = p]
      PROVE  R' = [R EXCEPT ![w] = p] /\ R[w] = "open"
  BY <1>1, <1>3, <1>4, <1>5 DEF Ended, ToldOf, ResultOf
<1>6. CASE Replaces(w)
  <2>1. R' = [R EXCEPT ![w] = "ok"] /\ R[w] = "open"
    BY <1>5, <1>6 DEF Replaces, Ended
  <2>2. (IF file.parts = Parts THEN file.by ELSE "partial")' = w
    BY <1>6 DEF Replaces
  <2>3. Replace!Replace(w)
    BY <2>1, <2>2 DEF Replace!Replace, ToldOf, ResultOf
  <2> QED
    BY <1>1, <2>3 DEF Replace!Next
<1>7. CASE Leaves(w)
  <2>1. PICK p \in {"error", "killed"} : pc' = [pc EXCEPT ![w] = p]
    BY <1>7 DEF Leaves
  <2>2. R' = [R EXCEPT ![w] = p] /\ R[w] = "open"
    BY <1>5, <1>7, <2>1 DEF Leaves, Ended
  <2>3. Replace!Leave(w)
    BY <1>7, <2>2 DEF Replace!Leave, ToldOf, ResultOf, Leaves
  <2> QED
    BY <1>1, <2>3 DEF Replace!Next
<1>8. CASE Passes(w)
  <2>1. R' = R
    BY <1>3, <1>4, <1>8 DEF Passes, Ended, ToldOf, ResultOf
  <2> QED
    BY <1>8, <2>1 DEF Passes, Replace!fileVars, ToldOf, ResultOf
<1> QED
  BY <1>2, <1>6, <1>7, <1>8

(* Of every command: its exit status is success if and only if it replaced  *)
(* its output file, in one step and by all of its output; otherwise the     *)
(* file is as it was or as another writer left it (main.rs 101-105,         *)
(* writer.rs 61-62).                                                        *)
THEOREM StatusTellsTruly == SpecRun => StatusTellsOfTheFile
<1>1. InitRun => Replace!Init
  BY FwfResultIs DEF InitRun, Init, Replace!Init, Ended
<1>2. ASSUME CInv, CInv', [NextRun]_<<vars, runVars>>
      PROVE  [Replace!Next]_(Replace!fileVars)
  <2>1. CASE UNCHANGED <<vars, runVars>>
    BY <2>1 DEF vars, runVars, Replace!fileVars, FwfResult
  <2> QED
    BY <1>2, <2>1, CommandTells, OthersTell
<1> QED
  BY <1>1, <1>2, RunInvariance, PTL DEF SpecRun, StatusTellsOfTheFile, Replace!Spec

==============================================================================
