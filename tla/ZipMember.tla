------------------------------ MODULE ZipMember ------------------------------
(***************************************************************************)
(* How a zip's member is read: zip::member chooses it and looks at its     *)
(* headers; a stored one is checked and handed on as it is, a compressed   *)
(* one is decoded as it is read, and Checked compares its size and CRC-32  *)
(* with the header's when the decoder is at its end.  The parser reads it  *)
(* a block at a time, and may stop once it has the rows it wants.          *)
(***************************************************************************)
EXTENDS Naturals, SequencesExt

CONSTANTS Bytes,
          Crc(_),      (* the CRC-32 of some bytes; others may share it      *)
          NoEntry,     (* an entry that was not asked for                    *)
          Jobs         (* the reads considered: the index, the entry, and    *)
                       (* the block size                                     *)

(* The decoder gives `decoded`, and then ends or, if the data is broken,    *)
(* fails.  `inside` is whether the member's data is within the archive.     *)
ASSUME ZipAssumption ==
    \A j \in Jobs :
        /\ j.size \in Nat \ {0}
        /\ Len(j.index) \in Nat /\ DOMAIN j.index = 1 .. Len(j.index)
        /\ \A i \in DOMAIN j.index :
               LET m == j.index[i]
               IN  /\ {m.directory, m.encrypted, m.inside, m.broken} \subseteq BOOLEAN
                   /\ m.method \in Nat
                   /\ m.decoded \in Seq(Bytes)
                   /\ m.size \in Nat

VARIABLES job,       (* the read: never changes                              *)
          pc,        (* where member, or then the parser's read, is          *)
          chosen,    (* the member's place in the index, 0 before            *)
          got,       (* the parser's: how many bytes of its block it has     *)
          hashed     (* Checked's: the bytes it has read and hashed          *)

vars == <<job, pc, chosen, got, hashed>>

Init == /\ job \in Jobs
        /\ pc = "index"
        /\ chosen = 0
        /\ got = 0
        /\ hashed = <<>>

Member == job.index[chosen]

Goto(where) == pc' = where /\ UNCHANGED <<job, chosen, got, hashed>>

------------------------------------------------------------------------------
Files == {i \in DOMAIN job.index : ~job.index[i].directory}

(* The file of the name asked for, or else the only one.                    *)
Chosen == IF job.entry = NoEntry THEN Files
          ELSE {i \in Files : job.index[i].name = job.entry}

Choose == /\ pc = "index"
          /\ \E i \in Chosen : Chosen = {i} /\ chosen' = i
          /\ pc' = "header"
          /\ UNCHANGED <<job, got, hashed>>

ChooseNone == /\ pc = "index"
              /\ \A i \in Chosen : Chosen # {i}
              /\ Goto("failed")

(* The index, or the member's own header, cannot be read.                   *)
IndexFails == pc = "index" /\ Goto("failed")

Readable == ~Member.encrypted /\ Member.inside /\ Member.method \in {0, 8, 9}

Reject == pc = "header" /\ ~Readable /\ Goto("failed")

StoredMatches == Crc(Member.decoded) = Member.crc

(* A stored member is hashed at once.                                       *)
OpenStored == /\ pc = "header" /\ Readable /\ Member.method = 0
              /\ Goto(IF StoredMatches THEN "whole" ELSE "failed")

OpenCompressed == /\ pc = "header" /\ Readable /\ Member.method # 0
                  /\ Goto("read")

------------------------------------------------------------------------------
Left == Len(Member.decoded) - Len(hashed)

(* What is still asked for of the block.                                    *)
Asked == job.size - got

(* Checked::read passes on what the decoder gives, at most what is asked.   *)
Read == /\ pc = "read" /\ got < job.size
        /\ \E n \in 1 .. Asked :
               /\ n <= Left
               /\ got' = got + n
               /\ hashed' = hashed \o SubSeq(Member.decoded, Len(hashed) + 1,
                                             Len(hashed) + n)
        /\ UNCHANGED <<job, pc, chosen>>

\* Mutated: the CRC-32 alone is compared.
CrcMatches == Crc(hashed) = Member.crc

Matches == Len(hashed) = Member.size /\ Crc(hashed) = Member.crc

\* Mutated: the end is told from the bytes left, not from an empty read.
DecoderAtEndEarly == Left <= 1 /\ ~Member.broken

DecoderAtEnd == Left = 0 /\ ~Member.broken

(* The decoder gives nothing more: the block is short, so the parser's last,*)
(* unless the check fails the read.                                         *)
ReadEnd == /\ pc = "read" /\ got < job.size
           /\ DecoderAtEnd
           /\ Goto(IF Matches THEN "whole" ELSE "failed")

DecoderFails == /\ pc = "read" /\ got < job.size
                /\ Left = 0 /\ Member.broken
                /\ Goto("failed")

(* The block is full: the parser goes on to the next, or has its rows.      *)
NextBlock == /\ pc = "read" /\ got = job.size
             /\ got' = 0
             /\ UNCHANGED <<job, pc, chosen, hashed>>

HasItsRows == pc = "read" /\ got = job.size /\ Goto("stopped")

Next == \/ Choose \/ ChooseNone \/ IndexFails \/ Reject \/ OpenStored \/ OpenCompressed
        \/ Read \/ ReadEnd \/ DecoderFails \/ NextBlock \/ HasItsRows

Spec == Init /\ [][Next]_vars
------------------------------------------------------------------------------
TypeInvariant ==
    /\ job \in Jobs
    /\ pc \in {"index", "header", "read", "whole", "stopped", "failed"}
    /\ chosen \in 0 .. Len(job.index)
    /\ got \in 0 .. job.size
    /\ chosen # 0 => IsPrefix(hashed, Member.decoded)

(* A member is taken for read whole only if its CRC-32 is the header's and, *)
(* if it is compressed, its size is too and every byte of it was read, also *)
(* when it ends where a block does (input/zip.rs 61, 110-123).              *)
WholeIsAsRecorded ==
    pc = "whole" =>
        /\ Crc(Member.decoded) = Member.crc
        /\ Member.method # 0 => /\ hashed = Member.decoded
                                /\ Len(Member.decoded) = Member.size

(* A member that is as its header says never fails: the check has no false  *)
(* alarm, however the reads fall (input/zip.rs 46-79, 110-123).             *)
IntactIsRead ==
    pc = "failed" /\ chosen # 0 =>
        \/ ~Readable \/ Member.broken
        \/ Len(Member.decoded) # Member.size \/ Crc(Member.decoded) # Member.crc

(* "Data that fails its size or CRC-32 is an Io error" (docs/design.md:212; *)
(* input/zip.rs 61 compares a stored member's CRC-32 alone).                *)
WrongSizeFails == pc = "whole" => Len(Member.decoded) = Member.size
==============================================================================
