----------------------------- MODULE MCZipMember -----------------------------
(***************************************************************************)
(* Archives of a directory, a member and perhaps another file.  The        *)
(* member's data are up to MaxLen bytes of which the header may be wrong   *)
(* in its size or its CRC-32, or in both.                                  *)
(***************************************************************************)
EXTENDS ZipMember

CONSTANTS Zero, One, MaxLen, MaxBlock

(* Told apart by few values, so that unequal bytes often share one.         *)
Parity(bytes) == Len(SelectSeq(bytes, LAMBDA b : b = One)) % 2

(* A file, or a directory, of no bytes, with what else may ail it.          *)
Empty(name, directory, encrypted, inside, method) ==
    [name |-> name, directory |-> directory, encrypted |-> encrypted,
     inside |-> inside, broken |-> FALSE, method |-> method,
     decoded |-> <<>>, size |-> 0, crc |-> 0]

Folder == Empty("d/", TRUE, FALSE, TRUE, 0)
Other == Empty("b", FALSE, FALSE, TRUE, 0)

Archive(m) == <<Folder, m>>

Data == [name      : {"a"},   directory : {FALSE},
         encrypted : {FALSE}, inside    : {TRUE},
         broken    : BOOLEAN, method    : {0, 8},
         decoded   : BoundedSeq({Zero, One}, MaxLen),
         size      : 0 .. MaxLen, crc   : {0, 1}]

Ailing == {Empty("a", FALSE, e, i, n) : e \in BOOLEAN, i \in BOOLEAN, n \in {9, 14}}

MCJobs ==
    [index : {Archive(m) : m \in {d \in Data : d.broken => d.method = 8}},
     entry : {NoEntry}, size : 1 .. MaxBlock]
    \cup
    [index : {Archive(m) : m \in Ailing}
             \cup {Append(Archive(Other), Empty("a", FALSE, FALSE, TRUE, 8))},
     entry : {NoEntry, "a", "d/"}, size : {1}]
==============================================================================
