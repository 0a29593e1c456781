------------------------------ MODULE MCBothWays ------------------------------
(***************************************************************************)
(* Every unit of up to MaxLen of the bytes that matter, with every size    *)
(* that divides it and the largest there is.                               *)
(***************************************************************************)
EXTENDS BothWays

CONSTANTS MaxLen, MaxSize, MaxSkip, MaxRows

MCJobs == [unit     : BoundedSeq(Bytes, MaxLen),
           broken   : BOOLEAN,
           size     : 1 .. MaxSize \cup {UsizeMax},
           skipRows : 0 .. MaxSkip,
           nRows    : 0 .. MaxRows \cup {NoLimit}]
==============================================================================
