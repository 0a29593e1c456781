----------------------------- MODULE MCOpenUnit -----------------------------
(***************************************************************************)
(* Locations of every kind that hold up to MaxLen bytes that begin, or     *)
(* nearly begin, as a zip, a gzip file or neither.                         *)
(***************************************************************************)
EXTENDS OpenUnit

CONSTANTS P, K, B3, B4, X1F, X8B, MaxLen

MCZipHead == <<P, K, B3, B4>>
MCGzipHead == <<X1F, X8B>>

Wholes == {<<P, K, B3, B4, P, K>>, <<P, K, B3, P, K, B4>>, <<X1F, X8B, P, X8B, X1F, K>>,
           <<X1F, P, X8B, K, B3, B4>>, <<X8B, X1F, P, K, B3, B4>>}

MCJobs == [source    : {"file", "pipe", "bytes", "reader"},
           raw       : {SubSeq(w, 1, n) : w \in Wholes, n \in 0 .. MaxLen},
           container : {"auto", "plain", "gzip", "zip"}]
==============================================================================
