--------------------------- MODULE MCParquetOutput ---------------------------
(***************************************************************************)
(* Every sequence of up to MaxWrites writes, smaller and larger than the   *)
(* format writer's buffer.                                                 *)
(***************************************************************************)
EXTENDS ParquetOutput

CONSTANT MaxWrites

MCJobs == [sizes  : BoundedSeq(1 .. Inner + 1, MaxWrites),
           ending : {"end", "parseError", "formatError"}]
==============================================================================
