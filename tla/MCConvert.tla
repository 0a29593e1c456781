------------------------------ MODULE MCConvert ------------------------------
(***************************************************************************)
(* Every command line that matters, on inputs of up to MaxBatches batches. *)
(***************************************************************************)
EXTENDS Convert

CONSTANT MaxBatches

Writes == [batches : BoundedSeq({"good"}, MaxBatches),
           ending  : {"end", "parseError"}]

MCJobs == {j \in [format : {"csv", "parquet", "none"}, parquetName : BOOLEAN,
                  toStdout : BOOLEAN, terminal : BOOLEAN, force : BOOLEAN,
                  layoutGood : BOOLEAN, inputOpens : BOOLEAN, write : Writes] :
              j.toStdout => ~j.parquetName}
==============================================================================
