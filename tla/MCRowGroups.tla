----------------------------- MODULE MCRowGroups -----------------------------
(***************************************************************************)
(* Every source of up to three batches, so of one or two waves, of up to   *)
(* MaxBatch rows, which can be more than two groups' worth.                *)
(***************************************************************************)
EXTENDS RowGroups

CONSTANT MaxBatch

Sizes == 0 .. MaxBatch

MCJobs == [ends   : {<<>>} \cup {<<a>> : a \in Sizes}
                    \cup {<<a, a + b>> : a, b \in Sizes}
                    \cup {<<a, a + b, a + b + c>> : a, b, c \in Sizes},
           ending : {"end", "parseError"}]
==============================================================================
