--------------------------- MODULE MCBatchExtract ---------------------------
(* A pool of two, three accessions and three runs of the command. *)
EXTENDS BatchExtract, TLC

Interchangeable == Permutations(Workers) \union Permutations(Accessions)
=============================================================================
