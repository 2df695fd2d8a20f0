---------------------------- MODULE MCBatchTally ----------------------------
(* Batches of three and two rows, identifiers 0..2 and 5..6, residues       *)
(* modulo 7, chunks of two rows and a float of four bits: two residues sum  *)
(* to at most 12 < 2^4, while three of batch 1 reach 17 and would round.    *)
EXTENDS BatchTally

MCRowCount == [b \in Batches |-> IF b = 0 THEN 3 ELSE 2]
=============================================================================
