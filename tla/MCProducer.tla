----------------------------- MODULE MCProducer -----------------------------
(* Two shards over three offered batches of a corpus of four: shard 0 sends *)
(* two batches and shard 1 one, so that one log grows by several records.   *)
(* Batch 0 has a row more than the queue holds: its last send has to wait.  *)
EXTENDS Producer

MCRowCount == [b \in Batches |-> IF b = 0 THEN 3 ELSE 1]
=============================================================================
