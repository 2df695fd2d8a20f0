------------------------------- MODULE Replay -------------------------------
(***************************************************************************)
(* What a run replays: a corpus of batches, of which the first NOffered    *)
(* fall inside the replay's time limit, sent by NShards producer shards.   *)
(* A row is named by its batch and its position in the batch, as the row   *)
(* identifiers of the corpus are (batch * ID_BLOCK + position).            *)
(***************************************************************************)
EXTENDS Integers, FiniteSets

CONSTANTS
  NShards,   \* producer shards of the Indexed Job
  NBatches,  \* batches in the corpus manifest
  NOffered,  \* batches whose offset is under --seconds (all of them without it)
  RowCount   \* rows of each batch, from the manifest

Shards  == 0 .. NShards - 1
Batches == 0 .. NBatches - 1

ASSUME ReplayAssumption ==
  /\ NShards  \in Nat \ {0}
  /\ NBatches \in Nat \ {0}
  /\ NOffered \in 0 .. NBatches
  /\ RowCount \in [Batches -> Nat \ {0}]

(* The row identifiers of a batch, and of the whole corpus. *)
RowsOf(b) == {b} \X (1 .. RowCount[b])
RowIds    == UNION {RowsOf(b) : b \in Batches}
BatchOf(r) == r[1]

(* The batches the replay offers: offsets ascend with the batch number, so *)
(* the time limit cuts the corpus after some batch.                        *)
Offered == 0 .. NOffered - 1

(* Mutants of Selected: the batch after the last is selected too; the      *)
(* stride is one short, so that shards share batches.                      *)
SelectedPastEnd(s)  == {b \in 0 .. NBatches : b % NShards = s}
SelectedOverlaps(s) == {b \in Offered : b >= s /\ (b - s) % NShards \in {0, 1}}

(* select_batches: every NShards-th offered batch goes to the same shard.  *)
Selected(s) == {b \in Offered : b % NShards = s}

(* One line of a publish log, reduced to what the scorer reads of it: the  *)
(* batch, whether a delivery of it failed, and whether its first           *)
(* acknowledgement came later than behind_max_ms after its due time.       *)
Record == [batch : Batches, errors : BOOLEAN, late : BOOLEAN]

(* A publish log: its batch records and whether its last line is the       *)
(* completion trailer. Records carry distinct batches and are only ever    *)
(* appended before the trailer, so the set and the flag determine the file.*)
Log      == [recs : SUBSET Record, done : BOOLEAN]
EmptyLog == [recs |-> {}, done |-> FALSE]

BatchesIn(recs) == {rec.batch : rec \in recs}

(* What shard s sends before batch b.                                      *)
Before(s, b) == {c \in Selected(s) : c < b}
=============================================================================
