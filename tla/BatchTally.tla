------------------------------ MODULE BatchTally ------------------------------
(***************************************************************************)
(* The incremental tally (ingest_bench/scorer/tally.py): per batch a row   *)
(* count and a sum of identifier residues modulo P, updated chunk by chunk *)
(* as data files are read, and a prefix that is only ever advanced.        *)
(*                                                                         *)
(* A file is a sequence of row identifiers in which a row may repeat. The  *)
(* weighted count of a chunk is summed in a float with Mantissa bits, so a *)
(* sum of 2^Mantissa or more loses its last bit.                           *)
(***************************************************************************)
EXTENDS Tally, SequencesExt

CONSTANTS
  Mantissa,   \* bits of the float64 weighted count (53 in the program)
  ChunkRows,  \* _CHUNK_ROWS
  MaxRows,    \* bound: rows in a file
  MaxTotal    \* bound: rows in all files

ASSUME BatchTallyAssumption ==
  /\ Mantissa \in Nat /\ ChunkRows \in Nat \ {0}
  /\ MaxRows \in Nat /\ MaxTotal \in Nat
  /\ ChunkRows * (P - 1) < 2^Mantissa

VARIABLES
  counts, sum_mod,  \* per batch
  prefix,           \* _prefix
  refused,          \* whether the last file was refused with an error
  ledger            \* history: every row added, as often as it was added

tallyVars == <<counts, sum_mod, prefix, refused, ledger>>

(* Identifiers a table can hold: those of the corpus and one beyond it.    *)
Stray    == <<NBatches, 1>>
TableIds == RowIds \cup {Stray}

TallyInit ==
  /\ counts   = [b \in Batches |-> 0]
  /\ sum_mod  = [b \in Batches |-> 0]
  /\ prefix   = -1
  /\ refused  = FALSE
  /\ ledger   = EmptyLedger

(* A float sum: exact below 2^Mantissa, even above it.                     *)
Rounded(x) == IF x < 2^Mantissa THEN x ELSE 2 * (x \div 2)

(* bincount over one chunk, and its weights added and reduced.             *)
InBatch(chunk, b) == {i \in DOMAIN chunk : BatchOf(chunk[i]) = b}
Residues(chunk) == [i \in DOMAIN chunk |-> IdOf(chunk[i]) % P]
CountChunk(cs, chunk) == [b \in Batches |-> cs[b] + Cardinality(InBatch(chunk, b))]
SumChunk(sums, chunk) ==
  [b \in Batches |->
    (sums[b] + Rounded(SumFunctionOnSet(Residues(chunk), InBatch(chunk, b)))) % P]

(* A file is taken in slices of ChunkRows, each the part of the file at    *)
(* its positions; by the mutant, in one piece.                             *)
Slice(ids, i) == {k \in DOMAIN ids : (i - 1) * ChunkRows < k /\ k <= i * ChunkRows}
WholeFile(ids) == <<ids>>
Chunks(ids) ==
  [i \in 1 .. (Len(ids) + ChunkRows - 1) \div ChunkRows |-> Restrict(ids, Slice(ids, i))]

(* The while loop: the prefix moves over every batch the counts now cover. *)
Advanced(from, cs) ==
  CHOOSE k \in from .. NBatches - 1 :
    /\ \A b \in from + 1 .. k : cs[b] >= RowCount[b]
    /\ k + 1 \in Batches => cs[k + 1] < RowCount[k + 1]

AddIds(ids) ==
  /\ \A i \in DOMAIN ids : BatchOf(ids[i]) \in Batches
  /\ counts'  = FoldLeft(CountChunk, counts, Chunks(ids))
  /\ sum_mod' = FoldLeft(SumChunk, sum_mod, Chunks(ids))
  /\ prefix'  = Advanced(prefix, counts')
  /\ ledger'  = [r \in RowIds |-> ledger[r] + Cardinality({i \in DOMAIN ids : ids[i] = r})]
  /\ refused' = FALSE

(* An identifier outside the manifest raises before anything is counted.   *)
RejectIds(ids) ==
  /\ \E i \in DOMAIN ids : BatchOf(ids[i]) \notin Batches
  /\ refused' = TRUE
  /\ UNCHANGED <<counts, sum_mod, prefix, ledger>>

TallyNext ==
  \E ids \in BoundedSeq(TableIds, MaxRows) :
    /\ SumFunction(ledger) + Len(ids) <= MaxTotal
    /\ AddIds(ids) \/ RejectIds(ids)

TallySpec == TallyInit /\ [][TallyNext]_tallyVars
-----------------------------------------------------------------------------

(* complete; a mutant of it goes by the count alone.                       *)
completeByCount(b) == counts[b] = RowCount[b]
complete(b) == counts[b] = RowCount[b] /\ sum_mod[b] = ExpectedChecksum(b)

(* The counts, checksums and prefix kept incrementally are those of the    *)
(* rows read so far: chunking, the float sums and the advancing loop lose  *)
(* nothing, a refused file leaves no trace, and the order of files is      *)
(* irrelevant (add_ids).                                                   *)
MatchesLedger ==
  /\ \A b \in Batches : /\ counts[b]  = Count(ledger, b)
                        /\ sum_mod[b] = Checksum(ledger, b)
  /\ prefix = CoveredPrefix(ledger)

(* A batch in which one row is missing and another came twice has the      *)
(* right count, and the checksum still tells it from a complete batch      *)
(* (complete, violations). Several substitutions may cancel.               *)
SubstitutionDetected ==
  \A b \in Batches : complete(b) =>
    ~\E lost, twice \in RowsOf(b) :
       /\ ledger[lost] = 0 /\ ledger[twice] = 2
       /\ \A r \in RowsOf(b) \ {lost, twice} : ledger[r] = 1

(* Losses and duplicates of different batches never cancel: the verdict    *)
(* over any set of offered batches is exact only if none of them lost or   *)
(* duplicated a row or is corrupt (exactness_result).                      *)
ExactMeansNoFault ==
  \A offered \in SUBSET Batches :
    Exact(ledger, offered) <=>
      /\ LossRows(ledger, offered) = 0
      /\ DuplicateRows(ledger, offered) = 0
      /\ CorruptBatches(ledger, offered) = {}
=============================================================================
