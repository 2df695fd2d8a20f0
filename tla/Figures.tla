-------------------------------- MODULE Figures --------------------------------
(***************************************************************************)
(* What a corpus says of its rows: the records of its batches, the truth   *)
(* per partition key, the sampled column statistics and the gates on them, *)
(* computed by shards (corpus/generate.py, corpus/stats.py) and put        *)
(* together by a merge (corpus/merge.py).                                  *)
(*                                                                         *)
(* A row has a partition key and a value of one column; the value stands   *)
(* for its bytes, its digest and its encoded size. A row is drawn from     *)
(* seed, batch and position, so that every sharding draws the same ones.   *)
(***************************************************************************)
EXTENDS Integers, FiniteSets, SequencesExt

CONSTANT Plans  \* corpora, and how each is generated

VARIABLES
  plan,     \* the one that is generated
  drawn,    \* batch -> the rows drawn for it so far
  filling,  \* shard -> the batch it is filling
  figures,  \* shard -> its figures
  outcome,  \* shard -> generating, published or rejected
  merged    \* the merge: its figures and outcome

figuresVars == <<plan, drawn, filling, figures, outcome, merged>>

PlanFields ==
  {"batches", "shards", "keys", "values",
   "batchBytes",     \* batch_bytes: the budget of a batch
   "rowBlock",       \* rows drawn at once
   "idBlock",        \* ID_BLOCK: identifiers reserved for a batch
   "modulus",        \* of checksums
   "sketchSize",     \* COLUMN_SKETCH_SIZE
   "stride",         \* column_stats_stride
   "rowsEstimate",   \* rows_per_batch_estimate
   "targetRow",      \* target_row_bytes
   "meanTolerance",  \* the mean row may deviate by one part in this many
   "shareTolerance", \* so may the byte share of a key
   "minColdRows"}    \* PARTITION_SHARE_GATE_MIN_COLD_ROWS

ASSUME FiguresAssumption == Plans \subseteq [PlanFields -> Nat \ {0}]

BatchNumbers == 0 .. plan.batches - 1
ShardNumbers == 0 .. plan.shards - 1
Keys   == 0 .. plan.keys - 1
Values == 1 .. plan.values
Row    == [key : Keys, value : Values]
-----------------------------------------------------------------------------
(* ColumnStats.observe, with the sketch as a set: the digests kept are the *)
(* smallest, and one more than fit is remembered as saturated.             *)
Smallest(set) == {d \in set : Cardinality({e \in set : e < d}) < plan.sketchSize}

EmptyStats == [sampled |-> 0, counts |-> [v \in Values |-> 0], sketch |-> {}, saturated |-> FALSE]

Observe(stats, value) ==
  [sampled   |-> stats.sampled + 1,
   counts    |-> [stats.counts EXCEPT ![value] = @ + 1],
   sketch    |-> Smallest(stats.sketch \cup {value}),
   saturated |-> stats.saturated \/ (value \notin stats.sketch /\ Cardinality(stats.sketch) >= plan.sketchSize)]

(* observe_block: the rows of a block at multiples of the stride, counting *)
(* from the position of its first row in the corpus.                       *)
Offset(start) == (-start) % plan.stride

SampledRows(start) == {i \in 1 .. plan.rowBlock : i > Offset(start) /\ (i - 1 - Offset(start)) % plan.stride = 0}

ObserveBlock(stats, block, start) ==
  FoldLeft(LAMBDA s, i : IF i \in SampledRows(start) THEN Observe(s, block[i].value) ELSE s,
           stats, [i \in 1 .. plan.rowBlock |-> i])

(* ColumnStats.merge; by the mutant, an overflow of the union is not seen. *)
MergeUnsaturated(a, b) ==
  [sampled |-> a.sampled + b.sampled, counts |-> [v \in Values |-> a.counts[v] + b.counts[v]],
   sketch  |-> Smallest(a.sketch \cup b.sketch), saturated |-> a.saturated \/ b.saturated]
MergeStats(a, b) ==
  [sampled   |-> a.sampled + b.sampled,
   counts    |-> [v \in Values |-> a.counts[v] + b.counts[v]],
   sketch    |-> Smallest(a.sketch \cup b.sketch),
   saturated |-> a.saturated \/ b.saturated \/ Cardinality(a.sketch \cup b.sketch) > plan.sketchSize]

-----------------------------------------------------------------------------
(* Identifiers are dense from the start of the batch's block.              *)
RowId(b, i) == b * plan.idBlock + i - 1

KeyRows(rows, k)     == {i \in DOMAIN rows : rows[i].key = k}
RowResidues(b, rows) == [i \in DOMAIN rows |-> RowId(b, i) % plan.modulus]
RowSizes(rows)       == [i \in DOMAIN rows |-> rows[i].value]

(* The truth of a batch, accumulated block by block in fill_batch.         *)
BatchTruth(b, rows) ==
  [k \in Keys |-> [rows    |-> Cardinality(KeyRows(rows, k)),
                   sum     |-> SumFunctionOnSet(RowResidues(b, rows), KeyRows(rows, k)) % plan.modulus,
                   encoded |-> SumFunctionOnSet(RowSizes(rows), KeyRows(rows, k))]]

NoTruth == [k \in Keys |-> [rows |-> 0, sum |-> 0, encoded |-> 0]]

(* _sum_partition_truth, and the sums over the batches of a shard.         *)
AddTruth(a, b) ==
  [k \in Keys |-> [rows    |-> a[k].rows + b[k].rows,
                   sum     |-> (a[k].sum + b[k].sum) % plan.modulus,
                   encoded |-> a[k].encoded + b[k].encoded]]

(* closed_form_checksum                                                    *)
ClosedForm(min, max, rows) == (((min + max) * rows) \div 2) % plan.modulus

BatchRecord(b, rows) ==
  [batch    |-> b, rows |-> Len(rows), checksum |-> ClosedForm(RowId(b, 1), RowId(b, Len(rows)), Len(rows)),
   encoded  |-> SumFunction(RowSizes(rows))]

EmptyFigures == [records |-> {}, truth |-> NoTruth, stats |-> EmptyStats]

AddBatch(f, b, rows) ==
  [f EXCEPT !.records = @ \cup {BatchRecord(b, rows)}, !.truth = AddTruth(@, BatchTruth(b, rows))]

AddShard(f, g) ==
  [records |-> f.records \cup g.records,
   truth   |-> AddTruth(f.truth, g.truth),
   stats   |-> MergeStats(f.stats, g.stats)]

MergedFigures(fs) == FoldLeft(AddShard, EmptyFigures, [s \in 1 .. plan.shards |-> fs[s - 1]])

-----------------------------------------------------------------------------
(* The gates of finalize_corpus_json, on whole numbers. Key k is asked for *)
(* a share in proportion to 1/(k+1) (alpha = 1). The gates on cardinality  *)
(* and entropy are functions of the statistics alone and left out.         *)
KeyWeight(k) == FoldFunction(LAMBDA a, w : a * w, 1, [j \in Keys |-> j + 1]) \div (k + 1)
TotalWeight  == SumFunction([k \in Keys |-> KeyWeight(k)])

RowTotal(f) == SumFunction([r \in f.records |-> r.rows])
Encoded(f)  == SumFunction([r \in f.records |-> r.encoded])
Deviation(a, b) == IF a > b THEN a - b ELSE b - a

MeanDeviates(f) ==
  Deviation(Encoded(f), plan.targetRow * RowTotal(f)) * plan.meanTolerance > plan.targetRow * RowTotal(f)

ShareDeviates(f) ==
  /\ RowTotal(f) * KeyWeight(plan.keys - 1) >= plan.minColdRows * TotalWeight
  /\ \E k \in Keys : Deviation(f.truth[k].encoded * TotalWeight, KeyWeight(k) * Encoded(f)) * plan.shareTolerance
                       > KeyWeight(k) * Encoded(f)

KeyWithoutRows(f) == \E k \in Keys : f.truth[k].rows = 0

CorpusWide(f) == MeanDeviates(f) \/ ShareDeviates(f) \/ KeyWithoutRows(f)

(* A shard does not apply them.                                            *)
Rejected(f, shardCount) == shardCount = 1 /\ CorpusWide(f)

-----------------------------------------------------------------------------
FiguresInit ==
  /\ plan \in Plans
  /\ drawn   = [b \in BatchNumbers |-> <<>>]
  /\ filling = [s \in ShardNumbers |-> s]
  /\ figures = [s \in ShardNumbers |-> EmptyFigures]
  /\ outcome = [s \in ShardNumbers |-> "generating"]
  /\ merged  = [figures |-> EmptyFigures, outcome |-> "none"]

(* fill_batch draws a block and, when the budget is reached, the batch is  *)
(* recorded. A batch that uses up its identifiers stops the shard.         *)
FillBlock(s) ==
  /\ outcome[s] = "generating" /\ filling[s] < plan.batches
  /\ \E block \in [1 .. plan.rowBlock -> Row] :
       LET b     == filling[s]
           rows  == drawn[b] \o block
           start == b * plan.rowsEstimate + Len(drawn[b])
           f     == [figures[s] EXCEPT !.stats = ObserveBlock(@, block, start)]
           full  == SumFunction(RowSizes(rows)) >= plan.batchBytes
       IN  /\ drawn'   = [drawn EXCEPT ![b] = rows]
           /\ outcome' = [outcome EXCEPT ![s] = IF Len(rows) >= plan.idBlock THEN "rejected" ELSE @]
           /\ figures' = [figures EXCEPT ![s] = IF full THEN AddBatch(f, b, rows) ELSE f]
           /\ filling' = [filling EXCEPT ![s] = IF full THEN b + plan.shards ELSE b]
  /\ UNCHANGED <<plan, merged>>

PublishShard(s) ==
  /\ outcome[s] = "generating" /\ filling[s] >= plan.batches
  /\ outcome' = [outcome EXCEPT ![s] = IF Rejected(figures[s], plan.shards) THEN "rejected" ELSE "published"]
  /\ UNCHANGED <<plan, drawn, filling, figures, merged>>

MergeShards ==
  /\ \A s \in ShardNumbers : outcome[s] = "published"
  /\ merged.outcome = "none"
  /\ LET f == MergedFigures(figures) IN
       merged' = [figures |-> f, outcome |-> IF Rejected(f, 1) THEN "rejected" ELSE "published"]
  /\ UNCHANGED <<plan, drawn, filling, figures, outcome>>

FiguresNext == MergeShards \/ \E s \in ShardNumbers : FillBlock(s) \/ PublishShard(s)

FiguresSpec == FiguresInit /\ [][FiguresNext]_figuresVars
-----------------------------------------------------------------------------

(* The sample of an unsharded generation: every row whose position is a    *)
(* multiple of the stride; and the statistics of some rows.                *)
DrawnRows  == UNION {{b} \X DOMAIN drawn[b] : b \in BatchNumbers}
Sample     == {x \in DrawnRows : (x[1] * plan.rowsEstimate + x[2] - 1) % plan.stride = 0}
ValueAt    == [x \in DrawnRows |-> drawn[x[1]][x[2]].value]
StatsOf(values, xs) ==
  [sampled   |-> Cardinality(xs),
   counts    |-> [v \in Values |-> Cardinality({x \in xs : values[x] = v})],
   sketch    |-> Smallest({values[x] : x \in xs}),
   saturated |-> Cardinality({values[x] : x \in xs}) > plan.sketchSize]

(* The statistics of a merged corpus are those of one generated unsharded, *)
(* however its rows are spread over shards and blocks ("Unioning shard     *)
(* sketches retains the same smallest hashes as sampling the complete      *)
(* corpus", stats.py:60): the sample, its counts, the smallest values, and *)
(* whether the distinct values were counted exactly.                       *)
MergedStatsAreTheSample == merged.outcome # "none" => merged.figures.stats = StatsOf(ValueAt, Sample)

(* Truth and manifest of a shard and of a merged corpus agree, although    *)
(* one accumulates residues by key and the other uses the closed form: so  *)
(* generate's comparison of the two, batch by batch, never fails.          *)
TruthIsManifest(f) ==
  /\ SumFunction([k \in Keys |-> f.truth[k].rows]) = RowTotal(f)
  /\ SumFunction([k \in Keys |-> f.truth[k].encoded]) = Encoded(f)
  /\ SumFunction([k \in Keys |-> f.truth[k].sum]) % plan.modulus
       = SumFunction([r \in f.records |-> r.checksum]) % plan.modulus
TruthMatchesManifest == TruthIsManifest(merged.figures) /\ \A s \in ShardNumbers : TruthIsManifest(figures[s])

(* A corpus that passes the gates as a whole is published however it is    *)
(* sharded, and one that fails them is not: a shard may have none of the   *)
(* rows of a key, or wide rows only.                                       *)
TruthOf(truths, bs) ==
  [k \in Keys |-> [rows    |-> SumFunction([b \in bs |-> truths[b][k].rows]),
                   sum     |-> SumFunction([b \in bs |-> truths[b][k].sum]) % plan.modulus,
                   encoded |-> SumFunction([b \in bs |-> truths[b][k].encoded])]]
BatchTruths == [b \in BatchNumbers |-> BatchTruth(b, drawn[b])]
WholeFigures ==
  [records |-> {BatchRecord(b, drawn[b]) : b \in BatchNumbers},
   truth   |-> TruthOf(BatchTruths, BatchNumbers),
   stats   |-> StatsOf(ValueAt, Sample)]
Generated == \A b \in BatchNumbers : \E s \in ShardNumbers : \E r \in figures[s].records : r.batch = b

ShardingDoesNotDecide ==
  Generated /\ (\A b \in BatchNumbers : Len(drawn[b]) < plan.idBlock) =>
    /\ ~CorpusWide(WholeFigures) => merged.outcome # "rejected" /\ \A s \in ShardNumbers : outcome[s] # "rejected"
    /\ CorpusWide(WholeFigures) => merged.outcome # "published"

(* Truth, sampled statistics and gates of a corpus are those of its rows,  *)
(* however it is sharded and its blocks are cut (generate, merge).         *)
FiguresAreTheRows == MergedStatsAreTheSample /\ TruthMatchesManifest /\ ShardingDoesNotDecide
=============================================================================
