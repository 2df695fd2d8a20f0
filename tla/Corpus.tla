-------------------------------- MODULE Corpus --------------------------------
(***************************************************************************)
(* How a corpus comes to be in the object store: generator pods write the  *)
(* batches and metadata of a shard (corpus/generate.py), a merge assembles *)
(* the shards (corpus/merge.py), gen-corpus.sh drives both as Jobs, and    *)
(* consumers read the result (corpus/metadata.py).                         *)
(*                                                                         *)
(* All is about one preset, whose name and hash name the directory below   *)
(* every root. A variant is what else decides the bytes of a batch: seed,  *)
(* compression level and generator version. A pod may fail at any write,   *)
(* be it lost or stopped by a check; Job pods are not restarted, but go on *)
(* for a while after their Job was deleted or its script gave up.          *)
(***************************************************************************)
EXTENDS Integers, FiniteSets, Sequences

CONSTANTS
  NBatches,   \* batch_count of the preset
  Variants,   \* the seeds corpora are generated from
  ShardCounts,\* values of --shards
  MaxGens,    \* bound: times gen-corpus.sh is started
  MaxByHand,  \* bound: times merge-corpus is started by hand
  None        \* no batch, no seed

VARIABLES
  store,     \* directory -> its files
  pods,      \* generator pods that exist
  merges,    \* merge-corpus processes, in the order they were started
  generation \* the current gen-corpus.sh

corpusVars == <<store, pods, merges, generation>>

Batches == 0 .. NBatches - 1

-----------------------------------------------------------------------------
(* Directories: the corpus root itself, and one below shards/ per index.   *)
Whole == -1
Dirs  == {Whole} \cup UNION {0 .. c - 1 : c \in ShardCounts \ {1}}

DirOf(index, count)     == IF count = 1 THEN Whole ELSE index

(* A file of metadata is the set of its contents, empty if it is not there.*)
EmptyDir == [batches |-> [b \in Batches |-> None], manifest |-> {}, figures |-> {}, corpus |-> {}]

Select(index, count) == {b \in Batches : b % count = index}

(* What manifest.jsonl, the figures and corpus.json can say.               *)
AnyRecords    == SUBSET [batch : Batches, dir : Dirs, variant : Variants]
AnyCorpusJson == [variant : Variants, index : Nat, count : Nat, records : AnyRecords]

ASSUME CorpusAssumption ==
  /\ NBatches \in Nat \ {0} /\ {MaxGens, MaxByHand} \subseteq Nat
  /\ ShardCounts \subseteq Nat \ {0}
  /\ None \notin Variants

(* The records of a manifest name a batch's directory and, by its sha256,  *)
(* its bytes. The truth and statistics of the rows of a batch are          *)
(* represented by the same record in the figures.                          *)
Records(p) == {[batch |-> b, dir |-> DirOf(p.index, p.count), variant |-> p.variant] :
                 b \in Select(p.index, p.count)}

(* generate writes the batches one after another, each with its key        *)
(* sidecars, then manifest.jsonl, the schema, truth and statistics, and    *)
(* corpus.json last.  By the mutant, manifest and corpus.json come first.  *)
MetadataFirst == <<"manifest", "corpus", "batches", "figures">>
WriteOrder    == <<"batches", "manifest", "figures", "corpus">>

WriteBatch(files, b, variant) == [files EXCEPT !.batches[b] = variant]

CorpusJson(variant, index, count, records) ==
  [variant |-> variant, index |-> index, count |-> count, records |-> records]

Written(files, p, file) ==
  CASE file = "batches"  -> files
    [] file = "manifest" -> [files EXCEPT !.manifest = {Records(p)}]
    [] file = "figures"  -> [files EXCEPT !.figures = {Records(p)}]
    [] file = "corpus"   -> [files EXCEPT !.corpus = {CorpusJson(p.variant, p.index, p.count, Records(p))}]

-----------------------------------------------------------------------------
(* metadata.read and read_manifest: a whole corpus whose manifest has each *)
(* batch once. Nothing compares manifest.jsonl with the corpus.json.       *)
Covers(records) == Cardinality(records) = NBatches /\ {r.batch : r \in records} = Batches

Readable(d) ==
  /\ \E meta \in store[d].corpus : meta.count = 1
  /\ \E records \in store[d].manifest : Covers(records)

Stored(records) == \A r \in records : store[r.dir].batches[r.batch] = r.variant

(* What a generation that was not interrupted leaves in its directory.     *)
Complete(d) ==
  \E meta \in store[d].corpus :
    /\ store[d].manifest = {meta.records} /\ store[d].figures = {meta.records}
    /\ \A r \in meta.records : r.variant = meta.variant
    /\ Stored(meta.records)

-----------------------------------------------------------------------------
CorpusInit ==
  /\ store = [d \in Dirs |-> EmptyDir]
  /\ pods = {} /\ merges = <<>>
  /\ generation = [gen |-> 0, pc |-> "none", variant |-> None, count |-> 1, alone |-> TRUE,
               used |-> {}]

Live == \E p \in pods : p.state = "running"
Merging == \E m \in DOMAIN merges : merges[m].pc \notin {"done", "failed"}

(* gen-corpus.sh deletes the Job of an earlier one of the preset and       *)
(* creates its own, a pod per shard.                                       *)
Generate(variant, count) ==
  /\ generation.pc \in {"none", "done", "died"} /\ generation.gen < MaxGens
  /\ generation' = [gen |-> generation.gen + 1, pc |-> "generating", variant |-> variant, count |-> count,
                alone |-> ~Live /\ ~Merging, used |-> generation.used \cup {variant}]
  /\ pods' = {p \in pods : p.state = "running"} \cup
             {[gen |-> generation.gen + 1, index |-> i, variant |-> variant, count |-> count,
               at |-> 1, todo |-> Select(i, count), state |-> "running"] : i \in 0 .. count - 1}
  /\ merges' = [m \in DOMAIN merges |-> [merges[m] EXCEPT !.clean = FALSE]]
  /\ UNCHANGED store

Becomes(p, q) == pods' = (pods \ {p}) \cup {q}

PastBatch(p, b) == [p EXCEPT !.todo = @ \ {b}, !.at = IF p.todo = {b} THEN @ + 1 ELSE @]
PastFile(p)     == [p EXCEPT !.at = @ + 1, !.state = IF p.at = Len(WriteOrder) THEN "done" ELSE @]

PodWritesBatch(p) ==
  /\ p.state = "running" /\ WriteOrder[p.at] = "batches"
  /\ \E b \in p.todo :
       /\ \A c \in p.todo : b <= c
       /\ store' = [store EXCEPT ![DirOf(p.index, p.count)] = WriteBatch(@, b, p.variant)]
       /\ Becomes(p, PastBatch(p, b))
  /\ UNCHANGED <<merges, generation>>

(* Past the last batch, or without any, the next file.                     *)
PodWrites(p) ==
  /\ p.state = "running" /\ (WriteOrder[p.at] = "batches" => p.todo = {})
  /\ store' = [store EXCEPT ![DirOf(p.index, p.count)] = Written(@, p, WriteOrder[p.at])]
  /\ Becomes(p, PastFile(p))
  /\ UNCHANGED <<merges, generation>>

PodFails(p) ==
  /\ p.state = "running"
  /\ Becomes(p, [p EXCEPT !.state = "failed"])
  /\ UNCHANGED <<store, merges, generation>>

JobPods == {p \in pods : p.gen = generation.gen}

Merge(dirs, byHand) ==
  merges' = Append([m \in DOMAIN merges |-> [merges[m] EXCEPT !.clean = FALSE]],
                   [pc |-> "corpus", at |-> 1, dirs |-> dirs, metas |-> <<>>,
                    records |-> {}, figures |-> {}, byHand |-> byHand,
                    clean |-> ~Live /\ ~Merging /\ \A i \in DOMAIN dirs : Complete(dirs[i])])

Printed == [generation EXCEPT !.pc = "done"]

(* The Job is complete: print the URI of the log, or go on to merge when   *)
(* every shard has a corpus.json.                                          *)
JobComplete ==
  /\ generation.pc = "generating" /\ \A p \in JobPods : p.state = "done"
  /\ IF generation.count = 1
     THEN /\ generation' = Printed
          /\ UNCHANGED merges
     ELSE /\ \A i \in 0 .. generation.count - 1 : store[i].corpus # {}
          /\ generation' = [generation EXCEPT !.pc = "merging"]
          /\ Merge([i \in 1 .. generation.count |-> i - 1], FALSE)
  /\ UNCHANGED <<store, pods>>

MergeComplete ==
  /\ generation.pc = "merging" /\ merges[Len(merges)].pc = "done"
  /\ generation' = Printed
  /\ UNCHANGED <<store, pods, merges>>

(* A Job has failed, a wait timed out, or the operator stopped the script. *)
Dies ==
  /\ generation.pc \in {"generating", "merging"}
  /\ generation' = [generation EXCEPT !.pc = "died"]
  /\ UNCHANGED <<store, pods, merges>>

(* An operator merges some shard directories, in any order.                *)
MergeByHand(dirs) ==
  /\ generation.pc \in {"done", "died"}
  /\ Cardinality({m \in DOMAIN merges : merges[m].byHand}) < MaxByHand
  /\ Merge(dirs, TRUE)
  /\ generation' = [generation EXCEPT !.alone = FALSE]
  /\ UNCHANGED <<store, pods>>

-----------------------------------------------------------------------------
(* merge reads the corpus.json of every shard and compares them, then the  *)
(* manifests, then truth and statistics, a file at a time.                 *)
(* What shards have to agree on; by the mutant, nothing.                   *)
NothingAgreed(metas) == TRUE
Agreed(metas) == \A i \in DOMAIN metas : metas[i].variant = metas[1].variant

AllIndices(metas) ==
  \A k \in 0 .. metas[1].count - 1 : \E i \in DOMAIN metas : metas[i].index = k

Accepts(metas) == Agreed(metas) /\ Len(metas) = metas[1].count /\ AllIndices(metas)

NextFile(m) ==
  IF m.at < Len(m.dirs) THEN [m EXCEPT !.at = @ + 1]
  ELSE [m EXCEPT !.at = 1, !.pc = CASE @ = "corpus"   -> IF Accepts(m.metas) THEN "manifest" ELSE "failed"
                                    [] @ = "manifest" -> IF Covers(m.records) THEN "figures" ELSE "failed"
                                    [] OTHER          -> "write manifest"]

MergeReads(k) ==
  LET m     == merges[k]
      files == store[m.dirs[m.at]]
  IN  /\ \/ /\ m.pc = "corpus"
            /\ \E meta \in files.corpus :
                 merges' = [merges EXCEPT ![k] = NextFile([m EXCEPT !.metas = Append(@, meta)])]
         \/ /\ m.pc = "manifest"
            /\ \E rs \in files.manifest :
                 merges' = [merges EXCEPT ![k] = NextFile([m EXCEPT !.records = @ \cup rs])]
         \/ /\ m.pc = "figures"
            /\ \E rs \in files.figures :
                 merges' = [merges EXCEPT ![k] = NextFile([m EXCEPT !.figures = @ \cup rs])]
      /\ UNCHANGED <<store, pods, generation>>

(* Past the gates it writes its own manifest, figures and corpus.json; the *)
(* batches stay in the shards' directories.                                *)
MergeWrites(k) ==
  LET m == merges[k] IN
    /\ \/ /\ m.pc = "write manifest"
          /\ store' = [store EXCEPT ![Whole].manifest = {m.records}]
          /\ merges' = [merges EXCEPT ![k].pc = "write figures"]
       \/ /\ m.pc = "write figures"
          /\ store' = [store EXCEPT ![Whole].figures = {m.figures}]
          /\ merges' = [merges EXCEPT ![k].pc = "write corpus"]
       \/ /\ m.pc = "write corpus"
          /\ store' = [store EXCEPT ![Whole].corpus = {CorpusJson(m.metas[1].variant, 0, 1, m.records)}]
          /\ merges' = [merges EXCEPT ![k].pc = "done"]
    /\ UNCHANGED <<pods, generation>>

(* A file is missing, a gate rejects the corpus, or the process is lost.   *)
MergeFails(k) ==
  /\ merges[k].pc \notin {"done", "failed"}
  /\ merges' = [merges EXCEPT ![k].pc = "failed"]
  /\ UNCHANGED <<store, pods, generation>>

ProcessStep ==
  \/ \E p \in pods : PodWritesBatch(p) \/ PodWrites(p) \/ PodFails(p)
  \/ JobComplete \/ MergeComplete \/ Dies
  \/ \E k \in DOMAIN merges : MergeReads(k) \/ MergeWrites(k) \/ MergeFails(k)

CorpusNext ==
  \/ \E v \in Variants, c \in ShardCounts : Generate(v, c)
  \/ \E n \in ShardCounts : \E dirs \in [1 .. n -> Dirs] : MergeByHand(dirs)
  \/ ProcessStep

CorpusSpec == CorpusInit /\ [][CorpusNext]_corpusVars
-----------------------------------------------------------------------------

(* The preset was generated from one seed so far.                          *)
OneVariant == \A u, v \in generation.used : u = v

(* As long as a preset is generated from one seed, a corpus that can be    *)
(* read is whole: its manifest has every batch once, and each file it      *)
(* names is there with the bytes it says. This holds in every interrupted, *)
(* repeated, or differently sharded generation, with pods of earlier Jobs  *)
(* still writing, for any merge: because corpus.json is written last.      *)
ReadableIsWhole == OneVariant /\ Readable(Whole) => \A records \in store[Whole].manifest : Stored(records)

(* When gen-corpus.sh prints its URI, and no process of an earlier one was *)
(* alive when it started, the corpus there is of its seed, and corpus.json,*)
(* manifest, figures and batches agree: nothing that earlier generations   *)
(* left behind, complete or interrupted, of any seed or shard count, is    *)
(* taken for part of it.                                                   *)
PrintedIsWhole ==
  generation.pc = "done" /\ generation.alone =>
    /\ Readable(Whole) /\ Complete(Whole)
    /\ \A meta \in store[Whole].corpus : meta.variant = generation.variant

(* A corpus that can be read, and one whose URI gen-corpus.sh prints, is   *)
(* whole, although generations were interrupted and repeated before it     *)
(* (generate.py, merge.py, gen-corpus.sh).                                 *)
CorpusIsWhole == ReadableIsWhole /\ PrintedIsWhole

(* A merge of directories that each hold a complete generation, alone in   *)
(* the store, publishes nothing but a complete corpus of one seed: shards  *)
(* of different generations, sharded alike or not, a shard missing or      *)
(* given twice are rejected (merge.py).                                    *)
MergedIsOneGeneration ==
  \A k \in DOMAIN merges :
    merges[k].clean /\ merges[k].pc = "done" => Readable(Whole) /\ Complete(Whole)

=============================================================================
