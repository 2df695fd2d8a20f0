---------------------------- MODULE CorpusProofs ----------------------------
(***************************************************************************)
(* What a corpus that can be read, printed or merged is, for any number of *)
(* batches, seeds, shards, generations and merges.                         *)
(***************************************************************************)
EXTENDS Corpus, SequenceTheorems, FiniteSetTheorems, FunctionTheorems, TLAPS

Home(p) == DirOf(p.index, p.count)

Files == [batches : [Batches -> Variants \cup {None}], manifest : SUBSET AnyRecords,
          figures : SUBSET AnyRecords, corpus : SUBSET AnyCorpusJson]

GeneratorRecords ==
  [gen : Nat, index : Nat, variant : Variants, count : ShardCounts, at : 1 .. 5,
   todo : SUBSET Batches, state : {"running", "done", "failed"}]

Generators ==
  {p \in GeneratorRecords :
     /\ p.index < p.count /\ (p.at > 1 => p.todo = {})
     /\ p.todo \subseteq Select(p.index, p.count)
     /\ p.state = "running" => p.at < 5
     /\ p.state = "done" => p.at = 5}

Reading == {"corpus", "manifest", "figures"}
Writing == {"write manifest", "write figures", "write corpus"}

MergerRecords ==
  [pc : Reading \cup Writing \cup {"done", "failed"}, at : Nat, dirs : Seq(Dirs),
   metas : Seq(AnyCorpusJson), records : AnyRecords, figures : AnyRecords,
   byHand : BOOLEAN, clean : BOOLEAN]

Mergers ==
  {m \in MergerRecords :
     /\ m.at \in 1 .. Len(m.dirs)
     /\ m.pc \in {"manifest", "figures"} \cup Writing => m.metas # <<>>}

CorpusTypeOK ==
  /\ store \in [Dirs -> Files]
  /\ \A d \in Dirs : \A u, v \in store[d].corpus : u = v
  /\ pods \subseteq Generators /\ \A p \in pods : p.gen <= generation.gen
  /\ merges \in Seq(Mergers)
  /\ generation \in [gen : Nat, pc : {"none", "generating", "merging", "done", "died"},
                     variant : Variants \cup {None}, count : Nat \ {0}, alone : BOOLEAN,
                     used : SUBSET Variants]
  /\ generation.pc \in {"generating", "merging"} => generation.count \in ShardCounts

----------------------------------------------------------------------------
(* Directories and files *)

LEMMA HomeIsDir == ASSUME NEW p \in Generators PROVE Home(p) \in Dirs
<1>1. CASE p.count = 1
  BY <1>1 DEF Home, DirOf, Dirs
<1>2. CASE p.count # 1
  <2>1. p.index \in 0 .. p.count - 1 /\ p.count \in ShardCounts \ {1}
    <3>1. p.index \in Nat /\ p.count \in ShardCounts /\ p.index < p.count
      BY DEF Generators, GeneratorRecords
    <3>2. p.count \in Nat
      BY <3>1, CorpusAssumption
    <3>3. QED
      BY <1>2, <3>1, <3>2
  <2>2. QED
    BY <1>2, <2>1 DEF Home, DirOf, Dirs
<1>3. QED
  BY <1>1, <1>2

LEMMA RecordsAreRecords == ASSUME NEW p \in Generators PROVE Records(p) \in AnyRecords
  BY HomeIsDir DEF Records, AnyRecords, Home, Select, Generators, GeneratorRecords

(* What writing a batch changes, and what a file of metadata.              *)
BatchIs(d, b, v) ==
  /\ store' \in [Dirs -> Files]
  /\ \A e \in Dirs : /\ store'[e].manifest = store[e].manifest
                     /\ store'[e].figures = store[e].figures
                     /\ store'[e].corpus = store[e].corpus
  /\ store'[d].batches[b] = v
  /\ \A e \in Dirs, c \in Batches : e # d \/ c # b => store'[e].batches[c] = store[e].batches[c]

FileIs(d, p, f) ==
  /\ store' \in [Dirs -> Files]
  /\ \A e \in Dirs : store'[e].batches = store[e].batches
  /\ \A e \in Dirs : e # d => store'[e] = store[e]
  /\ store'[d].manifest = IF f = "manifest" THEN {Records(p)} ELSE store[d].manifest
  /\ store'[d].figures = IF f = "figures" THEN {Records(p)} ELSE store[d].figures
  /\ store'[d].corpus = IF f = "corpus" THEN {CorpusJson(p.variant, p.index, p.count, Records(p))}
                        ELSE store[d].corpus

LEMMA BatchWritten ==
  ASSUME store \in [Dirs -> Files], NEW d \in Dirs, NEW b \in Batches, NEW v \in Variants,
         store' = [store EXCEPT ![d] = WriteBatch(@, b, v)]
  PROVE  BatchIs(d, b, v)
BY DEF BatchIs, WriteBatch, Files

LEMMA FileWritten ==
  ASSUME store \in [Dirs -> Files], NEW p \in Generators,
         NEW f \in {"batches", "manifest", "figures", "corpus"},
         store' = [store EXCEPT ![Home(p)] = Written(@, p, f)]
  PROVE  FileIs(Home(p), p, f)
<1>1. Home(p) \in Dirs /\ Records(p) \in AnyRecords
  BY HomeIsDir, RecordsAreRecords
<1>2. CorpusJson(p.variant, p.index, p.count, Records(p)) \in AnyCorpusJson
  BY <1>1, CorpusAssumption DEF CorpusJson, AnyCorpusJson, Generators, GeneratorRecords
<1>3. QED
  BY <1>1, <1>2 DEF FileIs, Written, Files

LEMMA Order == /\ WriteOrder \in Seq({"batches", "manifest", "figures", "corpus"}) /\ Len(WriteOrder) = 4
               /\ WriteOrder[1] = "batches" /\ WriteOrder[2] = "manifest"
               /\ WriteOrder[3] = "figures" /\ WriteOrder[4] = "corpus"
  BY DEF WriteOrder

(* What a process may become.                                              *)
LEMMA StaysMerger ==
  ASSUME NEW m \in Mergers, NEW c \in BOOLEAN
  PROVE  [m EXCEPT !.clean = c] \in Mergers
BY DEF Mergers, MergerRecords

(* Starting a merge.                                                       *)
NewMerge(dirs, byHand) ==
  [pc |-> "corpus", at |-> 1, dirs |-> dirs, metas |-> <<>>, records |-> {}, figures |-> {},
   byHand |-> byHand, clean |-> ~Live /\ ~Merging /\ \A i \in DOMAIN dirs : Complete(dirs[i])]

LEMMA MergeStarts ==
  ASSUME merges \in Seq(Mergers), NEW dirs \in Seq(Dirs), dirs # <<>>, NEW byHand \in BOOLEAN,
         Merge(dirs, byHand)
  PROVE  /\ merges' \in Seq(Mergers) /\ Len(merges') = Len(merges) + 1
         /\ \A k \in DOMAIN merges : merges'[k] = [merges[k] EXCEPT !.clean = FALSE]
         /\ merges'[Len(merges')] = NewMerge(dirs, byHand) /\ NewMerge(dirs, byHand) \in Mergers
<1> DEFINE old == [m \in DOMAIN merges |-> [merges[m] EXCEPT !.clean = FALSE]]
<1>1. old \in [1 .. Len(merges) -> Mergers] /\ Len(merges) \in Nat
  BY StaysMerger, LenProperties
<1>2. old \in Seq(Mergers)
  BY <1>1, SeqDef
<1>3. Len(old) = Len(merges)
  BY <1>1, <1>2, LenProperties
<1>4. NewMerge(dirs, byHand) \in Mergers
  <2>1. ASSUME NEW c \in BOOLEAN
        PROVE  [pc |-> "corpus", at |-> 1, dirs |-> dirs, metas |-> <<>>, records |-> {},
                figures |-> {}, byHand |-> byHand, clean |-> c] \in Mergers
    <3>1. 1 \in 1 .. Len(dirs)
      BY EmptySeq
    <3>2. <<>> \in Seq(AnyCorpusJson) /\ {} \in AnyRecords
      BY DEF AnyRecords
    <3>3. QED
      BY <3>1, <3>2 DEF Mergers, MergerRecords, Reading, Writing
  <2>2. QED
    BY <2>1 DEF NewMerge
<1>5. merges' = Append(old, NewMerge(dirs, byHand))
  BY DEF Merge, NewMerge
<1>6. QED
  BY <1>1, <1>2, <1>3, <1>4, <1>5, AppendProperties

(* Every new process takes the others' word for clean away.                *)
Uncleaned == [k \in DOMAIN merges |-> [merges[k] EXCEPT !.clean = FALSE]]

LEMMA UncleanedMerges ==
  ASSUME merges \in Seq(Mergers)
  PROVE  /\ Uncleaned \in Seq(Mergers) /\ Len(Uncleaned) = Len(merges)
         /\ \A k \in DOMAIN merges : Uncleaned[k] = [merges[k] EXCEPT !.clean = FALSE]
<1>1. Uncleaned \in [1 .. Len(merges) -> Mergers] /\ Len(merges) \in Nat
  BY StaysMerger, LenProperties DEF Uncleaned
<1>2. Uncleaned \in Seq(Mergers)
  BY <1>1, SeqDef
<1>3. QED
  BY <1>1, <1>2, LenProperties DEF Uncleaned

(* What a pod becomes after a batch and after a file.                      *)
Pod(p, at, todo, state)  == [p EXCEPT !.at = at, !.todo = todo, !.state = state]
Process(m, at, pc)       == [m EXCEPT !.at = at, !.pc = pc]

LEMMA GeneratorSteps ==
  ASSUME NEW p \in Generators, NEW at \in 1 .. 5, NEW todo \in SUBSET p.todo,
         NEW state \in {"running", "done", "failed"},
         at > 1 => todo = {}, state = "running" => at < 5, state = "done" => at = 5
  PROVE  /\ Pod(p, at, todo, state) \in Generators /\ Pod(p, at, todo, state).at = at /\ Pod(p, at, todo, state).todo = todo
         /\ Pod(p, at, todo, state).state = state
         /\ Pod(p, at, todo, state).gen = p.gen /\ Pod(p, at, todo, state).index = p.index
         /\ Pod(p, at, todo, state).count = p.count /\ Pod(p, at, todo, state).variant = p.variant
<1>1. /\ Pod(p, at, todo, state).at = at /\ Pod(p, at, todo, state).todo = todo
      /\ Pod(p, at, todo, state).state = state
      /\ Pod(p, at, todo, state).gen = p.gen /\ Pod(p, at, todo, state).index = p.index
      /\ Pod(p, at, todo, state).count = p.count /\ Pod(p, at, todo, state).variant = p.variant
  BY DEF Pod, Generators, GeneratorRecords
<1>2. Pod(p, at, todo, state) \in GeneratorRecords
  BY DEF Pod, Generators, GeneratorRecords
<1>3. QED
  BY <1>1, <1>2 DEF Generators

LEMMA AfterBatch ==
  ASSUME NEW p \in Generators, p.state = "running", WriteOrder[p.at] = "batches", NEW b \in p.todo
  PROVE  /\ PastBatch(p, b) \in Generators /\ p.at = 1 /\ b \in Batches /\ b \in Select(p.index, p.count)
         /\ PastBatch(p, b).at \in {1, 2} /\ PastBatch(p, b).todo = p.todo \ {b}
         /\ PastBatch(p, b).state = "running"
         /\ PastBatch(p, b).gen = p.gen /\ PastBatch(p, b).index = p.index
         /\ PastBatch(p, b).count = p.count /\ PastBatch(p, b).variant = p.variant
<1> DEFINE todo == p.todo \ {b}
           at   == IF p.todo = {b} THEN p.at + 1 ELSE p.at
<1>1. p.at = 1 /\ b \in Batches /\ b \in Select(p.index, p.count)
  BY Order DEF Generators, GeneratorRecords
<1>2. PastBatch(p, b) = Pod(p, at, todo, "running")
  <2>1. PastBatch(p, b) = [p EXCEPT !.todo = todo, !.at = at]
    BY DEF PastBatch, Generators, GeneratorRecords
  <2> HIDE DEF todo, at
  <2>2. QED
    BY <2>1 DEF Pod, Generators, GeneratorRecords
<1>3. todo \in SUBSET p.todo /\ (at > 1 => todo = {}) /\ at \in {1, 2} /\ at \in 1 .. 5
  BY <1>1
<1> HIDE DEF todo, at
<1>4. QED
  BY <1>1, <1>2, <1>3, GeneratorSteps DEF todo

LEMMA AfterFile ==
  ASSUME NEW p \in Generators, p.state = "running", WriteOrder[p.at] = "batches" => p.todo = {}
  PROVE  /\ PastFile(p) \in Generators /\ p.at \in 1 .. 4 /\ p.todo = {}
         /\ PastFile(p).at = p.at + 1 /\ PastFile(p).todo = {} /\ PastFile(p).state \in {"running", "done"}
         /\ PastFile(p).gen = p.gen /\ PastFile(p).index = p.index
         /\ PastFile(p).count = p.count /\ PastFile(p).variant = p.variant
         /\ WriteOrder[p.at] \in {"batches", "manifest", "figures", "corpus"}
<1> DEFINE state == IF p.at = 4 THEN "done" ELSE "running"
<1>1. p.at \in 1 .. 4
  BY DEF Generators, GeneratorRecords
<1>2. p.todo = {}
  BY <1>1, Order DEF Generators, GeneratorRecords
<1>3. WriteOrder[p.at] \in {"batches", "manifest", "figures", "corpus"}
  BY <1>1, Order
<1>4. PastFile(p) = Pod(p, p.at + 1, {}, state)
  BY <1>1, <1>2, Order DEF Generators, GeneratorRecords, PastFile, Pod
<1>5. /\ state \in {"running", "done"} /\ p.at + 1 \in 1 .. 5
      /\ (state = "running" => p.at + 1 < 5) /\ (state = "done" => p.at + 1 = 5)
  BY <1>1
<1> HIDE DEF state
<1>6. {} \in SUBSET p.todo
  OBVIOUS
<1>7. QED
  BY <1>1, <1>2, <1>3, <1>4, <1>5, <1>6, GeneratorSteps

LEMMA NewMergeIs ==
  ASSUME NEW dirs \in Seq(Dirs), NEW byHand \in BOOLEAN
  PROVE  /\ NewMerge(dirs, byHand).pc = "corpus" /\ NewMerge(dirs, byHand).at = 1
         /\ NewMerge(dirs, byHand).dirs = dirs /\ NewMerge(dirs, byHand).metas = <<>>
         /\ NewMerge(dirs, byHand).records = {} /\ NewMerge(dirs, byHand).figures = {}
<1>1. PICK c : c = (~Live /\ ~Merging /\ \A i \in DOMAIN dirs : Complete(dirs[i]))
  OBVIOUS
<1>2. NewMerge(dirs, byHand) =
        [pc |-> "corpus", at |-> 1, dirs |-> dirs, metas |-> <<>>, records |-> {}, figures |-> {},
         byHand |-> byHand, clean |-> c]
  BY <1>1 DEF NewMerge
<1>3. QED
  BY <1>2

(* What a merge becomes when it has read a file.                           *)
LEMMA MergerSteps ==
  ASSUME NEW m \in MergerRecords, NEW at \in Nat, NEW pc \in Reading \cup Writing \cup {"done", "failed"},
         at \in 1 .. Len(m.dirs), pc \in {"manifest", "figures"} \cup Writing => m.metas # <<>>
  PROVE  /\ Process(m, at, pc) \in Mergers /\ Process(m, at, pc).at = at /\ Process(m, at, pc).pc = pc
         /\ Process(m, at, pc).dirs = m.dirs /\ Process(m, at, pc).metas = m.metas
         /\ Process(m, at, pc).records = m.records /\ Process(m, at, pc).figures = m.figures
         /\ Process(m, at, pc).clean = m.clean
<1>1. /\ Process(m, at, pc).at = at /\ Process(m, at, pc).pc = pc
      /\ Process(m, at, pc).dirs = m.dirs /\ Process(m, at, pc).metas = m.metas
      /\ Process(m, at, pc).records = m.records /\ Process(m, at, pc).figures = m.figures
      /\ Process(m, at, pc).clean = m.clean
  BY DEF Process, MergerRecords
<1>2. Process(m, at, pc) \in MergerRecords
  BY DEF Process, MergerRecords
<1>3. QED
  BY <1>1, <1>2 DEF Mergers

LEMMA ReadsOn ==
  ASSUME NEW m \in MergerRecords, m.pc \in Reading, m.at \in 1 .. Len(m.dirs), m.metas # <<>>,
         m.at < Len(m.dirs)
  PROVE  /\ NextFile(m) \in Mergers /\ NextFile(m).at = m.at + 1 /\ NextFile(m).pc = m.pc
         /\ NextFile(m).dirs = m.dirs /\ NextFile(m).metas = m.metas /\ NextFile(m).records = m.records
         /\ NextFile(m).figures = m.figures /\ NextFile(m).clean = m.clean
<1>1. Len(m.dirs) \in Nat /\ m.at \in Nat
  BY LenProperties DEF MergerRecords
<1>2. NextFile(m) = Process(m, m.at + 1, m.pc)
  BY DEF NextFile, Process, MergerRecords
<1>3. m.at + 1 \in Nat /\ m.at + 1 \in 1 .. Len(m.dirs)
  BY <1>1
<1>4. m.pc \in Reading \cup Writing \cup {"done", "failed"}
  OBVIOUS
<1>5. QED
  BY <1>2, <1>3, <1>4, MergerSteps

LEMMA ReadsOver ==
  ASSUME NEW m \in MergerRecords, m.pc \in Reading, m.at \in 1 .. Len(m.dirs), m.metas # <<>>,
         m.at = Len(m.dirs)
  PROVE  /\ NextFile(m) \in Mergers /\ NextFile(m).at = 1
         /\ NextFile(m).dirs = m.dirs /\ NextFile(m).metas = m.metas /\ NextFile(m).records = m.records
         /\ NextFile(m).figures = m.figures /\ NextFile(m).clean = m.clean
         /\ \/ NextFile(m).pc = "manifest" /\ m.pc = "corpus" /\ Accepts(m.metas)
            \/ NextFile(m).pc = "figures" /\ m.pc = "manifest" /\ Covers(m.records)
            \/ NextFile(m).pc = "write manifest" /\ m.pc = "figures"
            \/ NextFile(m).pc = "failed"
<1> DEFINE to == CASE m.pc = "corpus"   -> IF Accepts(m.metas) THEN "manifest" ELSE "failed"
                   [] m.pc = "manifest" -> IF Covers(m.records) THEN "figures" ELSE "failed"
                   [] OTHER             -> "write manifest"
<1>1. Len(m.dirs) \in Nat /\ m.at \in Nat
  BY LenProperties DEF MergerRecords
<1>2. \/ to = "manifest" /\ m.pc = "corpus" /\ Accepts(m.metas)
      \/ to = "figures" /\ m.pc = "manifest" /\ Covers(m.records)
      \/ to = "write manifest" /\ m.pc = "figures"
      \/ to = "failed"
  BY DEF Reading
<1>3. NextFile(m) = Process(m, 1, to)
  BY <1>1 DEF NextFile, Process
<1> HIDE DEF to
<1>4. to \in Reading \cup Writing \cup {"done", "failed"}
  BY <1>2 DEF Reading, Writing
<1>5. 1 \in Nat /\ 1 \in 1 .. Len(m.dirs)
  BY <1>1
<1>6. /\ NextFile(m) \in Mergers /\ NextFile(m).at = 1 /\ NextFile(m).pc = to
      /\ NextFile(m).dirs = m.dirs /\ NextFile(m).metas = m.metas /\ NextFile(m).records = m.records
      /\ NextFile(m).figures = m.figures /\ NextFile(m).clean = m.clean
  BY <1>3, <1>4, <1>5, MergerSteps
<1>7. QED
  BY <1>2, <1>6

LEMMA AfterRead ==
  ASSUME NEW m \in MergerRecords, m.pc \in Reading, m.at \in 1 .. Len(m.dirs), m.metas # <<>>
  PROVE  /\ NextFile(m) \in Mergers
         /\ NextFile(m).dirs = m.dirs /\ NextFile(m).metas = m.metas /\ NextFile(m).records = m.records
         /\ NextFile(m).figures = m.figures /\ NextFile(m).clean = m.clean
         /\ m.at < Len(m.dirs) \/ m.at = Len(m.dirs)
<1>1. m.at < Len(m.dirs) \/ m.at = Len(m.dirs)
  BY LenProperties DEF MergerRecords
<1>2. QED
  BY <1>1, ReadsOn, ReadsOver

(* A step of merge k is a step of no other.                                *)
LEMMA MergerMoves ==
  ASSUME merges \in Seq(Mergers), NEW k \in DOMAIN merges, NEW n \in Mergers,
         merges' = [merges EXCEPT ![k] = n]
  PROVE  /\ merges' \in Seq(Mergers) /\ Len(merges') = Len(merges) /\ DOMAIN merges' = DOMAIN merges
         /\ merges'[k] = n /\ \A j \in DOMAIN merges : j # k => merges'[j] = merges[j]
  BY ExceptSeq, LenProperties

----------------------------------------------------------------------------
(* The types *)

LEMMA InitTypes == CorpusInit => CorpusTypeOK
<1> SUFFICES ASSUME CorpusInit PROVE CorpusTypeOK
  OBVIOUS
<1>1. EmptyDir \in Files
  BY DEF EmptyDir, Files
<1>2. store \in [Dirs -> Files] /\ \A d \in Dirs : store[d].corpus = {}
  BY <1>1 DEF CorpusInit, EmptyDir
<1>3. merges \in Seq(Mergers)
  BY EmptySeq DEF CorpusInit
<1>4. QED
  BY <1>2, <1>3 DEF CorpusInit, CorpusTypeOK

LEMMA GenerateTypes ==
  ASSUME CorpusTypeOK, NEW v \in Variants, NEW c \in ShardCounts, Generate(v, c)
  PROVE  CorpusTypeOK'
<1>1. merges' \in Seq(Mergers)
  BY UncleanedMerges DEF CorpusTypeOK, Generate, Uncleaned
<1>2. /\ generation' \in [gen : Nat, pc : {"none", "generating", "merging", "done", "died"},
                          variant : Variants \cup {None}, count : Nat \ {0}, alone : BOOLEAN,
                          used : SUBSET Variants]
      /\ generation'.gen = generation.gen + 1 /\ generation'.count = c /\ generation.gen \in Nat
  <2>1. PICK e \in BOOLEAN : e = (~Live /\ ~Merging)
    OBVIOUS
  <2>2. generation' = [gen |-> generation.gen + 1, pc |-> "generating", variant |-> v, count |-> c,
                       alone |-> e, used |-> generation.used \cup {v}]
    BY <2>1 DEF Generate
  <2>3. QED
    BY <2>2, CorpusAssumption DEF CorpusTypeOK
<1>3. ASSUME NEW p \in pods' PROVE p \in Generators /\ p.gen <= generation'.gen
  <2>1. CASE p \in pods
    BY <1>2, <2>1 DEF CorpusTypeOK, Generators, GeneratorRecords
  <2>2. CASE p \notin pods
    <3>1. PICK i \in 0 .. c - 1 :
            p = [gen |-> generation.gen + 1, index |-> i, variant |-> v, count |-> c,
                 at |-> 1, todo |-> Select(i, c), state |-> "running"]
      BY <2>2 DEF Generate
    <3>2. c \in Nat /\ Select(i, c) \subseteq Batches
      BY CorpusAssumption DEF Select
    <3>3. QED
      BY <1>2, <3>1, <3>2 DEF Generators, GeneratorRecords
  <2>3. QED
    BY <2>1, <2>2
<1>4. QED
  BY <1>1, <1>2, <1>3 DEF CorpusTypeOK, Generate

LEMMA PodTypes ==
  ASSUME CorpusTypeOK, NEW p \in pods, PodWritesBatch(p) \/ PodWrites(p) \/ PodFails(p)
  PROVE  CorpusTypeOK'
<1>0. p \in Generators /\ p.gen <= generation.gen /\ Home(p) \in Dirs
  BY HomeIsDir DEF CorpusTypeOK
<1>1. CASE PodWritesBatch(p)
  <2>1. PICK b \in p.todo :
          /\ store' = [store EXCEPT ![Home(p)] = WriteBatch(@, b, p.variant)]
          /\ Becomes(p, PastBatch(p, b))
    BY <1>1 DEF PodWritesBatch, Home
  <2>2. p.variant \in Variants /\ b \in Batches /\ PastBatch(p, b) \in Generators
    BY <1>0, <1>1, AfterBatch DEF PodWritesBatch, Generators, GeneratorRecords
  <2>3. PastBatch(p, b).gen = p.gen
    BY <1>0, <1>1, AfterBatch DEF PodWritesBatch
  <2>4. store' \in [Dirs -> Files] /\ \A e \in Dirs : store'[e].corpus = store[e].corpus
    <3>1. BatchIs(Home(p), b, p.variant)
      BY <1>0, <2>1, <2>2, BatchWritten DEF CorpusTypeOK
    <3>2. QED
      BY <3>1 DEF BatchIs
  <2>5. pods' = (pods \ {p}) \cup {PastBatch(p, b)} /\ UNCHANGED <<merges, generation>>
    BY <1>1, <2>1 DEF Becomes, PodWritesBatch
  <2>6. QED
    BY <1>0, <2>2, <2>3, <2>4, <2>5 DEF CorpusTypeOK
<1>2. CASE PodWrites(p)
  <2>1. /\ PastFile(p) \in Generators
        /\ WriteOrder[p.at] \in {"batches", "manifest", "figures", "corpus"}
    BY <1>0, <1>2, AfterFile DEF PodWrites
  <2>2. PastFile(p).gen = p.gen
    BY <1>0, <1>2, AfterFile DEF PodWrites
  <2>3. /\ store' \in [Dirs -> Files]
        /\ \A e \in Dirs : e # Home(p) => store'[e] = store[e]
        /\ store'[Home(p)].corpus = store[Home(p)].corpus
             \/ \E meta : store'[Home(p)].corpus = {meta}
    <3>1. FileIs(Home(p), p, WriteOrder[p.at])
      BY <1>0, <1>2, <2>1, FileWritten DEF CorpusTypeOK, PodWrites, Home
    <3>2. QED
      BY <1>0, <3>1 DEF FileIs
  <2>4. \A d \in Dirs : \A u, v \in store'[d].corpus : u = v
    BY <1>0, <2>3 DEF CorpusTypeOK
  <2>5. pods' = (pods \ {p}) \cup {PastFile(p)} /\ UNCHANGED <<merges, generation>>
    BY <1>2 DEF Becomes, PodWrites
  <2>6. QED
    BY <1>0, <2>1, <2>2, <2>3, <2>4, <2>5 DEF CorpusTypeOK
<1>3. CASE PodFails(p)
  <2>1. PICK q : q = [p EXCEPT !.state = "failed"]
    OBVIOUS
  <2>2. q \in Generators /\ q.gen = p.gen
    BY <1>0, <2>1 DEF Generators, GeneratorRecords
  <2>3. pods' = (pods \ {p}) \cup {q} /\ UNCHANGED <<store, merges, generation>>
    BY <1>3, <2>1 DEF Becomes, PodFails
  <2>4. QED
    BY <1>0, <2>2, <2>3 DEF CorpusTypeOK
<1>4. QED
  BY <1>1, <1>2, <1>3

LEMMA StartTypes ==
  ASSUME CorpusTypeOK, NEW dirs \in Seq(Dirs), dirs # <<>>, NEW byHand \in BOOLEAN, Merge(dirs, byHand),
         UNCHANGED <<store, pods>>, generation'.gen = generation.gen,
         generation' \in [gen : Nat, pc : {"none", "generating", "merging", "done", "died"},
                          variant : Variants \cup {None}, count : Nat \ {0}, alone : BOOLEAN,
                          used : SUBSET Variants],
         generation'.pc \in {"generating", "merging"} => generation'.count \in ShardCounts
  PROVE  CorpusTypeOK'
<1>1. merges' \in Seq(Mergers)
  BY MergeStarts DEF CorpusTypeOK
<1>2. QED
  BY <1>1 DEF CorpusTypeOK

LEMMA ShardDirs ==
  ASSUME NEW c \in ShardCounts, c # 1
  PROVE  /\ [i \in 1 .. c |-> i - 1] \in Seq(Dirs) /\ [i \in 1 .. c |-> i - 1] # <<>>
         /\ Len([i \in 1 .. c |-> i - 1]) = c
<1>1. c \in Nat \ {0} /\ 0 .. c - 1 \subseteq Dirs
  BY CorpusAssumption DEF Dirs
<1>2. [i \in 1 .. c |-> i - 1] \in [1 .. c -> Dirs]
  BY <1>1
<1>3. [i \in 1 .. c |-> i - 1] \in Seq(Dirs)
  BY <1>1, <1>2, SeqDef
<1>4. Len([i \in 1 .. c |-> i - 1]) = c
  BY <1>1, <1>2, <1>3, LenProperties
<1>5. QED
  BY <1>1, <1>3, <1>4, EmptySeq

LEMMA ByHandDirs ==
  ASSUME NEW n \in ShardCounts, NEW dirs \in [1 .. n -> Dirs]
  PROVE  dirs \in Seq(Dirs) /\ dirs # <<>>
<1>1. n \in Nat \ {0}
  BY CorpusAssumption
<1>2. dirs \in Seq(Dirs)
  BY <1>1, SeqDef
<1>3. QED
  BY <1>1, <1>2, EmptySeq

LEMMA ScriptTypes ==
  ASSUME CorpusTypeOK,
         JobComplete \/ MergeComplete \/ Dies
           \/ \E n \in ShardCounts : \E dirs \in [1 .. n -> Dirs] : MergeByHand(dirs)
  PROVE  CorpusTypeOK'
<1>1. CASE JobComplete
  <2>1. CASE generation.count = 1
    BY <1>1, <2>1 DEF JobComplete, CorpusTypeOK, Printed
  <2>2. CASE generation.count # 1
    <3>1. generation.count \in ShardCounts /\ generation' = [generation EXCEPT !.pc = "merging"]
      BY <1>1, <2>2 DEF JobComplete, CorpusTypeOK
    <3>2. QED
      BY <1>1, <2>2, <3>1, ShardDirs, StartTypes DEF JobComplete, CorpusTypeOK
  <2>3. QED
    BY <2>1, <2>2
<1>2. CASE MergeComplete \/ Dies
  BY <1>2 DEF MergeComplete, Dies, CorpusTypeOK, Printed
<1>3. ASSUME NEW n \in ShardCounts, NEW dirs \in [1 .. n -> Dirs], MergeByHand(dirs)
      PROVE  CorpusTypeOK'
  <2>1. dirs \in Seq(Dirs) /\ dirs # <<>>
    BY ByHandDirs
  <2>2. generation' = [generation EXCEPT !.alone = FALSE]
    BY <1>3 DEF MergeByHand
  <2>3. QED
    BY <1>3, <2>1, <2>2, StartTypes DEF MergeByHand, CorpusTypeOK
<1>4. QED
  BY <1>1, <1>2, <1>3

(* What reading a file leaves of a merge.                                  *)
HasRead(m, n) ==
  \/ m.pc = "corpus" /\ \E meta \in store[m.dirs[m.at]].corpus :
       n = [m EXCEPT !.metas = Append(@, meta)]
  \/ m.pc = "manifest" /\ \E rs \in store[m.dirs[m.at]].manifest :
       n = [m EXCEPT !.records = @ \cup rs]
  \/ m.pc = "figures" /\ \E rs \in store[m.dirs[m.at]].figures :
       n = [m EXCEPT !.figures = @ \cup rs]

LEMMA Reads ==
  ASSUME CorpusTypeOK, NEW k \in DOMAIN merges, MergeReads(k)
  PROVE  \E n \in MergerRecords :
           /\ HasRead(merges[k], n) /\ merges' = [merges EXCEPT ![k] = NextFile(n)]
           /\ n.pc \in Reading /\ n.at \in 1 .. Len(n.dirs) /\ n.metas # <<>>
           /\ n.pc = merges[k].pc /\ n.at = merges[k].at /\ n.dirs = merges[k].dirs
           /\ n.clean = merges[k].clean
<1> DEFINE m == merges[k]
           d == m.dirs[m.at]
<1>1. m \in Mergers /\ m \in MergerRecords /\ d \in Dirs /\ store[d] \in Files
  <2>1. m \in Mergers
    BY DEF CorpusTypeOK
  <2>2. d \in Dirs
    BY <2>1 DEF Mergers, MergerRecords
  <2>3. QED
    BY <2>1, <2>2 DEF CorpusTypeOK, Mergers
<1> HIDE DEF m, d
<1>2. ASSUME m.pc = "corpus", NEW meta \in store[d].corpus
      PROVE  /\ [m EXCEPT !.metas = Append(@, meta)] \in MergerRecords
             /\ [m EXCEPT !.metas = Append(@, meta)].metas # <<>>
  <2>1. meta \in AnyCorpusJson
    BY <1>1, <1>2 DEF Files
  <2>2. Append(m.metas, meta) \in Seq(AnyCorpusJson) /\ Append(m.metas, meta) # <<>>
    BY <1>1, <2>1, AppendProperties DEF MergerRecords
  <2>3. QED
    BY <1>1, <2>2 DEF MergerRecords
<1>3. ASSUME NEW rs \in store[d].manifest
      PROVE  [m EXCEPT !.records = @ \cup rs] \in MergerRecords
  <2>1. rs \in AnyRecords /\ m.records \cup rs \in AnyRecords
    BY <1>1 DEF Files, MergerRecords, AnyRecords
  <2>2. QED
    BY <1>1, <2>1 DEF MergerRecords
<1>4. ASSUME NEW rs \in store[d].figures
      PROVE  [m EXCEPT !.figures = @ \cup rs] \in MergerRecords
  <2>1. rs \in AnyRecords /\ m.figures \cup rs \in AnyRecords
    BY <1>1 DEF Files, MergerRecords, AnyRecords
  <2>2. QED
    BY <1>1, <2>1 DEF MergerRecords
<1>5. m.at \in 1 .. Len(m.dirs) /\ (m.pc \in {"manifest", "figures"} => m.metas # <<>>)
  BY <1>1 DEF Mergers
<1>6. CASE m.pc = "corpus"
  <2>1. PICK meta \in store[d].corpus :
          merges' = [merges EXCEPT ![k] = NextFile([m EXCEPT !.metas = Append(@, meta)])]
    BY <1>6 DEF MergeReads, m, d
  <2>2. QED
    BY <1>1, <1>2, <1>5, <1>6, <2>1 DEF HasRead, Reading, MergerRecords, m, d
<1>7. CASE m.pc = "manifest"
  <2>1. PICK rs \in store[d].manifest :
          merges' = [merges EXCEPT ![k] = NextFile([m EXCEPT !.records = @ \cup rs])]
    BY <1>7 DEF MergeReads, m, d
  <2>2. QED
    BY <1>1, <1>3, <1>5, <1>7, <2>1 DEF HasRead, Reading, MergerRecords, m, d
<1>8. CASE m.pc = "figures"
  <2>1. PICK rs \in store[d].figures :
          merges' = [merges EXCEPT ![k] = NextFile([m EXCEPT !.figures = @ \cup rs])]
    BY <1>8 DEF MergeReads, m, d
  <2>2. QED
    BY <1>1, <1>4, <1>5, <1>8, <2>1 DEF HasRead, Reading, MergerRecords, m, d
<1>9. QED
  BY <1>6, <1>7, <1>8 DEF MergeReads, m

(* What writing a file, or failing, leaves of a merge.                     *)
Goes(k, pc) == merges' = [merges EXCEPT ![k] = Process(merges[k], merges[k].at, pc)]

LEMMA MergerGoes ==
  ASSUME merges \in Seq(Mergers), NEW k \in DOMAIN merges, NEW pc \in Writing \cup {"done", "failed"},
         merges' = [merges EXCEPT ![k].pc = pc], pc \in Writing => merges[k].pc \in Writing
  PROVE  /\ Goes(k, pc) /\ Process(merges[k], merges[k].at, pc) \in Mergers
         /\ merges' \in Seq(Mergers) /\ Len(merges') = Len(merges) /\ DOMAIN merges' = DOMAIN merges
         /\ \A j \in DOMAIN merges : j # k => merges'[j] = merges[j]
         /\ merges'[k].at = merges[k].at /\ merges'[k].pc = pc
         /\ merges'[k].dirs = merges[k].dirs /\ merges'[k].metas = merges[k].metas
         /\ merges'[k].records = merges[k].records /\ merges'[k].figures = merges[k].figures
         /\ merges'[k].clean = merges[k].clean
<1> DEFINE m == merges[k]
<1>1. m \in Mergers /\ m \in MergerRecords
  BY DEF Mergers
<1>2. [m EXCEPT !.pc = pc] = Process(m, m.at, pc)
  BY <1>1 DEF Process, MergerRecords
<1>3. Goes(k, pc)
  BY <1>2 DEF Goes
<1>4. m.at \in Nat /\ m.at \in 1 .. Len(m.dirs)
  BY <1>1 DEF Mergers, MergerRecords
<1>5. pc \in Reading \cup Writing \cup {"done", "failed"}
  OBVIOUS
<1>6. pc \in {"manifest", "figures"} \cup Writing => m.metas # <<>>
  BY <1>1 DEF Mergers, Writing
<1> HIDE DEF m
<1>7. /\ Process(m, m.at, pc) \in Mergers /\ Process(m, m.at, pc).at = m.at /\ Process(m, m.at, pc).pc = pc
      /\ Process(m, m.at, pc).dirs = m.dirs /\ Process(m, m.at, pc).metas = m.metas
      /\ Process(m, m.at, pc).records = m.records /\ Process(m, m.at, pc).figures = m.figures
      /\ Process(m, m.at, pc).clean = m.clean
  BY <1>1, <1>4, <1>5, <1>6, MergerSteps
<1>8. QED
  BY <1>3, <1>7, MergerMoves DEF Goes, m

(* What a merge past its gates writes.                                     *)
LEMMA Writes ==
  ASSUME CorpusTypeOK, NEW k \in DOMAIN merges, MergeWrites(k)
  PROVE  /\ store' \in [Dirs -> Files] /\ Whole \in Dirs
         /\ \A d \in Dirs : store'[d].batches = store[d].batches
         /\ \A d \in Dirs : d # Whole => store'[d] = store[d]
         /\ \/ /\ merges[k].pc = "write manifest" /\ merges' = [merges EXCEPT ![k].pc = "write figures"]
               /\ store'[Whole].manifest = {merges[k].records}
               /\ store'[Whole].figures = store[Whole].figures /\ store'[Whole].corpus = store[Whole].corpus
            \/ /\ merges[k].pc = "write figures" /\ merges' = [merges EXCEPT ![k].pc = "write corpus"]
               /\ store'[Whole].figures = {merges[k].figures}
               /\ store'[Whole].manifest = store[Whole].manifest /\ store'[Whole].corpus = store[Whole].corpus
            \/ /\ merges[k].pc = "write corpus" /\ merges' = [merges EXCEPT ![k].pc = "done"]
               /\ store'[Whole].corpus = {CorpusJson(merges[k].metas[1].variant, 0, 1, merges[k].records)}
               /\ store'[Whole].manifest = store[Whole].manifest
               /\ store'[Whole].figures = store[Whole].figures
<1> DEFINE m == merges[k]
<1>1. m \in Mergers /\ Whole \in Dirs /\ store \in [Dirs -> Files]
  BY DEF CorpusTypeOK, Dirs
<1>2. m.records \in AnyRecords /\ m.figures \in AnyRecords /\ m.metas \in Seq(AnyCorpusJson)
  BY <1>1 DEF Mergers, MergerRecords
<1> HIDE DEF m
<1>3. CASE m.pc = "write manifest"
  <2>1. store' = [store EXCEPT ![Whole].manifest = {m.records}]
    BY <1>3 DEF MergeWrites, m
  <2>2. QED
    BY <1>1, <1>2, <1>3, <2>1 DEF MergeWrites, Files, m
<1>4. CASE m.pc = "write figures"
  <2>1. store' = [store EXCEPT ![Whole].figures = {m.figures}]
    BY <1>4 DEF MergeWrites, m
  <2>2. QED
    BY <1>1, <1>2, <1>4, <2>1 DEF MergeWrites, Files, m
<1>5. CASE m.pc = "write corpus"
  <2>0. m.metas # <<>>
    BY <1>1, <1>5 DEF Mergers, Writing
  <2>1. m.metas[1] \in AnyCorpusJson
    BY <1>2, <2>0, EmptySeq
  <2>2. CorpusJson(m.metas[1].variant, 0, 1, m.records) \in AnyCorpusJson
    BY <1>2, <2>1 DEF AnyCorpusJson, CorpusJson
  <2>3. store' = [store EXCEPT ![Whole].corpus = {CorpusJson(m.metas[1].variant, 0, 1, m.records)}]
    BY <1>5 DEF MergeWrites, m
  <2>4. QED
    BY <1>1, <2>2, <1>5, <2>3 DEF MergeWrites, Files, m
<1>6. QED
  BY <1>3, <1>4, <1>5 DEF MergeWrites, m

(* Of a merge that takes a step, its directories stay, and its records     *)
(* grow by those of a manifest.                                            *)
LEMMA MergerFrame ==
  ASSUME CorpusTypeOK, NEW k \in DOMAIN merges, MergeReads(k) \/ MergeWrites(k) \/ MergeFails(k)
  PROVE  /\ DOMAIN merges' = DOMAIN merges /\ Len(merges') = Len(merges)
         /\ \A j \in DOMAIN merges : j # k => merges'[j] = merges[j]
         /\ \/ merges'[k].records = merges[k].records
            \/ \E d \in Dirs : \E rs \in store[d].manifest : merges'[k].records = merges[k].records \cup rs
         /\ merges'[k].dirs = merges[k].dirs /\ merges'[k].clean = merges[k].clean
<1>0. merges \in Seq(Mergers) /\ merges[k] \in MergerRecords
  BY DEF CorpusTypeOK, Mergers
<1>1. CASE MergeReads(k)
  <2>1. PICK n \in MergerRecords :
          /\ HasRead(merges[k], n) /\ merges' = [merges EXCEPT ![k] = NextFile(n)]
          /\ n.pc \in Reading /\ n.at \in 1 .. Len(n.dirs) /\ n.metas # <<>>
          /\ n.dirs = merges[k].dirs /\ n.at = merges[k].at /\ n.clean = merges[k].clean
    BY <1>1, Reads
  <2>2. /\ NextFile(n) \in Mergers /\ NextFile(n).records = n.records
        /\ NextFile(n).dirs = n.dirs /\ NextFile(n).clean = n.clean
    BY <2>1, AfterRead
  <2>3. merges[k].dirs[merges[k].at] \in Dirs
    BY <1>0, <2>1 DEF MergerRecords
  <2>4. \/ n.records = merges[k].records
        \/ \E d \in Dirs : \E rs \in store[d].manifest : n.records = merges[k].records \cup rs
    BY <1>0, <2>1, <2>3 DEF HasRead, MergerRecords
  <2>5. QED
    BY <1>0, <2>1, <2>2, <2>4, MergerMoves
<1>2. CASE MergeWrites(k)
  <2>1. PICK pc \in Writing \cup {"done"} : merges' = [merges EXCEPT ![k].pc = pc]
    BY <1>2, Writes DEF Writing
  <2>2. merges[k].pc \in Writing
    BY <1>2 DEF MergeWrites, Writing
  <2>3. QED
    BY <1>0, <2>1, <2>2, MergerGoes
<1>3. CASE MergeFails(k)
  BY <1>0, <1>3, MergerGoes DEF MergeFails, Writing
<1>4. QED
  BY <1>1, <1>2, <1>3

LEMMA MergeTypes ==
  ASSUME CorpusTypeOK, NEW k \in DOMAIN merges, MergeReads(k) \/ MergeWrites(k) \/ MergeFails(k)
  PROVE  CorpusTypeOK'
<1>1. CASE MergeReads(k)
  <2>1. PICK n \in MergerRecords :
          /\ merges' = [merges EXCEPT ![k] = NextFile(n)]
          /\ n.pc \in Reading /\ n.at \in 1 .. Len(n.dirs) /\ n.metas # <<>>
    BY <1>1, Reads
  <2>2. merges' \in Seq(Mergers)
    BY <2>1, AfterRead, MergerMoves DEF CorpusTypeOK
  <2>3. QED
    BY <1>1, <2>2 DEF CorpusTypeOK, MergeReads
<1>2. CASE MergeWrites(k)
  <2>1. merges' \in Seq(Mergers)
    <3>1. PICK pc \in Writing \cup {"done"} : merges' = [merges EXCEPT ![k].pc = pc]
      BY <1>2, Writes DEF Writing
    <3>2. merges[k].pc \in Writing
      BY <1>2 DEF MergeWrites, Writing
    <3>3. QED
      BY <3>1, <3>2, MergerGoes DEF CorpusTypeOK
  <2>2. /\ store' \in [Dirs -> Files] /\ \A d \in Dirs : d # Whole => store'[d] = store[d]
        /\ store'[Whole].corpus = store[Whole].corpus \/ \E meta : store'[Whole].corpus = {meta}
    BY <1>2, Writes
  <2>3. \A d \in Dirs : \A u, v \in store'[d].corpus : u = v
    BY <2>2 DEF CorpusTypeOK
  <2>4. QED
    BY <1>2, <2>1, <2>2, <2>3 DEF CorpusTypeOK, MergeWrites
<1>3. CASE MergeFails(k)
  <2>1. merges' \in Seq(Mergers)
    BY <1>3, MergerGoes DEF CorpusTypeOK, MergeFails, Writing
  <2>2. QED
    BY <1>3, <2>1 DEF CorpusTypeOK, MergeFails
<1>4. QED
  BY <1>1, <1>2, <1>3

LEMMA TypesStay == CorpusTypeOK /\ [CorpusNext]_corpusVars => CorpusTypeOK'
<1> SUFFICES ASSUME CorpusTypeOK, [CorpusNext]_corpusVars PROVE CorpusTypeOK'
  OBVIOUS
<1>1. ASSUME NEW v \in Variants, NEW c \in ShardCounts, Generate(v, c) PROVE CorpusTypeOK'
  BY <1>1, GenerateTypes
<1>2. CASE UNCHANGED corpusVars
  BY <1>2 DEF CorpusTypeOK, corpusVars
<1>3. QED
  BY <1>1, <1>2, PodTypes, ScriptTypes, MergeTypes DEF CorpusNext, ProcessStep

(* The values of the variables keep their form, and no shard writes into   *)
(* a directory that is not there.                                          *)
THEOREM CorpusTypes == CorpusSpec => []CorpusTypeOK
<1>1. CorpusInit => CorpusTypeOK
  BY InitTypes
<1>2. QED
  BY <1>1, TypesStay, PTL DEF CorpusSpec

----------------------------------------------------------------------------
(* Of one seed, what was written stays                                     *)

(* While a preset is generated from one seed, a batch that was written once*)
(* holds the same bytes whoever writes it again. A pod has written what it *)
(* no longer has to do; a manifest, in the store or in a merge, names      *)
(* nothing but batches that were written.                                  *)
BatchesUsed ==
  \A d \in Dirs, b \in Batches : store[d].batches[b] \in generation.used \cup {None}

PodsSaved ==
  \A p \in pods : \A b \in Select(p.index, p.count) \ p.todo :
    store[Home(p)].batches[b] = p.variant

RecordsSaved ==
  /\ \A d \in Dirs : \A records \in store[d].manifest : Stored(records)
  /\ \A k \in DOMAIN merges : Stored(merges[k].records)

Saved ==
  /\ \A p \in pods : p.variant \in generation.used
  /\ BatchesUsed
  /\ OneVariant => PodsSaved /\ RecordsSaved

LEMMA WholeIsDir == Whole \in Dirs
  BY DEF Dirs

LEMMA SavedIsWhole ==
  ASSUME CorpusTypeOK, Saved PROVE ReadableIsWhole
  BY WholeIsDir DEF Saved, RecordsSaved, ReadableIsWhole

(* No step but of a pod writes a batch, and each writes one that is used.  *)
Kept == \A d \in Dirs, b \in Batches, v \in Variants :
          store[d].batches[b] = v => store'[d].batches[b] = v

LEMMA Overwritten ==
  ASSUME CorpusTypeOK, Saved, OneVariant,
         \A d \in Dirs, b \in Batches : \/ store'[d].batches[b] = store[d].batches[b]
                                       \/ store'[d].batches[b] \in generation.used
  PROVE  Kept
<1> SUFFICES ASSUME NEW d \in Dirs, NEW b \in Batches, NEW v \in Variants, store[d].batches[b] = v
             PROVE  store'[d].batches[b] = v
  BY DEF Kept
<1>1. v \in generation.used
  BY CorpusAssumption DEF Saved, BatchesUsed
<1>2. QED
  BY <1>1 DEF OneVariant

LEMMA KeptRecords ==
  ASSUME Kept, NEW records \in AnyRecords, Stored(records)
  PROVE  \A r \in records : store'[r.dir].batches[r.batch] = r.variant
  BY DEF Kept, Stored, AnyRecords

LEMMA KeptPod ==
  ASSUME Kept, NEW p \in Generators, NEW b \in Select(p.index, p.count),
         store[Home(p)].batches[b] = p.variant
  PROVE  store'[Home(p)].batches[b] = p.variant
  BY HomeIsDir DEF Kept, Select, Generators, GeneratorRecords

LEMMA KeptStill ==
  ASSUME \A d \in Dirs : store'[d].batches = store[d].batches
  PROVE  Kept
  BY DEF Kept

(* Records of the manifests and merges that were there before stay.        *)
LEMMA RecordsStay ==
  ASSUME CorpusTypeOK, Kept, RecordsSaved
  PROVE  /\ \A d \in Dirs : \A records \in store[d].manifest :
              \A r \in records : store'[r.dir].batches[r.batch] = r.variant
         /\ \A k \in DOMAIN merges :
              \A r \in merges[k].records : store'[r.dir].batches[r.batch] = r.variant
<1>1. \A d \in Dirs : store[d].manifest \subseteq AnyRecords
  BY DEF CorpusTypeOK, Files
<1>2. \A k \in DOMAIN merges : merges[k].records \in AnyRecords
  BY DEF CorpusTypeOK, Mergers, MergerRecords
<1>3. QED
  BY <1>1, <1>2, KeptRecords DEF RecordsSaved

LEMMA PodsStay ==
  ASSUME CorpusTypeOK, Kept, PodsSaved, NEW p \in pods, NEW b \in Select(p.index, p.count) \ p.todo
  PROVE  store'[Home(p)].batches[b] = p.variant
  BY KeptPod DEF CorpusTypeOK, PodsSaved

LEMMA PodSaves ==
  ASSUME CorpusTypeOK, Saved, NEW p \in pods, PodWritesBatch(p) \/ PodWrites(p) \/ PodFails(p)
  PROVE  Saved'
<1>0. /\ p \in Generators /\ Home(p) \in Dirs /\ store \in [Dirs -> Files]
      /\ p.variant \in Variants /\ p.variant \in generation.used
  BY HomeIsDir DEF CorpusTypeOK, Generators, GeneratorRecords, Saved
<1>1. CASE PodWritesBatch(p)
  <2>1. PICK b \in p.todo :
          /\ store' = [store EXCEPT ![Home(p)] = WriteBatch(@, b, p.variant)]
          /\ Becomes(p, PastBatch(p, b))
    BY <1>1 DEF PodWritesBatch, Home
  <2> DEFINE q == PastBatch(p, b)
  <2>2. /\ b \in Batches /\ b \in Select(p.index, p.count) /\ q \in Generators
        /\ q.todo = p.todo \ {b} /\ q.variant = p.variant
        /\ q.index = p.index /\ q.count = p.count
    BY <1>0, <1>1, AfterBatch DEF PodWritesBatch
  <2>3. pods' = (pods \ {p}) \cup {q} /\ UNCHANGED <<merges, generation>>
    BY <1>1, <2>1 DEF Becomes, PodWritesBatch
  <2>4. /\ \A e \in Dirs : store'[e].manifest = store[e].manifest
        /\ store'[Home(p)].batches[b] = p.variant
        /\ \A e \in Dirs, c \in Batches : e # Home(p) \/ c # b => store'[e].batches[c] = store[e].batches[c]
    <3>1. BatchIs(Home(p), b, p.variant)
      BY <1>0, <2>1, <2>2, BatchWritten
    <3>2. QED
      BY <3>1 DEF BatchIs
  <2> HIDE DEF q
  <2>5. \A e \in Dirs, c \in Batches : \/ store'[e].batches[c] = store[e].batches[c]
                                     \/ store'[e].batches[c] \in generation.used
    BY <1>0, <2>4
  <2>6. BatchesUsed'
    BY <2>3, <2>5 DEF Saved, BatchesUsed
  <2>7. \A o \in pods' : o.variant \in generation'.used
    BY <1>0, <2>2, <2>3 DEF Saved
  <2>8. ASSUME OneVariant PROVE PodsSaved' /\ RecordsSaved'
    <3>1. Kept
      BY <2>5, <2>8, Overwritten
    <3>2. RecordsSaved'
      BY <2>3, <2>4, <2>8, <3>1, RecordsStay DEF Saved, RecordsSaved, Stored
    <3>3. ASSUME NEW o \in pods', NEW c \in Select(o.index, o.count) \ o.todo
          PROVE  store'[Home(o)].batches[c] = o.variant
      <4>1. CASE o = q
        <5>1. Home(o) = Home(p)
          BY <2>2, <4>1 DEF Home
        <5>2. CASE c = b
          BY <2>2, <2>4, <4>1, <5>1, <5>2
        <5>3. CASE c # b
          BY <1>0, <2>2, <2>8, <3>1, <4>1, <5>1, <5>3, PodsStay DEF Saved
        <5>4. QED
          BY <5>2, <5>3
      <4>2. CASE o # q
        BY <2>3, <2>8, <3>1, <4>2, PodsStay DEF Saved
      <4>3. QED
        BY <4>1, <4>2
    <3>4. PodsSaved'
      BY <3>3 DEF PodsSaved, Home
    <3>5. QED
      BY <3>2, <3>4
  <2>9. QED
    BY <2>3, <2>6, <2>7, <2>8 DEF Saved, OneVariant
<1>2. CASE PodWrites(p)
  <2> DEFINE q == PastFile(p)
  <2>1. /\ q \in Generators /\ q.todo = {} /\ p.todo = {} /\ q.variant = p.variant
        /\ q.index = p.index /\ q.count = p.count
        /\ WriteOrder[p.at] \in {"batches", "manifest", "figures", "corpus"}
    BY <1>0, <1>2, AfterFile DEF PodWrites
  <2>2. pods' = (pods \ {p}) \cup {q} /\ UNCHANGED <<merges, generation>>
    BY <1>2 DEF Becomes, PodWrites
  <2>3. /\ \A e \in Dirs : store'[e].batches = store[e].batches
        /\ \A e \in Dirs : store'[e].manifest = store[e].manifest
                            \/ (e = Home(p) /\ store'[e].manifest = {Records(p)})
    <3>1. store' = [store EXCEPT ![Home(p)] = Written(@, p, WriteOrder[p.at])]
      BY <1>2 DEF PodWrites, Home
    <3>2. FileIs(Home(p), p, WriteOrder[p.at])
      BY <1>0, <2>1, <3>1, FileWritten
    <3>3. /\ \A e \in Dirs : store'[e].batches = store[e].batches
          /\ \A e \in Dirs : e # Home(p) => store'[e] = store[e]
      BY <3>2 DEF FileIs
    <3>4. \/ store'[Home(p)].manifest = store[Home(p)].manifest
          \/ store'[Home(p)].manifest = {Records(p)}
      BY <3>2 DEF FileIs
    <3>5. QED
      BY <3>3, <3>4
  <2> HIDE DEF q
  <2>4. BatchesUsed'
    BY <2>2, <2>3 DEF Saved, BatchesUsed
  <2>5. \A o \in pods' : o.variant \in generation'.used
    BY <1>0, <2>1, <2>2 DEF Saved
  <2>6. ASSUME OneVariant PROVE PodsSaved' /\ RecordsSaved'
    <3>1. Kept
      BY <2>3, KeptStill
    <3>2. \A r \in Records(p) : store'[r.dir].batches[r.batch] = r.variant
      <4>1. \A b \in Select(p.index, p.count) : store'[Home(p)].batches[b] = p.variant
        BY <2>1, <2>6, <3>1, PodsStay DEF Saved
      <4>2. QED
        BY <4>1 DEF Records, Home
    <3>3. RecordsSaved'
      <4>1. \A d \in Dirs : \A records \in store'[d].manifest :
              \A r \in records : store'[r.dir].batches[r.batch] = r.variant
        BY <2>3, <2>6, <3>1, <3>2, RecordsStay DEF Saved
      <4>2. QED
        BY <2>2, <2>6, <3>1, <4>1, RecordsStay DEF Saved, RecordsSaved, Stored
    <3>4. ASSUME NEW o \in pods', NEW c \in Select(o.index, o.count) \ o.todo
          PROVE  store'[Home(o)].batches[c] = o.variant
      <4>1. CASE o = q
        <5>1. Home(o) = Home(p)
          BY <2>1, <4>1 DEF Home
        <5>2. QED
          BY <2>1, <2>6, <3>1, <4>1, <5>1, PodsStay DEF Saved
      <4>2. CASE o # q
        BY <2>2, <2>6, <3>1, <4>2, PodsStay DEF Saved
      <4>3. QED
        BY <4>1, <4>2
    <3>5. PodsSaved'
      BY <3>4 DEF PodsSaved, Home
    <3>6. QED
      BY <3>3, <3>5
  <2>7. QED
    BY <2>2, <2>4, <2>5, <2>6 DEF Saved, OneVariant
<1>3. CASE PodFails(p)
  <2>1. PICK q : q = [p EXCEPT !.state = "failed"]
    OBVIOUS
  <2>2. /\ pods' = (pods \ {p}) \cup {q} /\ UNCHANGED <<store, merges, generation>>
        /\ q.index = p.index /\ q.count = p.count /\ q.todo = p.todo /\ q.variant = p.variant
    BY <1>0, <1>3, <2>1 DEF Becomes, PodFails, Generators, GeneratorRecords
  <2>3. PodsSaved => PodsSaved'
    BY <2>2 DEF PodsSaved, Home
  <2>4. QED
    BY <1>0, <2>2, <2>3 DEF Saved, OneVariant, BatchesUsed, RecordsSaved, Stored
<1>4. QED
  BY <1>1, <1>2, <1>3

LEMMA GenerateSaves ==
  ASSUME CorpusTypeOK, Saved, NEW v \in Variants, NEW c \in ShardCounts, Generate(v, c)
  PROVE  Saved'
<1>1. /\ generation'.used = generation.used \cup {v} /\ UNCHANGED store
      /\ \A p \in pods' : p \in pods \/ (p.variant = v /\ p.todo = Select(p.index, p.count))
  <2>1. ASSUME NEW p \in pods', p \notin pods
        PROVE  p.variant = v /\ p.todo = Select(p.index, p.count)
    <3>1. PICK i \in 0 .. c - 1 :
            p = [gen |-> generation.gen + 1, index |-> i, variant |-> v, count |-> c,
                 at |-> 1, todo |-> Select(i, c), state |-> "running"]
      BY <2>1 DEF Generate
    <3>2. QED
      BY <3>1
  <2>2. QED
    BY <2>1 DEF Generate
<1>2. BatchesUsed'
  BY <1>1 DEF Saved, BatchesUsed
<1>3. \A p \in pods' : p.variant \in generation'.used
  BY <1>1 DEF Saved
<1>4. OneVariant' => OneVariant
  BY <1>1 DEF OneVariant
<1>5. \A k \in DOMAIN merges' : k \in DOMAIN merges /\ merges'[k].records = merges[k].records
  <2>1. merges' = Uncleaned /\ \A k \in DOMAIN merges : merges[k] \in Mergers
    BY DEF Generate, Uncleaned, CorpusTypeOK
  <2>2. QED
    BY <2>1 DEF Uncleaned, Mergers, MergerRecords
<1>6. RecordsSaved => RecordsSaved'
  BY <1>1, <1>5 DEF RecordsSaved, Stored
<1>7. PodsSaved => PodsSaved'
  BY <1>1 DEF PodsSaved, Home
<1>8. QED
  BY <1>2, <1>3, <1>4, <1>6, <1>7 DEF Saved

(* A new merge has read nothing yet.                                       *)
LEMMA StartSaves ==
  ASSUME CorpusTypeOK, Saved, NEW dirs \in Seq(Dirs), dirs # <<>>, NEW byHand \in BOOLEAN,
         Merge(dirs, byHand), UNCHANGED <<store, pods>>, generation'.used = generation.used
  PROVE  Saved'
<1>1. \A k \in DOMAIN merges' : merges'[k].records = {} \/
         (k \in DOMAIN merges /\ merges'[k].records = merges[k].records)
  <2>1. /\ merges \in Seq(Mergers) /\ merges' \in Seq(Mergers) /\ Len(merges') = Len(merges) + 1
        /\ \A k \in DOMAIN merges : merges'[k] = [merges[k] EXCEPT !.clean = FALSE]
        /\ merges'[Len(merges')].records = {}
    BY MergeStarts, NewMergeIs DEF CorpusTypeOK
  <2>2. ASSUME NEW k \in DOMAIN merges' PROVE k \in DOMAIN merges \/ k = Len(merges')
    BY <2>1, LenProperties
  <2>3. ASSUME NEW k \in DOMAIN merges PROVE merges'[k].records = merges[k].records
    <3>1. merges[k] \in Mergers
      BY <2>1
    <3>2. QED
      BY <2>1, <3>1 DEF Mergers, MergerRecords
  <2>4. QED
    BY <2>1, <2>2, <2>3
<1>2. RecordsSaved => RecordsSaved'
  BY <1>1 DEF RecordsSaved, Stored
<1>3. QED
  BY <1>2 DEF Saved, BatchesUsed, OneVariant, PodsSaved, Home

LEMMA ScriptSaves ==
  ASSUME CorpusTypeOK, Saved,
         JobComplete \/ MergeComplete \/ Dies
           \/ \E n \in ShardCounts : \E dirs \in [1 .. n -> Dirs] : MergeByHand(dirs)
  PROVE  Saved'
<1>0. Saved /\ UNCHANGED <<store, pods, merges>> /\ generation'.used = generation.used => Saved'
  BY DEF Saved, BatchesUsed, OneVariant, PodsSaved, RecordsSaved, Stored, Home
<1>1. CASE JobComplete
  <2>1. CASE generation.count = 1
    BY <1>0, <1>1, <2>1 DEF JobComplete, CorpusTypeOK, Printed
  <2>2. CASE generation.count # 1
    <3>1. generation.count \in ShardCounts /\ generation'.used = generation.used
      BY <1>1, <2>2 DEF JobComplete, CorpusTypeOK
    <3>2. QED
      BY <1>1, <2>2, <3>1, ShardDirs, StartSaves DEF JobComplete
  <2>3. QED
    BY <2>1, <2>2
<1>2. CASE MergeComplete \/ Dies
  BY <1>0, <1>2 DEF MergeComplete, Dies, CorpusTypeOK, Printed
<1>3. ASSUME NEW n \in ShardCounts, NEW dirs \in [1 .. n -> Dirs], MergeByHand(dirs)
      PROVE  Saved'
  <2>1. dirs \in Seq(Dirs) /\ dirs # <<>>
    BY ByHandDirs
  <2>2. generation'.used = generation.used
    BY <1>3 DEF MergeByHand, CorpusTypeOK
  <2>3. QED
    BY <1>3, <2>1, <2>2, StartSaves DEF MergeByHand
<1>4. QED
  BY <1>1, <1>2, <1>3

LEMMA MergeSaves ==
  ASSUME CorpusTypeOK, Saved, NEW k \in DOMAIN merges, MergeReads(k) \/ MergeWrites(k) \/ MergeFails(k)
  PROVE  Saved'
<1>0. /\ UNCHANGED <<pods, generation>> /\ \A d \in Dirs : store'[d].batches = store[d].batches
  BY Writes DEF MergeReads, MergeWrites, MergeFails
<1>1. BatchesUsed' /\ \A p \in pods' : p.variant \in generation'.used
  BY <1>0 DEF Saved, BatchesUsed
<1>2. Kept /\ (OneVariant' => OneVariant)
  BY <1>0, KeptStill DEF OneVariant
<1>3. OneVariant => PodsSaved'
  BY <1>0, <1>2, PodsStay DEF Saved, PodsSaved, Home
<1>4. ASSUME OneVariant
      PROVE  \A d \in Dirs : \A records \in store'[d].manifest :
               \A r \in records : store'[r.dir].batches[r.batch] = r.variant
  <2>1. /\ \A d \in Dirs : \A records \in store[d].manifest :
              \A r \in records : store'[r.dir].batches[r.batch] = r.variant
        /\ \A r \in merges[k].records : store'[r.dir].batches[r.batch] = r.variant
    BY <1>2, <1>4, RecordsStay DEF Saved
  <2>2. \A d \in Dirs : \/ store'[d].manifest = store[d].manifest
                       \/ store'[d].manifest = {merges[k].records}
    BY Writes DEF MergeReads, MergeFails
  <2>3. QED
    BY <2>1, <2>2
<1>5. ASSUME OneVariant, NEW j \in DOMAIN merges'
      PROVE  \A r \in merges'[j].records : store'[r.dir].batches[r.batch] = r.variant
  <2>1. /\ \A d \in Dirs : \A records \in store[d].manifest :
              \A r \in records : store'[r.dir].batches[r.batch] = r.variant
        /\ \A i \in DOMAIN merges :
              \A r \in merges[i].records : store'[r.dir].batches[r.batch] = r.variant
    BY <1>2, <1>5, RecordsStay DEF Saved
  <2>2. j \in DOMAIN merges /\ (j # k => merges'[j] = merges[j])
    BY MergerFrame
  <2>3. \/ merges'[k].records = merges[k].records
        \/ \E d \in Dirs : \E rs \in store[d].manifest : merges'[k].records = merges[k].records \cup rs
    BY MergerFrame
  <2>4. QED
    BY <2>1, <2>2, <2>3
<1>6. OneVariant => RecordsSaved'
  BY <1>4, <1>5 DEF RecordsSaved, Stored
<1>7. QED
  BY <1>1, <1>2, <1>3, <1>6 DEF Saved

LEMMA Saves == CorpusTypeOK /\ Saved /\ [CorpusNext]_corpusVars => Saved'
<1> SUFFICES ASSUME CorpusTypeOK, Saved, [CorpusNext]_corpusVars PROVE Saved'
  OBVIOUS
<1>1. ASSUME NEW v \in Variants, NEW c \in ShardCounts, Generate(v, c) PROVE Saved'
  BY <1>1, GenerateSaves
<1>2. CASE UNCHANGED corpusVars
  BY <1>2 DEF corpusVars, Saved, BatchesUsed, OneVariant, PodsSaved, RecordsSaved, Stored, Home
<1>3. QED
  BY <1>1, <1>2, PodSaves, ScriptSaves, MergeSaves DEF CorpusNext, ProcessStep

----------------------------------------------------------------------------
(* A clean merge                                                           *)

(* A merge that is clean works alone, on directories that do not change    *)
(* while it reads: the records it has are those of the corpus.json files it*)
(* has read, and what it writes is what it has.                            *)
UpTo(metas, i) == UNION {metas[j].records : j \in 1 .. i}

ReadsClean(m, i) ==
  /\ \A j \in DOMAIN m.dirs : Complete(m.dirs[j])
  /\ \A j \in DOMAIN m.metas : m.metas[j] \in store[m.dirs[j]].corpus
  /\ m.pc = "corpus" => Len(m.metas) = i /\ m.records = {} /\ m.figures = {}
  /\ m.pc \in {"manifest", "figures"} => Len(m.metas) = Len(m.dirs) /\ Agreed(m.metas)
  /\ m.pc = "manifest" => m.records = UpTo(m.metas, i) /\ m.figures = {}
  /\ m.pc = "figures" =>
       /\ Covers(m.records) /\ m.records = UpTo(m.metas, Len(m.dirs))
       /\ m.figures = UpTo(m.metas, i)

WritesClean(m) ==
  /\ m.metas # <<>> /\ Covers(m.records) /\ m.figures = m.records /\ Stored(m.records)
  /\ \A r \in m.records : r.variant = m.metas[1].variant
  /\ m.pc \in {"write figures", "write corpus", "done"} => store[Whole].manifest = {m.records}
  /\ m.pc \in {"write corpus", "done"} => store[Whole].figures = {m.records}
  /\ m.pc = "done" =>
       store[Whole].corpus = {CorpusJson(m.metas[1].variant, 0, 1, m.records)}

CleanMerge(m) ==
  /\ m.pc \in Reading => ReadsClean(m, m.at - 1)
  /\ m.pc \in Writing \cup {"done"} => WritesClean(m)

Cleanly ==
  \A k \in DOMAIN merges : merges[k].clean =>
    /\ ~Live /\ CleanMerge(merges[k])
    /\ \A j \in DOMAIN merges : merges[j].pc \in {"done", "failed"} \/ j = k

(* What clean says depends on the store, and on the merge.                 *)
LEMMA CleanStays ==
  ASSUME UNCHANGED store, NEW m \in Mergers, CleanMerge(m)
  PROVE  CleanMerge(m)'
BY DEF CleanMerge, ReadsClean, WritesClean, Complete, Stored

LEMMA CleanIsWhole ==
  ASSUME CorpusTypeOK, Cleanly PROVE MergedIsOneGeneration
<1> SUFFICES ASSUME NEW k \in DOMAIN merges, merges[k].clean, merges[k].pc = "done"
             PROVE  Readable(Whole) /\ Complete(Whole)
  BY DEF MergedIsOneGeneration
<1>1. WritesClean(merges[k])
  BY DEF Cleanly, CleanMerge
<1> DEFINE m == merges[k]
           meta == CorpusJson(m.metas[1].variant, 0, 1, m.records)
<1>2. /\ store[Whole].manifest = {m.records} /\ store[Whole].figures = {m.records}
      /\ store[Whole].corpus = {meta} /\ Covers(m.records) /\ Stored(m.records)
      /\ \A r \in m.records : r.variant = m.metas[1].variant
  BY <1>1 DEF WritesClean
<1>3. meta.count = 1 /\ meta.records = m.records /\ meta.variant = m.metas[1].variant
  BY DEF CorpusJson
<1> HIDE DEF m, meta
<1>4. QED
  BY <1>2, <1>3 DEF Readable, Complete

(* Only one that is started, as the last, may come to be clean.            *)
LEMMA StartsCleanly ==
  ASSUME CorpusTypeOK, NEW dirs \in Seq(Dirs), dirs # <<>>, NEW byHand \in BOOLEAN,
         Merge(dirs, byHand), UNCHANGED <<store, pods>>
  PROVE  Cleanly'
<1>1. /\ merges \in Seq(Mergers) /\ merges' \in Seq(Mergers) /\ Len(merges') = Len(merges) + 1
      /\ \A k \in DOMAIN merges : merges'[k] = [merges[k] EXCEPT !.clean = FALSE]
      /\ merges'[Len(merges')] = NewMerge(dirs, byHand)
  BY MergeStarts DEF CorpusTypeOK
<1>2. ASSUME NEW k \in DOMAIN merges'
      PROVE  k = Len(merges') \/ (k \in DOMAIN merges /\ ~merges'[k].clean /\ merges'[k].pc = merges[k].pc)
  <2>1. k = Len(merges') \/ k \in DOMAIN merges
    BY <1>1, LenProperties
  <2>2. ASSUME k \in DOMAIN merges
        PROVE  ~merges'[k].clean /\ merges'[k].pc = merges[k].pc
    <3>1. merges[k] \in Mergers
      BY <1>1, <2>2
    <3>2. QED
      BY <1>1, <2>2, <3>1 DEF Mergers, MergerRecords
  <2>3. QED
    BY <2>1, <2>2
<1>3. ASSUME NewMerge(dirs, byHand).clean
      PROVE  ~Live /\ ~Merging /\ \A i \in DOMAIN dirs : Complete(dirs[i])
  BY <1>3 DEF NewMerge
<1>4. Live' = Live
  BY DEF Live
<1>5. ASSUME NEW k \in DOMAIN merges', merges'[k].clean
      PROVE  /\ ~Live' /\ CleanMerge(merges[k])'
             /\ \A j \in DOMAIN merges' : merges'[j].pc \in {"done", "failed"} \/ j = k
  <2>1. k = Len(merges') /\ merges'[k] = NewMerge(dirs, byHand)
    BY <1>1, <1>2, <1>5
  <2>2. ~Live /\ ~Merging
    BY <1>3, <1>5, <2>1
  <2>3. \A j \in DOMAIN merges : merges[j].pc \in {"done", "failed"}
    BY <2>2 DEF Merging
  <2>4. \A i \in DOMAIN dirs : Complete(dirs[i])'
    BY <1>3, <1>5, <2>1 DEF Complete, Stored
  <2>5. /\ merges'[k].pc = "corpus" /\ merges'[k].at = 1 /\ merges'[k].dirs = dirs
        /\ merges'[k].metas = <<>> /\ merges'[k].records = {} /\ merges'[k].figures = {}
    BY <2>1, NewMergeIs
  <2>6. ReadsClean(merges[k], 0)'
    BY <2>4, <2>5 DEF ReadsClean
  <2>7. CleanMerge(merges[k])'
    BY <2>5, <2>6 DEF CleanMerge, Reading, Writing
  <2>8. QED
    BY <1>2, <1>4, <2>1, <2>2, <2>3, <2>7
<1>6. QED
  BY <1>5 DEF Cleanly

LEMMA GenerateCleanly ==
  ASSUME CorpusTypeOK, NEW v \in Variants, NEW c \in ShardCounts, Generate(v, c)
  PROVE  Cleanly'
<1>1. merges' = Uncleaned /\ merges \in Seq(Mergers)
  BY DEF Generate, Uncleaned, CorpusTypeOK
<1>2. ASSUME NEW k \in DOMAIN merges' PROVE ~merges'[k].clean
  <2>1. k \in DOMAIN merges /\ merges'[k] = [merges[k] EXCEPT !.clean = FALSE]
    BY <1>1 DEF Uncleaned
  <2>2. merges[k] \in Mergers
    BY <1>1, <2>1
  <2>3. QED
    BY <2>1, <2>2 DEF Mergers, MergerRecords
<1>3. QED
  BY <1>2 DEF Cleanly

(* While a pod runs no merge is clean.                                     *)
LEMMA PodCleanly ==
  ASSUME CorpusTypeOK, Cleanly, NEW p \in pods, PodWritesBatch(p) \/ PodWrites(p) \/ PodFails(p)
  PROVE  Cleanly'
<1>1. Live /\ UNCHANGED merges
  BY DEF Live, PodWritesBatch, PodWrites, PodFails
<1>2. \A k \in DOMAIN merges' : ~merges'[k].clean
  BY <1>1 DEF Cleanly
<1>3. QED
  BY <1>2 DEF Cleanly

LEMMA UndisturbedCleanly ==
  ASSUME CorpusTypeOK, Cleanly, UNCHANGED <<store, pods, merges>>
  PROVE  Cleanly'
<1>1. Live' = Live
  BY DEF Live
<1>2. ASSUME NEW k \in DOMAIN merges, merges[k].clean PROVE CleanMerge(merges[k])'
  <2>1. CleanMerge(merges[k])
    BY <1>2 DEF Cleanly
  <2>2. PICK m \in Mergers : m = merges[k]
    BY DEF CorpusTypeOK
  <2>3. CleanMerge(m)'
    BY <2>1, <2>2, CleanStays
  <2>4. QED
    BY <2>2, <2>3
<1>3. QED
  BY <1>1, <1>2 DEF Cleanly

LEMMA ScriptCleanly ==
  ASSUME CorpusTypeOK, Cleanly,
         JobComplete \/ MergeComplete \/ Dies
           \/ \E n \in ShardCounts : \E dirs \in [1 .. n -> Dirs] : MergeByHand(dirs)
  PROVE  Cleanly'
<1>1. CASE JobComplete
  <2>1. CASE generation.count = 1
    BY <1>1, <2>1, UndisturbedCleanly DEF JobComplete
  <2>2. CASE generation.count # 1
    <3>1. generation.count \in ShardCounts
      BY <1>1 DEF JobComplete, CorpusTypeOK
    <3>2. QED
      BY <1>1, <2>2, <3>1, ShardDirs, StartsCleanly DEF JobComplete
  <2>3. QED
    BY <2>1, <2>2
<1>2. CASE MergeComplete \/ Dies
  BY <1>2, UndisturbedCleanly DEF MergeComplete, Dies
<1>3. ASSUME NEW n \in ShardCounts, NEW dirs \in [1 .. n -> Dirs], MergeByHand(dirs)
      PROVE  Cleanly'
  BY <1>3, ByHandDirs, StartsCleanly DEF MergeByHand
<1>4. QED
  BY <1>1, <1>2, <1>3

(* What a merge that reads on from complete directories has read.          *)
LEMMA UpToNext ==
  ASSUME NEW metas, NEW i \in Nat
  PROVE  /\ UpTo(metas, 0) = {}
         /\ UpTo(metas, i + 1) = UpTo(metas, i) \cup metas[i + 1].records
<1>1. 1 .. 0 = {} /\ 1 .. i + 1 = (1 .. i) \cup {i + 1}
  OBVIOUS
<1>2. QED
  BY <1>1 DEF UpTo

LEMMA UpToAppend ==
  ASSUME NEW S, NEW metas \in Seq(S), NEW meta \in S, NEW i \in 0 .. Len(metas)
  PROVE  UpTo(Append(metas, meta), i) = UpTo(metas, i)
<1>1. \A j \in 1 .. i : j \in 1 .. Len(metas) /\ Append(metas, meta)[j] = metas[j]
  BY AppendProperties
<1>2. QED
  BY <1>1 DEF UpTo

(* A complete directory says the same in each of its files.                *)
LEMMA CompleteDir ==
  ASSUME CorpusTypeOK, NEW d \in Dirs, Complete(d), NEW meta \in store[d].corpus
  PROVE  /\ store[d].manifest = {meta.records} /\ store[d].figures = {meta.records}
         /\ \A r \in meta.records : r.variant = meta.variant
         /\ Stored(meta.records)
BY DEF CorpusTypeOK, Complete

(* Reading one file from a complete directory.                             *)
LEMMA ReadsOne ==
  ASSUME CorpusTypeOK, NEW m \in Mergers, m.pc \in Reading, ReadsClean(m, m.at - 1),
         NEW n \in MergerRecords, HasRead(m, n), n.pc = m.pc, n.at = m.at, n.dirs = m.dirs
  PROVE  ReadsClean(n, n.at)
<1> DEFINE d == m.dirs[m.at]
<1>1. /\ m \in MergerRecords /\ m.at \in 1 .. Len(m.dirs) /\ m.dirs \in Seq(Dirs)
      /\ m.metas \in Seq(AnyCorpusJson) /\ Len(m.metas) \in Nat /\ Len(m.dirs) \in Nat
      /\ m.at \in Nat \ {0} /\ m.at - 1 \in Nat /\ (m.at - 1) + 1 = m.at
      /\ d \in Dirs /\ m.at \in DOMAIN m.dirs
  BY LenProperties DEF Mergers, MergerRecords
<1>2. Complete(d)
  BY <1>1 DEF ReadsClean
<1>3. CASE m.pc = "corpus"
  <2>1. PICK meta \in store[d].corpus : n = [m EXCEPT !.metas = Append(@, meta)]
    BY <1>3 DEF HasRead
  <2>2. /\ n.metas = Append(m.metas, meta) /\ n.records = m.records /\ n.figures = m.figures
    BY <1>1, <2>1 DEF MergerRecords
  <2>3. meta \in AnyCorpusJson
    BY <1>1 DEF CorpusTypeOK, Files
  <2>4. /\ Len(m.metas) = m.at - 1 /\ Len(n.metas) = m.at /\ n.metas[m.at] = meta
        /\ \A j \in 1 .. m.at - 1 : n.metas[j] = m.metas[j]
        /\ n.metas \in Seq(AnyCorpusJson) /\ DOMAIN n.metas = 1 .. m.at /\ DOMAIN m.metas = 1 .. m.at - 1
    BY <1>1, <1>3, <2>2, <2>3, AppendProperties, LenProperties DEF ReadsClean
  <2>5. ASSUME NEW j \in DOMAIN n.metas PROVE n.metas[j] \in store[n.dirs[j]].corpus
    <3>1. CASE j = m.at
      BY <2>4, <3>1
    <3>2. CASE j # m.at
      <4>1. j \in 1 .. m.at - 1
        BY <1>1, <2>4, <3>2
      <4>2. QED
        BY <2>4, <4>1 DEF ReadsClean
    <3>3. QED
      BY <3>1, <3>2
  <2>6. QED
    BY <1>3, <2>2, <2>4, <2>5 DEF ReadsClean
<1>4. CASE m.pc = "manifest"
  <2>1. PICK rs \in store[d].manifest : n = [m EXCEPT !.records = @ \cup rs]
    BY <1>4 DEF HasRead
  <2>2. n.metas = m.metas /\ n.records = m.records \cup rs /\ n.figures = m.figures
    BY <1>1, <2>1 DEF MergerRecords
  <2>3. m.metas[m.at] \in store[d].corpus
    BY <1>1, <1>4, LenProperties DEF ReadsClean
  <2>4. rs = m.metas[m.at].records
    BY <1>1, <1>2, <2>1, <2>3, CompleteDir
  <2>5. n.records = UpTo(n.metas, m.at)
    BY <1>1, <1>4, <2>2, <2>4, UpToNext DEF ReadsClean
  <2>6. QED
    BY <1>4, <2>2, <2>5 DEF ReadsClean
<1>5. CASE m.pc = "figures"
  <2>1. PICK rs \in store[d].figures : n = [m EXCEPT !.figures = @ \cup rs]
    BY <1>5 DEF HasRead
  <2>2. n.metas = m.metas /\ n.figures = m.figures \cup rs /\ n.records = m.records
    BY <1>1, <2>1 DEF MergerRecords
  <2>3. m.metas[m.at] \in store[d].corpus
    BY <1>1, <1>5, LenProperties DEF ReadsClean
  <2>4. rs = m.metas[m.at].records
    BY <1>1, <1>2, <2>1, <2>3, CompleteDir
  <2>5. n.figures = UpTo(n.metas, m.at)
    BY <1>1, <1>5, <2>2, <2>4, UpToNext DEF ReadsClean
  <2>6. QED
    BY <1>5, <2>2, <2>5 DEF ReadsClean
<1>6. QED
  BY <1>3, <1>4, <1>5 DEF Reading

(* Past the last file: the records are those of every corpus.json.         *)
LEMMA ReadAll ==
  ASSUME CorpusTypeOK, NEW m \in MergerRecords, ReadsClean(m, Len(m.dirs)), m.pc = "figures",
         m.metas # <<>>
  PROVE  /\ Covers(m.records) /\ m.figures = m.records /\ Stored(m.records)
         /\ \A r \in m.records : r.variant = m.metas[1].variant
<1>1. /\ Covers(m.records) /\ m.records = UpTo(m.metas, Len(m.dirs)) /\ m.figures = m.records
      /\ Len(m.metas) = Len(m.dirs) /\ Agreed(m.metas)
  BY DEF ReadsClean
<1>2. ASSUME NEW r \in m.records
      PROVE  store[r.dir].batches[r.batch] = r.variant /\ r.variant = m.metas[1].variant
  <2>1. PICK j \in 1 .. Len(m.dirs) : r \in m.metas[j].records
    BY <1>1 DEF UpTo
  <2>2. j \in DOMAIN m.metas /\ j \in DOMAIN m.dirs /\ m.dirs[j] \in Dirs
    BY <1>1, LenProperties DEF MergerRecords
  <2>3. m.metas[j] \in store[m.dirs[j]].corpus /\ Complete(m.dirs[j])
    BY <2>2 DEF ReadsClean
  <2>4. Stored(m.metas[j].records) /\ r.variant = m.metas[j].variant
    BY <2>1, <2>2, <2>3, CompleteDir
  <2>5. m.metas[j].variant = m.metas[1].variant
    BY <1>1, <2>2 DEF Agreed
  <2>6. QED
    BY <2>1, <2>4, <2>5 DEF Stored
<1>3. QED
  BY <1>1, <1>2 DEF Stored

LEMMA NextIsClean ==
  ASSUME CorpusTypeOK, NEW m \in MergerRecords, m.pc \in Reading, m.at \in 1 .. Len(m.dirs),
         m.metas # <<>>, ReadsClean(m, m.at)
  PROVE  CleanMerge(NextFile(m))
<1> PICK n : n = NextFile(m)
  OBVIOUS
<1>1. /\ n.dirs = m.dirs /\ n.metas = m.metas /\ n.records = m.records /\ n.figures = m.figures
      /\ m.at < Len(m.dirs) \/ m.at = Len(m.dirs)
  BY AfterRead
<1>2. CASE m.at < Len(m.dirs)
  <2>1. n.at = m.at + 1 /\ n.pc = m.pc /\ m.at \in Nat
    BY <1>2, ReadsOn DEF MergerRecords
  <2>2. ReadsClean(n, n.at - 1)
    BY <1>1, <2>1 DEF ReadsClean
  <2>3. QED
    BY <2>1, <2>2 DEF CleanMerge, Reading, Writing
<1>3. CASE m.at = Len(m.dirs)
  <2>0. n.at = 1
    BY <1>3, ReadsOver
  <2>1. n.at - 1 = 0
    BY <2>0
  <2>2. CASE n.pc = "manifest" /\ m.pc = "corpus" /\ Accepts(m.metas)
    <3>1. ReadsClean(n, 0)
      BY <1>1, <1>3, <2>2, UpToNext DEF ReadsClean, Accepts
    <3>2. QED
      BY <2>1, <2>2, <3>1 DEF CleanMerge, Writing
  <2>3. CASE n.pc = "figures" /\ m.pc = "manifest" /\ Covers(m.records)
    <3>1. ReadsClean(n, 0)
      BY <1>1, <1>3, <2>3, UpToNext DEF ReadsClean
    <3>2. QED
      BY <2>1, <2>3, <3>1 DEF CleanMerge, Writing
  <2>4. CASE n.pc = "write manifest" /\ m.pc = "figures"
    <3>1. WritesClean(n)
      BY <1>1, <1>3, <2>4, ReadAll DEF WritesClean, Stored
    <3>2. QED
      BY <2>4, <3>1 DEF CleanMerge, Reading
  <2>5. CASE n.pc = "failed"
    BY <2>5 DEF CleanMerge, Reading, Writing
  <2>6. QED
    BY <1>3, <2>2, <2>3, <2>4, <2>5, ReadsOver
<1>4. QED
  BY <1>1, <1>2, <1>3

LEMMA ReadsCleanly ==
  ASSUME CorpusTypeOK, NEW k \in DOMAIN merges, CleanMerge(merges[k]), MergeReads(k)
  PROVE  CleanMerge(merges[k])'
<1>1. PICK n \in MergerRecords :
        /\ HasRead(merges[k], n) /\ merges' = [merges EXCEPT ![k] = NextFile(n)]
        /\ n.pc \in Reading /\ n.at \in 1 .. Len(n.dirs) /\ n.metas # <<>>
        /\ n.pc = merges[k].pc /\ n.at = merges[k].at /\ n.dirs = merges[k].dirs
  BY Reads
<1>2. merges \in Seq(Mergers) /\ merges[k] \in Mergers
  BY DEF CorpusTypeOK
<1>3. ReadsClean(merges[k], merges[k].at - 1)
  BY <1>1 DEF CleanMerge
<1>4. ReadsClean(n, n.at)
  BY <1>1, <1>2, <1>3, ReadsOne
<1>5. CleanMerge(NextFile(n)) /\ NextFile(n) \in Mergers
  BY <1>1, <1>4, NextIsClean, AfterRead
<1>6. merges'[k] = NextFile(n)
  BY <1>1, <1>2, <1>5, MergerMoves
<1>7. PICK m \in Mergers : m = NextFile(n)
  BY <1>5
<1>8. CleanMerge(m)'
  BY <1>5, <1>7, CleanStays DEF MergeReads
<1>9. QED
  BY <1>6, <1>7, <1>8

LEMMA WritesCleanly ==
  ASSUME CorpusTypeOK, NEW k \in DOMAIN merges, CleanMerge(merges[k]), MergeWrites(k)
  PROVE  CleanMerge(merges[k])'
<1> DEFINE m == merges[k]
<1>0. m \in Mergers /\ m.records \in AnyRecords /\ merges \in Seq(Mergers)
  BY DEF CorpusTypeOK, Mergers, MergerRecords
<1>1. PICK pc \in {"write figures", "write corpus", "done"} :
        /\ merges' = [merges EXCEPT ![k].pc = pc] /\ m.pc \in Writing
        /\ pc = "write figures" => store'[Whole].manifest = {m.records}
        /\ pc = "write corpus" => /\ m.pc = "write figures" /\ store'[Whole].figures = {m.figures}
                                  /\ store'[Whole].manifest = store[Whole].manifest
        /\ pc = "done" => /\ m.pc = "write corpus"
                          /\ store'[Whole].corpus = {CorpusJson(m.metas[1].variant, 0, 1, m.records)}
                          /\ store'[Whole].manifest = store[Whole].manifest
                          /\ store'[Whole].figures = store[Whole].figures
  BY Writes DEF Writing
<1>2. WritesClean(m)
  BY <1>1 DEF CleanMerge
<1>3. /\ merges'[k].pc = pc /\ merges'[k].metas = m.metas
      /\ merges'[k].records = m.records /\ merges'[k].figures = m.figures
  BY <1>0, <1>1, MergerGoes DEF Writing
<1>4. \A r \in m.records : store'[r.dir].batches[r.batch] = r.variant
  BY <1>0, <1>2, Writes, KeptStill, KeptRecords DEF WritesClean
<1> HIDE DEF m
<1>5. /\ merges'[k].metas # <<>> /\ Covers(merges'[k].records) /\ merges'[k].figures = merges'[k].records
      /\ \A r \in merges'[k].records : store'[r.dir].batches[r.batch] = r.variant
      /\ \A r \in merges'[k].records : r.variant = merges'[k].metas[1].variant
  BY <1>2, <1>3, <1>4 DEF WritesClean
<1>6. /\ pc \in {"write figures", "write corpus", "done"} => store'[Whole].manifest = {m.records}
      /\ pc \in {"write corpus", "done"} => store'[Whole].figures = {m.records}
      /\ pc = "done" => store'[Whole].corpus = {CorpusJson(m.metas[1].variant, 0, 1, m.records)}
  BY <1>1, <1>2 DEF WritesClean
<1>7. WritesClean(merges[k])'
  BY <1>3, <1>5, <1>6 DEF WritesClean, Stored
<1>8. QED
  BY <1>3, <1>7 DEF CleanMerge, Reading

LEMMA MergeCleanly ==
  ASSUME CorpusTypeOK, Cleanly, NEW k \in DOMAIN merges,
         MergeReads(k) \/ MergeWrites(k) \/ MergeFails(k)
  PROVE  Cleanly'
<1>1. /\ DOMAIN merges' = DOMAIN merges /\ \A j \in DOMAIN merges : j # k => merges'[j] = merges[j]
      /\ merges'[k].clean = merges[k].clean
  BY MergerFrame
<1>2. merges[k].pc \notin {"done", "failed"}
  BY DEF MergeReads, MergeWrites, MergeFails
<1>3. Live' = Live
  BY DEF Live, MergeReads, MergeWrites, MergeFails
<1>4. ASSUME NEW j \in DOMAIN merges', merges'[j].clean
      PROVE  /\ ~Live' /\ CleanMerge(merges[j])'
             /\ \A i \in DOMAIN merges' : merges'[i].pc \in {"done", "failed"} \/ i = j
  <2>1. j = k /\ merges[k].clean
    BY <1>1, <1>2, <1>4 DEF Cleanly
  <2>2. ~Live /\ CleanMerge(merges[k]) /\ \A i \in DOMAIN merges : merges[i].pc \in {"done", "failed"} \/ i = k
    BY <2>1 DEF Cleanly
  <2>3. CleanMerge(merges[k])'
    <3>1. CASE MergeReads(k)
      BY <2>2, <3>1, ReadsCleanly
    <3>2. CASE MergeWrites(k)
      BY <2>2, <3>2, WritesCleanly
    <3>3. CASE MergeFails(k)
      <4>1. merges'[k].pc = "failed"
        BY <3>3, MergerGoes DEF MergeFails, CorpusTypeOK, Writing
      <4>2. QED
        BY <4>1 DEF CleanMerge, Reading, Writing
    <3>4. QED
      BY <3>1, <3>2, <3>3
  <2>4. QED
    BY <1>1, <1>3, <2>1, <2>2, <2>3
<1>5. QED
  BY <1>4 DEF Cleanly

LEMMA StaysClean == CorpusTypeOK /\ Cleanly /\ [CorpusNext]_corpusVars => Cleanly'
<1> SUFFICES ASSUME CorpusTypeOK, Cleanly, [CorpusNext]_corpusVars PROVE Cleanly'
  OBVIOUS
<1>1. ASSUME NEW v \in Variants, NEW c \in ShardCounts, Generate(v, c) PROVE Cleanly'
  BY <1>1, GenerateCleanly
<1>2. CASE UNCHANGED corpusVars
  BY <1>2, UndisturbedCleanly DEF corpusVars
<1>3. QED
  BY <1>1, <1>2, PodCleanly, ScriptCleanly, MergeCleanly DEF CorpusNext, ProcessStep

----------------------------------------------------------------------------
(* A generation that began alone                                           *)

(* As long as nobody else is at work, the directory of each pod has what   *)
(* the pod has written; then the merge of the shards is clean and of this  *)
(* seed; then nobody is at work.                                           *)
Progress(p) ==
  /\ \A b \in Select(p.index, p.count) \ p.todo : store[Home(p)].batches[b] = p.variant
  /\ p.at > 2 => store[Home(p)].manifest = {Records(p)}
  /\ p.at > 3 => store[Home(p)].figures = {Records(p)}
  /\ p.at > 4 => store[Home(p)].corpus = {CorpusJson(p.variant, p.index, p.count, Records(p))}

JobRuns ==
  /\ ~Merging
  /\ \A p \in pods : /\ p.gen = generation.gen /\ p.count = generation.count
                     /\ p.variant = generation.variant /\ Progress(p)
  /\ \A p, q \in pods : p.index = q.index => p = q
  /\ \A i \in 0 .. generation.count - 1 : \E p \in pods : p.index = i

MergeRuns ==
  LET m == merges[Len(merges)] IN
    /\ merges # <<>> /\ m.clean
    /\ \A i \in DOMAIN m.dirs : /\ m.dirs[i] # Whole
                               /\ \A meta \in store[m.dirs[i]].corpus : meta.variant = generation.variant
    /\ \A i \in DOMAIN m.metas : m.metas[i].variant = generation.variant

IsPrinted ==
  /\ ~Live /\ ~Merging /\ Readable(Whole) /\ Complete(Whole)
  /\ \A meta \in store[Whole].corpus : meta.variant = generation.variant

Undisturbed ==
  generation.alone =>
    /\ generation.pc = "generating" => JobRuns
    /\ generation.pc = "merging" => MergeRuns
    /\ generation.pc = "done" => IsPrinted

LEMMA OtherHomes ==
  ASSUME NEW p \in Generators, NEW o \in Generators, p.count = o.count, p.index # o.index
  PROVE  Home(p) # Home(o)
<1>1. /\ p.index \in Nat /\ o.index \in Nat /\ p.count \in Nat
      /\ p.index < p.count /\ o.index < p.count
  BY CorpusAssumption DEF Generators, GeneratorRecords
<1>2. p.count # 1
  BY <1>1
<1>3. QED
  BY <1>1, <1>2 DEF Home, DirOf

LEMMA ProgressStays ==
  ASSUME NEW o, Progress(o), store'[Home(o)] = store[Home(o)]
  PROVE  Progress(o)'
BY DEF Progress, Home

(* A pod alone in its directory finds there what it wrote.                 *)
LEMMA BatchProgress ==
  ASSUME CorpusTypeOK, NEW p \in Generators, Progress(p), p.state = "running",
         WriteOrder[p.at] = "batches", NEW b \in p.todo, BatchIs(Home(p), b, p.variant)
  PROVE  Progress(PastBatch(p, b))'
<1>1. /\ b \in Batches /\ PastBatch(p, b).at \in {1, 2} /\ PastBatch(p, b).todo = p.todo \ {b}
      /\ PastBatch(p, b).index = p.index
      /\ PastBatch(p, b).count = p.count /\ PastBatch(p, b).variant = p.variant
  BY AfterBatch
<1>2. PICK q : q = PastBatch(p, b)
  OBVIOUS
<1>3. Home(q) = Home(p) /\ Home(p) \in Dirs /\ q.at \in {1, 2}
  BY <1>1, <1>2, HomeIsDir DEF Home
<1>4. ASSUME NEW c \in Select(q.index, q.count) \ q.todo PROVE store'[Home(q)].batches[c] = q.variant
  <2>1. c = b \/ c \in Select(p.index, p.count) \ p.todo
    BY <1>1, <1>2
  <2>2. c \in Batches
    BY DEF Select
  <2>3. CASE c = b
    BY <1>1, <1>2, <1>3, <2>3 DEF BatchIs
  <2>4. CASE c # b
    BY <1>1, <1>2, <1>3, <2>1, <2>2, <2>4 DEF BatchIs, Progress
  <2>5. QED
    BY <2>3, <2>4
<1>5. Progress(q)'
  BY <1>3, <1>4 DEF Progress, Home
<1>6. QED
  BY <1>2, <1>5

LEMMA FileProgress ==
  ASSUME CorpusTypeOK, NEW p \in Generators, Progress(p), p.state = "running",
         WriteOrder[p.at] = "batches" => p.todo = {}, FileIs(Home(p), p, WriteOrder[p.at])
  PROVE  Progress(PastFile(p))'
<1>1. /\ PastFile(p).at = p.at + 1 /\ PastFile(p).todo = {} /\ p.todo = {} /\ p.at \in 1 .. 4
      /\ PastFile(p).index = p.index
      /\ PastFile(p).count = p.count /\ PastFile(p).variant = p.variant
  BY AfterFile
<1>2. PICK q : q = PastFile(p)
  OBVIOUS
<1>3. Home(q) = Home(p) /\ Home(p) \in Dirs /\ Records(q) = Records(p) /\ q.at = p.at + 1
  BY <1>1, <1>2, HomeIsDir DEF Home, Records
<1>4. /\ WriteOrder[p.at] = "manifest" <=> p.at = 2
      /\ WriteOrder[p.at] = "figures" <=> p.at = 3
      /\ WriteOrder[p.at] = "corpus" <=> p.at = 4
  BY <1>1, Order
<1>5. \A c \in Select(q.index, q.count) \ q.todo : store'[Home(q)].batches[c] = q.variant
  BY <1>1, <1>2, <1>3 DEF FileIs, Progress
<1>6. /\ q.at > 2 => store'[Home(q)].manifest = {Records(q)}
      /\ q.at > 3 => store'[Home(q)].figures = {Records(q)}
      /\ q.at > 4 => store'[Home(q)].corpus = {CorpusJson(q.variant, q.index, q.count, Records(q))}
  BY <1>1, <1>2, <1>3, <1>4 DEF FileIs, Progress
<1>7. Progress(q)'
  BY <1>5, <1>6 DEF Progress, Home
<1>8. QED
  BY <1>2, <1>7

(* A pod that is done leaves its directory complete.                       *)
LEMMA DoneIsComplete ==
  ASSUME CorpusTypeOK, NEW p \in pods, Progress(p), p.state = "done"
  PROVE  /\ Complete(Home(p)) /\ store[Home(p)].manifest = {Records(p)}
         /\ store[Home(p)].corpus = {CorpusJson(p.variant, p.index, p.count, Records(p))}
<1>1. p.at = 5 /\ p.todo = {}
  BY DEF CorpusTypeOK, Generators, GeneratorRecords
<1>2. /\ store[Home(p)].manifest = {Records(p)} /\ store[Home(p)].figures = {Records(p)}
      /\ store[Home(p)].corpus = {CorpusJson(p.variant, p.index, p.count, Records(p))}
      /\ \A b \in Select(p.index, p.count) : store[Home(p)].batches[b] = p.variant
  BY <1>1 DEF Progress
<1>3. Stored(Records(p)) /\ \A r \in Records(p) : r.variant = p.variant
  BY <1>2 DEF Stored, Records, Home
<1>4. QED
  BY <1>2, <1>3 DEF Complete, CorpusJson

(* The records of a single shard are every batch once.                     *)
LEMMA OneShardCovers ==
  ASSUME NEW p \in Generators, p.count = 1
  PROVE  Covers(Records(p))
<1> DEFINE record == [b \in Batches |-> [batch |-> b, dir |-> DirOf(p.index, p.count), variant |-> p.variant]]
<1>1. p.index = 0
  BY DEF Generators, GeneratorRecords
<1>2. Select(p.index, p.count) = Batches
  BY <1>1, CorpusAssumption DEF Select, Batches
<1>3. Records(p) = {record[b] : b \in Batches}
  BY <1>2 DEF Records
<1>4. {r.batch : r \in Records(p)} = Batches
  <2>1. \A b \in Batches : record[b] \in Records(p) /\ record[b].batch = b
    BY <1>3
  <2>2. \A r \in Records(p) : r.batch \in Batches
    BY <1>2 DEF Records
  <2> HIDE DEF record
  <2>3. QED
    BY <2>1, <2>2
<1>5. record \in [Batches -> Records(p)] /\ \A b, c \in Batches : record[b] = record[c] => b = c
  BY <1>3
<1>6. \A r \in Records(p) : \E b \in Batches : record[b] = r
  BY <1>3
<1>7. record \in Bijection(Batches, Records(p))
  <2> HIDE DEF record
  <2>1. QED
    BY <1>5, <1>6, Fun_IsBij
<1>8. IsFiniteSet(Batches) /\ Cardinality(Batches) = NBatches
  <2>1. NBatches - 1 \in Int /\ ~(0 > NBatches - 1) /\ NBatches - 1 - 0 + 1 = NBatches
    BY CorpusAssumption
  <2>2. QED
    BY <2>1, FS_Interval DEF Batches
<1>9. Cardinality(Records(p)) = NBatches
  BY <1>7, <1>8, FS_Bijection DEF ExistsBijection
<1>10. QED
  BY <1>4, <1>9 DEF Covers

LEMMA GenerateUndisturbed ==
  ASSUME CorpusTypeOK, NEW v \in Variants, NEW c \in ShardCounts, Generate(v, c)
  PROVE  Undisturbed'
<1> SUFFICES ASSUME generation'.alone PROVE JobRuns'
  BY DEF Undisturbed, Generate
<1>1. /\ ~Live /\ ~Merging
      /\ generation'.gen = generation.gen + 1 /\ generation'.variant = v /\ generation'.count = c
  BY DEF Generate
<1>2. ~Merging'
  <2>1. ASSUME NEW k \in DOMAIN merges' PROVE k \in DOMAIN merges /\ merges'[k].pc = merges[k].pc
    <3>1. k \in DOMAIN merges /\ merges'[k] = [merges[k] EXCEPT !.clean = FALSE]
      BY DEF Generate
    <3>2. merges[k] \in Mergers
      BY <3>1 DEF CorpusTypeOK
    <3>3. QED
      BY <3>1, <3>2 DEF Mergers, MergerRecords
  <2>2. QED
    BY <1>1, <2>1 DEF Merging
<1> DEFINE pod(i) == [gen |-> generation.gen + 1, index |-> i, variant |-> v, count |-> c,
                      at |-> 1, todo |-> Select(i, c), state |-> "running"]
<1>3. pods' = {pod(i) : i \in 0 .. c - 1}
  <2>1. {p \in pods : p.state = "running"} = {}
    BY <1>1 DEF Live
  <2>2. QED
    BY <2>1 DEF Generate
<1>4. \A i \in 0 .. c - 1 :
        /\ pod(i).gen = generation.gen + 1 /\ pod(i).index = i /\ pod(i).variant = v /\ pod(i).count = c
        /\ pod(i).at = 1 /\ pod(i).todo = Select(pod(i).index, pod(i).count)
  OBVIOUS
<1> HIDE DEF pod
<1>5. ASSUME NEW p \in pods'
      PROVE  /\ p.gen = generation'.gen /\ p.count = generation'.count
             /\ p.variant = generation'.variant /\ Progress(p)'
  <2>1. PICK i \in 0 .. c - 1 : p = pod(i)
    BY <1>3
  <2>2. p.at = 1 /\ p.todo = Select(p.index, p.count)
    BY <1>4, <2>1
  <2>3. Progress(p)'
    BY <2>2 DEF Progress
  <2>4. QED
    BY <1>1, <1>4, <2>1, <2>3
<1>6. \A p, q \in pods' : p.index = q.index => p = q
  BY <1>3, <1>4
<1>7. \A i \in 0 .. generation'.count - 1 : \E p \in pods' : p.index = i
  BY <1>1, <1>3, <1>4
<1>8. QED
  BY <1>2, <1>5, <1>6, <1>7 DEF JobRuns

(* What a step of a pod does to the pods of its Job.                       *)
LEMMA JobGoesOn ==
  ASSUME CorpusTypeOK, JobRuns, NEW p \in pods, NEW q, pods' = (pods \ {p}) \cup {q},
         UNCHANGED <<merges, generation>>, Progress(q)',
         q.gen = p.gen, q.index = p.index, q.count = p.count, q.variant = p.variant,
         \A d \in Dirs : d # Home(p) => store'[d] = store[d]
  PROVE  JobRuns'
<1>1. ~Merging'
  BY DEF JobRuns, Merging
<1>2. ASSUME NEW o \in pods' PROVE o = q \/ (o \in pods /\ o.index # p.index)
  BY DEF JobRuns
<1>3. ASSUME NEW o \in pods, o.index # p.index PROVE Progress(o)'
  <2>1. o \in Generators /\ p \in Generators /\ o.count = p.count /\ Progress(o)
    BY DEF CorpusTypeOK, JobRuns
  <2>2. Home(o) # Home(p) /\ Home(o) \in Dirs
    BY <1>3, <2>1, OtherHomes, HomeIsDir
  <2>3. QED
    BY <2>1, <2>2, ProgressStays
<1>4. ASSUME NEW o \in pods'
      PROVE  /\ o.gen = generation'.gen /\ o.count = generation'.count
             /\ o.variant = generation'.variant /\ Progress(o)'
  BY <1>2, <1>3 DEF JobRuns
<1>5. \A o, u \in pods' : o.index = u.index => o = u
  BY <1>2 DEF JobRuns
<1>6. \A i \in 0 .. generation'.count - 1 : \E o \in pods' : o.index = i
  <2> SUFFICES ASSUME NEW i \in 0 .. generation.count - 1 PROVE \E o \in pods' : o.index = i
    OBVIOUS
  <2>1. PICK o \in pods : o.index = i
    BY DEF JobRuns
  <2>2. QED
    BY <2>1
<1>7. QED
  BY <1>1, <1>4, <1>5, <1>6 DEF JobRuns

LEMMA PodUndisturbed ==
  ASSUME CorpusTypeOK, Cleanly, Undisturbed, NEW p \in pods,
         PodWritesBatch(p) \/ PodWrites(p) \/ PodFails(p)
  PROVE  Undisturbed'
<1>0. /\ p \in Generators /\ store \in [Dirs -> Files] /\ Home(p) \in Dirs /\ p.variant \in Variants
      /\ p.state = "running" /\ UNCHANGED <<merges, generation>> /\ Live
  BY HomeIsDir DEF CorpusTypeOK, Live, PodWritesBatch, PodWrites, PodFails, Generators, GeneratorRecords
<1>1. ~(generation.alone /\ generation.pc = "done")
  BY <1>0 DEF Undisturbed, IsPrinted
<1>2. ~(generation.alone /\ generation.pc = "merging")
  <2> SUFFICES ASSUME merges # <<>>, merges[Len(merges)].clean PROVE FALSE
    BY DEF Undisturbed, MergeRuns
  <2>1. Len(merges) \in DOMAIN merges
    BY EmptySeq, LenProperties DEF CorpusTypeOK
  <2>2. QED
    BY <1>0, <2>1 DEF Cleanly
<1>3. ASSUME generation.alone, generation.pc = "generating" PROVE JobRuns'
  <2>0. JobRuns /\ Progress(p)
    BY <1>3 DEF Undisturbed, JobRuns
  <2>1. CASE PodWritesBatch(p)
    <3>1. PICK b \in p.todo :
            /\ store' = [store EXCEPT ![Home(p)] = WriteBatch(@, b, p.variant)]
            /\ pods' = (pods \ {p}) \cup {PastBatch(p, b)}
      BY <2>1 DEF PodWritesBatch, Home, Becomes
    <3>2. WriteOrder[p.at] = "batches"
      BY <2>1 DEF PodWritesBatch
    <3>3. /\ b \in Batches /\ PastBatch(p, b).gen = p.gen /\ PastBatch(p, b).index = p.index
          /\ PastBatch(p, b).count = p.count /\ PastBatch(p, b).variant = p.variant
      BY <1>0, <3>2, AfterBatch
    <3>4. BatchIs(Home(p), b, p.variant)
      BY <1>0, <3>1, <3>3, BatchWritten
    <3>5. Progress(PastBatch(p, b))'
      BY <1>0, <2>0, <3>2, <3>4, BatchProgress
    <3>6. \A d \in Dirs : d # Home(p) => store'[d] = store[d]
      BY <1>0, <3>1
    <3>7. QED
      BY <1>0, <2>0, <3>1, <3>3, <3>5, <3>6, JobGoesOn
  <2>2. CASE PodWrites(p)
    <3>1. /\ store' = [store EXCEPT ![Home(p)] = Written(@, p, WriteOrder[p.at])]
          /\ pods' = (pods \ {p}) \cup {PastFile(p)}
          /\ WriteOrder[p.at] = "batches" => p.todo = {}
      BY <2>2 DEF PodWrites, Home, Becomes
    <3>2. /\ PastFile(p).gen = p.gen /\ PastFile(p).index = p.index
          /\ PastFile(p).count = p.count /\ PastFile(p).variant = p.variant
          /\ WriteOrder[p.at] \in {"batches", "manifest", "figures", "corpus"}
      BY <1>0, <3>1, AfterFile
    <3>3. FileIs(Home(p), p, WriteOrder[p.at])
      BY <1>0, <3>1, <3>2, FileWritten
    <3>4. Progress(PastFile(p))'
      BY <1>0, <2>0, <3>1, <3>3, FileProgress
    <3>5. \A d \in Dirs : d # Home(p) => store'[d] = store[d]
      BY <3>3 DEF FileIs
    <3>6. QED
      BY <1>0, <2>0, <3>1, <3>2, <3>4, <3>5, JobGoesOn
  <2>3. CASE PodFails(p)
    <3>1. PICK q : q = [p EXCEPT !.state = "failed"]
      OBVIOUS
    <3>2. /\ pods' = (pods \ {p}) \cup {q} /\ UNCHANGED store
          /\ q.gen = p.gen /\ q.index = p.index /\ q.count = p.count /\ q.todo = p.todo
          /\ q.variant = p.variant /\ q.at = p.at
      BY <1>0, <2>3, <3>1 DEF Becomes, PodFails, Generators, GeneratorRecords
    <3>3. Progress(q)'
      BY <2>0, <3>2 DEF Progress, Home, Records
    <3>4. QED
      BY <1>0, <2>0, <3>2, <3>3, JobGoesOn
  <2>4. QED
    BY <2>1, <2>2, <2>3
<1>4. QED
  BY <1>0, <1>1, <1>2, <1>3 DEF Undisturbed

(* When the Job is complete, the directory of every shard is.              *)
LEMMA JobLeaves ==
  ASSUME CorpusTypeOK, JobRuns, \A p \in JobPods : p.state = "done"
  PROVE  /\ ~Live
         /\ \A i \in 0 .. generation.count - 1 :
              LET d == DirOf(i, generation.count) IN
                /\ Complete(d) /\ \A meta \in store[d].corpus : meta.variant = generation.variant
         /\ generation.count = 1 => Readable(Whole)
<1>1. \A p \in pods : p \in Generators /\ p.state = "done"
  BY DEF JobRuns, JobPods, CorpusTypeOK
<1>2. ASSUME NEW i \in 0 .. generation.count - 1
      PROVE  \E p \in pods :
               /\ p \in Generators /\ p.count = generation.count /\ Home(p) = DirOf(i, generation.count)
               /\ Complete(Home(p)) /\ store[Home(p)].manifest = {Records(p)}
               /\ store[Home(p)].corpus = {CorpusJson(generation.variant, p.index, p.count, Records(p))}
  <2>1. PICK p \in pods : p.index = i
    BY DEF JobRuns
  <2>2. p \in Generators /\ p.state = "done" /\ p.count = generation.count
        /\ p.variant = generation.variant /\ Progress(p)
    BY <1>1 DEF JobRuns
  <2>3. /\ Complete(Home(p)) /\ store[Home(p)].manifest = {Records(p)}
        /\ store[Home(p)].corpus = {CorpusJson(p.variant, p.index, p.count, Records(p))}
    BY <2>2, DoneIsComplete
  <2>4. Home(p) = DirOf(i, generation.count)
    BY <2>1, <2>2 DEF Home
  <2>5. QED
    BY <2>2, <2>3, <2>4
<1>3. ASSUME NEW i \in 0 .. generation.count - 1
      PROVE  /\ Complete(DirOf(i, generation.count))
             /\ \A meta \in store[DirOf(i, generation.count)].corpus : meta.variant = generation.variant
  BY <1>2 DEF CorpusJson
<1>4. ASSUME generation.count = 1 PROVE Readable(Whole)
  <2>1. 0 \in 0 .. generation.count - 1 /\ DirOf(0, generation.count) = Whole
    BY <1>4 DEF DirOf
  <2>2. PICK p \in pods :
          /\ p \in Generators /\ p.count = 1 /\ store[Whole].manifest = {Records(p)}
          /\ store[Whole].corpus = {CorpusJson(generation.variant, p.index, p.count, Records(p))}
    BY <1>2, <1>4, <2>1
  <2>3. Covers(Records(p))
    BY <2>2, OneShardCovers
  <2>4. QED
    BY <2>2, <2>3 DEF Readable, CorpusJson
<1>5. ~Live
  BY <1>1 DEF Live
<1>6. QED
  BY <1>3, <1>4, <1>5

LEMMA JobCompleteUndisturbed ==
  ASSUME CorpusTypeOK, Undisturbed, JobComplete
  PROVE  Undisturbed'
<1> SUFFICES ASSUME generation'.alone PROVE Undisturbed'
  BY DEF Undisturbed
<1>1. /\ generation.pc = "generating" /\ generation.alone
      /\ generation'.variant = generation.variant /\ UNCHANGED <<store, pods>>
  BY DEF JobComplete, Printed, CorpusTypeOK
<1>2. JobRuns /\ ~Merging /\ \A p \in JobPods : p.state = "done"
  BY <1>1 DEF Undisturbed, JobRuns, JobComplete
<1>3. CASE generation.count = 1
  <2>1. 0 \in 0 .. generation.count - 1 /\ DirOf(0, generation.count) = Whole
    BY <1>3 DEF DirOf
  <2>2. ~Live /\ Complete(Whole) /\ Readable(Whole)
        /\ \A meta \in store[Whole].corpus : meta.variant = generation.variant
    BY <1>2, <1>3, <2>1, JobLeaves
  <2>3. generation'.pc = "done" /\ UNCHANGED merges
    BY <1>3 DEF JobComplete, Printed, CorpusTypeOK
  <2>4. IsPrinted'
    BY <1>1, <1>2, <2>2, <2>3 DEF IsPrinted, Live, Merging, Readable, Complete, Stored
  <2>5. QED
    BY <2>3, <2>4 DEF Undisturbed
<1>4. CASE generation.count # 1
  <2> DEFINE dirs == [i \in 1 .. generation.count |-> i - 1]
  <2>1. /\ generation'.pc = "merging" /\ Merge(dirs, FALSE)
        /\ generation.count \in ShardCounts /\ generation.count \in Nat
    BY <1>1, <1>4, CorpusAssumption DEF JobComplete, CorpusTypeOK
  <2>2. dirs \in Seq(Dirs) /\ dirs # <<>> /\ Len(dirs) = generation.count
    BY <1>4, <2>1, ShardDirs
  <2>3. /\ merges' \in Seq(Mergers) /\ Len(merges') = Len(merges) + 1
        /\ merges'[Len(merges')] = NewMerge(dirs, FALSE)
    BY <2>1, <2>2, MergeStarts DEF CorpusTypeOK
  <2>4. ASSUME NEW i \in DOMAIN dirs
        PROVE  /\ dirs[i] # Whole /\ Complete(dirs[i])
               /\ \A meta \in store[dirs[i]].corpus : meta.variant = generation.variant
    <3>1. i - 1 \in 0 .. generation.count - 1 /\ dirs[i] = i - 1 /\ dirs[i] # Whole
      BY <2>1 DEF Whole
    <3>2. DirOf(i - 1, generation.count) = i - 1
      BY <1>4 DEF DirOf
    <3>3. QED
      BY <1>2, <3>1, <3>2, JobLeaves
  <2> HIDE DEF dirs
  <2>5. ~Live /\ ~Merging /\ \A i \in DOMAIN dirs : Complete(dirs[i])
    BY <1>2, <2>4, JobLeaves
  <2>6. NewMerge(dirs, FALSE).clean = TRUE
    BY <2>5 DEF NewMerge
  <2>7. MergeRuns'
    <3>1. merges' # <<>>
      BY <2>3, EmptySeq, LenProperties DEF CorpusTypeOK
    <3>2. /\ merges'[Len(merges')].clean /\ merges'[Len(merges')].dirs = dirs
          /\ merges'[Len(merges')].metas = <<>>
      BY <2>2, <2>3, <2>6, NewMergeIs
    <3>3. QED
      BY <1>1, <2>4, <3>1, <3>2 DEF MergeRuns
  <2>8. QED
    BY <2>1, <2>7 DEF Undisturbed
<1>5. QED
  BY <1>3, <1>4

LEMMA MergeCompleteUndisturbed ==
  ASSUME CorpusTypeOK, Cleanly, Undisturbed, MergeComplete
  PROVE  Undisturbed'
<1> SUFFICES ASSUME generation'.alone PROVE Undisturbed'
  BY DEF Undisturbed
<1> DEFINE k == Len(merges)
<1>1. /\ generation.pc = "merging" /\ generation.alone /\ generation'.pc = "done"
      /\ generation'.variant = generation.variant /\ UNCHANGED <<store, pods, merges>>
      /\ merges[k].pc = "done"
  BY DEF MergeComplete, Printed, CorpusTypeOK
<1>2. /\ merges # <<>> /\ merges[k].clean
      /\ \A i \in DOMAIN merges[k].metas : merges[k].metas[i].variant = generation.variant
  BY <1>1 DEF Undisturbed, MergeRuns
<1>3. k \in DOMAIN merges /\ merges[k] \in Mergers
  BY <1>2, EmptySeq, LenProperties DEF CorpusTypeOK
<1>4. ~Live /\ ~Merging /\ WritesClean(merges[k])
  BY <1>1, <1>2, <1>3 DEF Cleanly, CleanMerge, Merging
<1>5. Readable(Whole) /\ Complete(Whole)
  BY <1>1, <1>2, <1>3, CleanIsWhole DEF MergedIsOneGeneration
<1>6. merges[k].metas[1].variant = generation.variant
  <2>1. merges[k].metas \in Seq(AnyCorpusJson) /\ merges[k].metas # <<>>
    BY <1>3, <1>4 DEF WritesClean, Mergers, MergerRecords
  <2>2. 1 \in DOMAIN merges[k].metas
    BY <2>1, EmptySeq, LenProperties
  <2>3. QED
    BY <1>2, <2>2
<1>7. \A meta \in store[Whole].corpus : meta.variant = generation.variant
  BY <1>1, <1>4, <1>6 DEF WritesClean, CorpusJson
<1>8. IsPrinted'
  BY <1>1, <1>4, <1>5, <1>7 DEF IsPrinted, Live, Merging, Readable, Complete, Stored
<1>9. QED
  BY <1>1, <1>8 DEF Undisturbed

LEMMA MergeUndisturbed ==
  ASSUME CorpusTypeOK, Cleanly, Undisturbed, NEW k \in DOMAIN merges,
         MergeReads(k) \/ MergeWrites(k) \/ MergeFails(k)
  PROVE  Undisturbed'
<1>0. /\ UNCHANGED <<pods, generation>> /\ merges[k].pc \notin {"done", "failed"} /\ Merging
      /\ merges \in Seq(Mergers) /\ merges[k] \in Mergers
  <2>1. UNCHANGED <<pods, generation>> /\ merges[k].pc \notin {"done", "failed"}
    BY DEF MergeReads, MergeWrites, MergeFails
  <2>2. QED
    BY <2>1 DEF Merging, CorpusTypeOK
<1>1. ~(generation.alone /\ generation.pc \in {"generating", "done"})
  BY <1>0 DEF Undisturbed, JobRuns, IsPrinted
<1>2. ASSUME generation.alone, generation.pc = "merging" PROVE MergeRuns'
  <2> DEFINE m == merges[k]
  <2>1. /\ merges # <<>> /\ merges[Len(merges)].clean /\ Len(merges) \in DOMAIN merges
    BY <1>2, <1>0, EmptySeq, LenProperties DEF Undisturbed, MergeRuns
  <2>2. k = Len(merges)
    BY <1>0, <2>1 DEF Cleanly
  <2>3. /\ \A i \in DOMAIN m.dirs : /\ m.dirs[i] # Whole
                                  /\ \A meta \in store[m.dirs[i]].corpus : meta.variant = generation.variant
        /\ \A i \in DOMAIN m.metas : m.metas[i].variant = generation.variant
    BY <1>2, <2>2 DEF Undisturbed, MergeRuns
  <2>4. /\ DOMAIN merges' = DOMAIN merges /\ Len(merges') = Len(merges)
        /\ merges'[k].dirs = m.dirs /\ merges'[k].clean = m.clean
    BY MergerFrame
  <2>5. ASSUME NEW i \in DOMAIN m.dirs PROVE store'[m.dirs[i]].corpus = store[m.dirs[i]].corpus
    <3>1. m.dirs[i] \in Dirs
      BY <1>0 DEF Mergers, MergerRecords
    <3>2. QED
      BY <2>3, <3>1, Writes DEF MergeReads, MergeFails
  <2>6. \A i \in DOMAIN merges'[k].metas : merges'[k].metas[i].variant = generation.variant
    <3>1. CASE MergeReads(k)
      <4>1. PICK n \in MergerRecords :
              /\ HasRead(m, n) /\ merges' = [merges EXCEPT ![k] = NextFile(n)]
              /\ n.pc \in Reading /\ n.at \in 1 .. Len(n.dirs) /\ n.metas # <<>>
              /\ n.at = m.at /\ n.dirs = m.dirs
        BY <3>1, Reads
      <4>2. merges'[k].metas = n.metas
        BY <1>0, <4>1, AfterRead, MergerMoves
      <4>3. m \in MergerRecords /\ m.at \in DOMAIN m.dirs /\ m.metas \in Seq(AnyCorpusJson)
        BY <1>0, <4>1, LenProperties DEF Mergers, MergerRecords
      <4>4. CASE m.pc = "corpus"
        <5>1. PICK meta \in store[m.dirs[m.at]].corpus : n = [m EXCEPT !.metas = Append(@, meta)]
          BY <4>1, <4>4 DEF HasRead
        <5>2. n.metas = Append(m.metas, meta) /\ meta.variant = generation.variant
          BY <2>3, <4>3, <5>1 DEF MergerRecords
        <5>3. \A i \in DOMAIN n.metas : i \in DOMAIN m.metas \/ n.metas[i] = meta
          BY <4>3, <5>2
        <5>4. \A i \in DOMAIN m.metas : n.metas[i] = m.metas[i]
          BY <4>3, <5>2
        <5>5. QED
          BY <2>3, <4>2, <5>2, <5>3, <5>4
      <4>5. CASE m.pc # "corpus"
        <5>1. n.metas = m.metas
          BY <4>1, <4>3, <4>5 DEF HasRead, MergerRecords
        <5>2. QED
          BY <2>3, <4>2, <5>1
      <4>6. QED
        BY <4>4, <4>5
    <3>2. CASE MergeWrites(k)
      <4>1. PICK pc \in Writing \cup {"done"} : merges' = [merges EXCEPT ![k].pc = pc]
        BY <3>2, Writes DEF Writing
      <4>2. m.pc \in Writing
        BY <3>2 DEF MergeWrites, Writing
      <4>3. merges'[k].metas = m.metas
        BY <1>0, <4>1, <4>2, MergerGoes
      <4>4. QED
        BY <2>3, <4>3
    <3>3. CASE MergeFails(k)
      <4>1. merges'[k].metas = m.metas
        BY <1>0, <3>3, MergerGoes DEF MergeFails, Writing
      <4>2. QED
        BY <2>3, <4>1
    <3>4. QED
      BY <3>1, <3>2, <3>3
  <2>7. merges' # <<>>
    BY <2>1, <2>4
  <2> HIDE DEF m
  <2>8. QED
    BY <1>0, <2>1, <2>2, <2>3, <2>4, <2>5, <2>6, <2>7 DEF MergeRuns, m
<1>3. QED
  BY <1>0, <1>1, <1>2 DEF Undisturbed

LEMMA StaysUndisturbed ==
  CorpusTypeOK /\ Cleanly /\ Undisturbed /\ [CorpusNext]_corpusVars => Undisturbed'
<1> SUFFICES ASSUME CorpusTypeOK, Cleanly, Undisturbed, [CorpusNext]_corpusVars PROVE Undisturbed'
  OBVIOUS
<1>1. ASSUME NEW v \in Variants, NEW c \in ShardCounts, Generate(v, c) PROVE Undisturbed'
  BY <1>1, GenerateUndisturbed
<1>2. ASSUME NEW n \in ShardCounts, NEW dirs \in [1 .. n -> Dirs], MergeByHand(dirs)
      PROVE  Undisturbed'
  BY <1>2 DEF MergeByHand, Undisturbed, CorpusTypeOK
<1>3. CASE Dies
  BY <1>3 DEF Dies, Undisturbed, CorpusTypeOK
<1>4. CASE UNCHANGED corpusVars
  <2>1. UNCHANGED <<store, pods, merges, generation>>
    BY <1>4 DEF corpusVars
  <2>2. Live' = Live /\ Merging' = Merging
    BY <2>1 DEF Live, Merging
  <2>3. JobRuns => JobRuns'
    BY <2>1, <2>2 DEF JobRuns, Progress, Home
  <2>4. MergeRuns => MergeRuns'
    BY <2>1 DEF MergeRuns
  <2>5. IsPrinted => IsPrinted'
    BY <2>1, <2>2 DEF IsPrinted, Readable, Complete, Stored
  <2>6. QED
    BY <2>1, <2>3, <2>4, <2>5 DEF Undisturbed
<1>5. QED
  BY <1>1, <1>2, <1>3, <1>4, PodUndisturbed, JobCompleteUndisturbed, MergeCompleteUndisturbed,
     MergeUndisturbed DEF CorpusNext, ProcessStep

----------------------------------------------------------------------------
(* The theorems *)

Inductive == CorpusTypeOK /\ Saved /\ Cleanly /\ Undisturbed

LEMMA CorpusInductive == CorpusSpec => []Inductive
<1>1. CorpusInit => Inductive
  <2> SUFFICES ASSUME CorpusInit PROVE Inductive
    OBVIOUS
  <2>1. CorpusTypeOK
    BY InitTypes
  <2>2. Saved
    BY DEF CorpusInit, Saved, BatchesUsed, PodsSaved, RecordsSaved, EmptyDir
  <2>3. Cleanly /\ Undisturbed
    BY DEF CorpusInit, Cleanly, Undisturbed
  <2>4. QED
    BY <2>1, <2>2, <2>3 DEF Inductive
<1>2. Inductive /\ [CorpusNext]_corpusVars => Inductive'
  BY TypesStay, Saves, StaysClean, StaysUndisturbed DEF Inductive
<1>3. QED
  BY <1>1, <1>2, PTL DEF CorpusSpec

(* A corpus that can be read is whole while the preset has one seed, and   *)
(* one whose URI gen-corpus.sh prints is, of the seed it was asked for,    *)
(* whatever the generations before it left behind: for every number of     *)
(* batches, shards, generations and merges (generate.py, merge.py).        *)
THEOREM CorpusWhole == CorpusSpec => []CorpusIsWhole
<1>1. Inductive => CorpusIsWhole
  <2> SUFFICES ASSUME Inductive PROVE CorpusIsWhole
    OBVIOUS
  <2>1. ReadableIsWhole
    BY SavedIsWhole DEF Inductive
  <2>2. PrintedIsWhole
    BY DEF Inductive, Undisturbed, IsPrinted, PrintedIsWhole
  <2>3. QED
    BY <2>1, <2>2 DEF CorpusIsWhole
<1>2. QED
  BY <1>1, CorpusInductive, PTL

(* A merge alone in the store, of directories each of which holds a        *)
(* complete generation, publishes one whole generation or nothing          *)
(* (merge.py), however many shards there are and whatever they are of.     *)
THEOREM MergedOneGeneration == CorpusSpec => []MergedIsOneGeneration
<1>1. Inductive => MergedIsOneGeneration
  BY CleanIsWhole DEF Inductive
<1>2. QED
  BY <1>1, CorpusInductive, PTL

=============================================================================
