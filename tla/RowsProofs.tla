------------------------------ MODULE RowsProofs ------------------------------
(***************************************************************************)
(* The incremental tally keeps what the ledger means: the counts and the   *)
(* checksums it updates chunk by chunk, in floats and reduced each time,   *)
(* are those of all rows read, for every size of chunks, files and batches.*)
(* The payload's width that is chosen is the closest to its target of all. *)
(* The geometry report of a table shows what its commits wrote and left.   *)
(* The figures of a corpus are those of its rows, however it is sharded.   *)
(***************************************************************************)
EXTENDS BatchTally, Calibration, Figures, Geometry, TallyProofs, SequenceTheorems

(* A file of row identifiers.                                              *)
LEMMA FileIsSeq ==
  ASSUME NEW ids \in BoundedSeq(TableIds, MaxRows)
  PROVE  /\ Len(ids) \in Nat /\ DOMAIN ids = 1 .. Len(ids)
         /\ \A k \in DOMAIN ids : ids[k] \in TableIds
<1>1. PICK n \in 0 .. MaxRows : ids \in [1 .. n -> TableIds]
  BY DEF BoundedSeq, SeqOf
<1>2. n \in Nat
  BY <1>1, BatchTallyAssumption
<1>3. ids \in Seq(TableIds)
  BY <1>1, <1>2, SeqDef
<1>4. QED
  BY <1>1, <1>3, LenProperties

-----------------------------------------------------------------------------
(* The chunk that position k of a file falls in, and the chunks as parts   *)
(* of the file.                                                            *)
ChunkOf(ids) == [k \in DOMAIN ids |-> ((k - 1) \div ChunkRows) + 1]

LEMMA SliceOfPosition ==
  ASSUME NEW k \in Nat \ {0}, NEW i \in Int
  PROVE  (i - 1) * ChunkRows < k /\ k <= i * ChunkRows <=> ((k - 1) \div ChunkRows) + 1 = i
<1> DEFINE q == (k - 1) \div ChunkRows
           r == (k - 1) % ChunkRows
<1>1. ChunkRows \in Nat \ {0}
  BY BatchTallyAssumption
<1>2. k - 1 = ChunkRows * q + r /\ q \in Int /\ r \in Nat /\ r < ChunkRows
  BY ONLY <1>1, k \in Nat \ {0}
<1> HIDE DEF q, r
<1>3. CASE q + 1 = i
  <2>1. (i - 1) * ChunkRows = ChunkRows * q /\ i * ChunkRows = ChunkRows * q + ChunkRows
    BY <1>1, <1>2, <1>3
  <2>2. QED
    BY <1>1, <1>2, <1>3, <2>1 DEF q
<1>4. CASE q + 1 < i
  <2>1. i - 1 - q \in Nat \ {0}
    BY <1>2, <1>4
  <2>2. (i - 1) * ChunkRows = ChunkRows * q + ChunkRows * (i - 1 - q)
    BY <1>1, <1>2
  <2>3. ChunkRows * (i - 1 - q) >= ChunkRows
    BY ONLY <1>1, <2>1
  <2>4. (i - 1) * ChunkRows >= ChunkRows * q + ChunkRows
    BY <1>1, <1>2, <2>1, <2>2, <2>3
  <2>5. QED
    BY <1>1, <1>2, <1>4, <2>4 DEF q
<1>5. CASE q + 1 > i
  <2>1. q - i \in Nat
    BY <1>2, <1>5
  <2>2. ChunkRows * q = i * ChunkRows + ChunkRows * (q - i)
    BY <1>1, <1>2
  <2>3. ChunkRows * (q - i) >= 0
    BY ONLY <1>1, <2>1
  <2>4. i * ChunkRows <= ChunkRows * q
    BY <1>1, <1>2, <2>1, <2>2, <2>3
  <2>5. QED
    BY <1>1, <1>2, <1>5, <2>4 DEF q
<1>6. QED
  BY <1>2, <1>3, <1>4, <1>5 DEF q

LEMMA ChunksPartition ==
  ASSUME NEW ids \in BoundedSeq(TableIds, MaxRows), NEW b
  PROVE  /\ \E N \in Nat : DOMAIN Chunks(ids) = 1 .. N
         /\ \A k \in DOMAIN ids : ChunkOf(ids)[k] \in DOMAIN Chunks(ids)
         /\ \A i \in DOMAIN Chunks(ids) :
              InBatch(Chunks(ids)[i], b) = Fiber(InBatch(ids, b), ChunkOf(ids), i)
<1> DEFINE n == Len(ids)
           N == (n + ChunkRows - 1) \div ChunkRows
<1>1. ChunkRows \in Nat \ {0} /\ n \in Nat /\ DOMAIN ids = 1 .. n
  BY FileIsSeq, BatchTallyAssumption
<1> HIDE DEF n
<1>2. N \in Nat /\ N * ChunkRows <= n + ChunkRows - 1 /\ n + ChunkRows - 1 < (N + 1) * ChunkRows
  <2> DEFINE y == n + ChunkRows - 1
             z == y % ChunkRows
  <2>1. y \in Nat
    BY <1>1
  <2> HIDE DEF y
  <2>2. y = ChunkRows * (y \div ChunkRows) + z /\ z \in Nat /\ z < ChunkRows /\ y \div ChunkRows \in Nat
    BY ONLY <1>1, <2>1
  <2>3. N = y \div ChunkRows
    BY DEF y
  <2> HIDE DEF z, N
  <2>4. N * ChunkRows = ChunkRows * N /\ (N + 1) * ChunkRows = ChunkRows * N + ChunkRows /\ ChunkRows * N \in Nat
    <3>1. N \in Nat
      BY <2>2, <2>3
    <3>2. QED
      BY ONLY <1>1, <3>1
  <2>5. QED
    BY <1>1, <2>1, <2>2, <2>3, <2>4 DEF y
<1>3. DOMAIN Chunks(ids) = 1 .. N
  BY DEF Chunks, n
<1> HIDE DEF N
<1>5. ASSUME NEW k \in DOMAIN ids PROVE ChunkOf(ids)[k] \in 1 .. N
  <2> DEFINE i == ((k - 1) \div ChunkRows) + 1
  <2>1. k \in Nat \ {0} /\ k <= n
    BY <1>1
  <2>2. i \in Nat \ {0}
    BY <1>1, <2>1
  <2>3. (i - 1) * ChunkRows < k
    BY <2>1, <2>2, SliceOfPosition
  <2> HIDE DEF i
  <2>4. ASSUME i > N PROVE FALSE
    <3>1. i - 1 - N \in Nat /\ i - 1 \in Nat
      BY <1>2, <2>2, <2>4
    <3>2. (i - 1) * ChunkRows = N * ChunkRows + (i - 1 - N) * ChunkRows
      BY <1>1, <1>2, <2>2
    <3>3. (i - 1 - N) * ChunkRows \in Nat
      BY <1>1, <3>1
    <3>4. (N + 1) * ChunkRows = N * ChunkRows + ChunkRows /\ N * ChunkRows \in Nat
      BY <1>1, <1>2
    <3>5. QED
      BY <1>1, <1>2, <2>1, <2>3, <3>2, <3>3, <3>4
  <2>5. QED
    BY <1>2, <2>2, <2>4 DEF ChunkOf, i
<1>6. ASSUME NEW i \in 1 .. N
      PROVE  InBatch(Chunks(ids)[i], b) = Fiber(InBatch(ids, b), ChunkOf(ids), i)
  <2>1. Chunks(ids)[i] = [k \in Slice(ids, i) |-> ids[k]]
    BY <1>6 DEF Chunks, Restrict, N, n
  <2>2. \A k \in DOMAIN ids : k \in Slice(ids, i) <=> ChunkOf(ids)[k] = i
    BY <1>1, SliceOfPosition DEF Slice, ChunkOf
  <2>3. Slice(ids, i) \subseteq DOMAIN ids
    BY DEF Slice
  <2>4. QED
    BY <2>1, <2>2, <2>3 DEF InBatch, Fiber
<1>7. QED
  BY <1>2, <1>3, <1>5, <1>6

-----------------------------------------------------------------------------
(* The two folds over the chunks, as the sums they compute.                *)
LEMMA GreatestIsMember ==
  ASSUME NEW N \in Nat, NEW S \in SUBSET (1 .. N), S # {}
  PROVE  Max(S) \in S
<1>1. S \in SUBSET Int /\ S # {} /\ N \in Int /\ \A m \in S : m <= N
  OBVIOUS
<1>2. \E m \in S : \A k \in S : k <= m
  BY ONLY <1>1, GreatestNumber
<1>3. \E m \in S : \A k \in S : m >= k
  BY <1>1, <1>2
<1>4. QED
  BY <1>3 DEF Max

CountsAfter(base, seq) == FoldLeft(CountChunk, base, seq)
CountsOver(g, base, seq) ==
  g = [s \in SUBSET DOMAIN seq |->
        IF s = {} THEN base ELSE CountChunk(g[s \ {Max(s)}], seq[Max(s)])]

LEMMA CountFoldIsChosen ==
  ASSUME NEW base, NEW seq
  PROVE  CountsAfter(base, seq) = (CHOOSE g : CountsOver(g, base, seq))[DOMAIN seq]
BY DEF CountsAfter, FoldLeft, MapThenFoldSet, CountsOver

(* Chunks in which the rows of each batch are n, counted onto a base.      *)
CountsOfChunks(seq, n, N, base) ==
  /\ N \in Nat /\ DOMAIN seq = 1 .. N /\ base \in [Batches -> Nat]
  /\ n \in [Batches -> [1 .. N -> Nat]]
  /\ \A b \in Batches : \A i \in 1 .. N : Cardinality(InBatch(seq[i], b)) = n[b][i]
CountsAdd(seq, n, N, base) ==
  /\ CountsAfter(base, seq) \in [Batches -> Nat]
  /\ \A b \in Batches : CountsAfter(base, seq)[b] = base[b] + SumFunctionOnSet(n[b], 1 .. N)

LEMMA CountFoldAdds ==
  ASSUME NEW seq, NEW n, NEW N, NEW base, CountsOfChunks(seq, n, N, base)
  PROVE  CountsAdd(seq, n, N, base)
<1> SUFFICES
      ASSUME N \in Nat, DOMAIN seq = 1 .. N, base \in [Batches -> Nat],
             n \in [Batches -> [1 .. N -> Nat]],
             \A b \in Batches : \A i \in 1 .. N : Cardinality(InBatch(seq[i], b)) = n[b][i]
      PROVE  /\ CountsAfter(base, seq) \in [Batches -> Nat]
             /\ \A b \in Batches : CountsAfter(base, seq)[b] = base[b] + SumFunctionOnSet(n[b], 1 .. N)
  BY DEF CountsOfChunks, CountsAdd
<1> DEFINE W(s) == [b \in Batches |-> base[b] + SumFunctionOnSet(n[b], s)]
           w == [s \in SUBSET (1 .. N) |-> W(s)]
           S == 1 .. N
<1>1. ASSUME NEW s \in SUBSET S
      PROVE  IsFiniteSet(s) /\ \A b \in Batches : SumFunctionOnSet(n[b], s) \in Nat
  <2>1. IsFiniteSet(S)
    BY FS_Interval
  <2>2. IsFiniteSet(s)
    <3> HIDE DEF S
    <3>1. QED
      BY <2>1, FS_Subset
  <2>3. \A b \in Batches : \A x \in s : n[b][x] \in Nat
    OBVIOUS
  <2>4. QED
    BY <2>2, <2>3, SumIsNat
<1>2. W({}) = base
  <2>1. \A b \in Batches : SumFunctionOnSet(n[b], {}) = 0
    BY SumOfNone
  <2>2. QED
    BY <2>1
<1>3. ASSUME NEW s \in SUBSET S, s # {}
      PROVE  /\ Max(s) \in s /\ s \ {Max(s)} \in SUBSET S
             /\ W(s) = CountChunk(W(s \ {Max(s)}), seq[Max(s)])
  <2> DEFINE m == Max(s)
             c == s \ {m}
  <2>1. m \in s /\ m \in S /\ c \in SUBSET S
    BY <1>3, GreatestIsMember
  <2> HIDE DEF m
  <2>2. ASSUME NEW b \in Batches
        PROVE  base[b] + SumFunctionOnSet(n[b], s)
                 = (base[b] + SumFunctionOnSet(n[b], c)) + Cardinality(InBatch(seq[m], b))
    <3>1. \A x \in s : n[b][x] \in Nat
      OBVIOUS
    <3>2. SumFunctionOnSet(n[b], s) = n[b][m] + SumFunctionOnSet(n[b], c)
      BY <1>1, <2>1, <3>1, SumPick
    <3>3. SumFunctionOnSet(n[b], c) \in Nat /\ n[b][m] \in Nat /\ base[b] \in Nat
      BY <1>1, <2>1
    <3>4. Cardinality(InBatch(seq[m], b)) = n[b][m]
      BY <2>1
    <3> HIDE DEF c
    <3>5. QED
      BY <3>2, <3>3, <3>4
  <2>3. W(s) = CountChunk(W(c), seq[m])
    BY <2>2 DEF CountChunk
  <2>4. QED
    BY <2>1, <2>3 DEF m
<1> HIDE DEF W
<1>4. CountsOver(w, base, seq)
  <2>1. \A s \in SUBSET S : W(s) = IF s = {} THEN base ELSE CountChunk(w[s \ {Max(s)}], seq[Max(s)])
    BY <1>2, <1>3
  <2> HIDE DEF w
  <2>2. w = [s \in SUBSET S |-> W(s)]
    BY DEF w
  <2>3. QED
    BY <2>1, <2>2 DEF CountsOver
<1>5. PICK g : CountsOver(g, base, seq) /\ CountsAfter(base, seq) = g[S]
  BY <1>4, CountFoldIsChosen
<1> DEFINE T == {s \in SUBSET S : g[s] = W(s)}
<1>6. ASSUME NEW A \in SUBSET S, \A B \in SUBSET A : B # A => B \in T PROVE A \in T
  <2>1. g[A] = IF A = {} THEN base ELSE CountChunk(g[A \ {Max(A)}], seq[Max(A)])
    BY <1>5 DEF CountsOver
  <2>2. CASE A = {}
    BY <1>2, <2>1, <2>2
  <2>3. CASE A # {}
    <3>1. A \ {Max(A)} \in T
      BY <1>3, <1>6, <2>3
    <3>2. QED
      BY <1>3, <2>1, <2>3, <3>1
  <2>4. QED
    BY <2>2, <2>3
<1>7. T = SUBSET S
  <2> HIDE DEF T
  <2>1. T \in SUBSET SUBSET S
    BY DEF T
  <2>2. IsFiniteSet(S)
    BY FS_Interval
  <2> HIDE DEF S
  <2>3. QED
    BY <1>6, <2>1, <2>2, SubsetInduction
<1>8. CountsAfter(base, seq) = W(S)
  BY <1>5, <1>7
<1>9. \A b \in Batches : base[b] + SumFunctionOnSet(n[b], S) \in Nat
  <2>1. \A b \in Batches : SumFunctionOnSet(n[b], S) \in Nat /\ base[b] \in Nat
    BY <1>1
  <2>2. QED
    BY <2>1
<1>10. QED
  BY <1>8, <1>9 DEF W

SumsAfter(base, seq) == FoldLeft(SumChunk, base, seq)
SumsOfChunks(seq, n, N, base) ==
  /\ N \in Nat /\ DOMAIN seq = 1 .. N /\ base \in [Batches -> 0 .. P - 1]
  /\ n \in [Batches -> [1 .. N -> Nat]]
  /\ \A b \in Batches : \A i \in 1 .. N :
       Rounded(SumFunctionOnSet(Residues(seq[i]), InBatch(seq[i], b))) = n[b][i]
SumsAdd(seq, n, N, base) ==
  /\ SumsAfter(base, seq) \in [Batches -> 0 .. P - 1]
  /\ \A b \in Batches : SumsAfter(base, seq)[b] = (base[b] + SumFunctionOnSet(n[b], 1 .. N)) % P
SumsOver(g, base, seq) ==
  g = [s \in SUBSET DOMAIN seq |->
        IF s = {} THEN base ELSE SumChunk(g[s \ {Max(s)}], seq[Max(s)])]

LEMMA SumFoldIsChosen ==
  ASSUME NEW base, NEW seq
  PROVE  SumsAfter(base, seq) = (CHOOSE g : SumsOver(g, base, seq))[DOMAIN seq]
BY DEF SumsAfter, FoldLeft, MapThenFoldSet, SumsOver

LEMMA SumFoldAdds ==
  ASSUME NEW seq, NEW n, NEW N, NEW base, SumsOfChunks(seq, n, N, base)
  PROVE  SumsAdd(seq, n, N, base)
<1> SUFFICES
      ASSUME N \in Nat, DOMAIN seq = 1 .. N, base \in [Batches -> 0 .. P - 1],
             n \in [Batches -> [1 .. N -> Nat]],
             \A b \in Batches : \A i \in 1 .. N :
               Rounded(SumFunctionOnSet(Residues(seq[i]), InBatch(seq[i], b))) = n[b][i]
      PROVE  /\ SumsAfter(base, seq) \in [Batches -> 0 .. P - 1]
             /\ \A b \in Batches : SumsAfter(base, seq)[b] = (base[b] + SumFunctionOnSet(n[b], 1 .. N)) % P
  BY DEF SumsOfChunks, SumsAdd
<1> DEFINE W(s) == [b \in Batches |-> (base[b] + SumFunctionOnSet(n[b], s)) % P]
           w == [s \in SUBSET (1 .. N) |-> W(s)]
           S == 1 .. N
<1>0. P \in Nat \ {0}
  BY TallyAssumption
<1>10. \A b \in Batches : base[b] \in Nat /\ base[b] < P
  BY <1>0
<1>1. ASSUME NEW s \in SUBSET S
      PROVE  IsFiniteSet(s) /\ \A b \in Batches : SumFunctionOnSet(n[b], s) \in Nat
  <2>1. IsFiniteSet(S)
    BY FS_Interval
  <2>2. IsFiniteSet(s)
    <3> HIDE DEF S
    <3>1. QED
      BY <2>1, FS_Subset
  <2>3. \A b \in Batches : \A x \in s : n[b][x] \in Nat
    OBVIOUS
  <2>4. QED
    BY <2>2, <2>3, SumIsNat
<1>2. W({}) = base
  <2>1. ASSUME NEW b \in Batches PROVE (base[b] + SumFunctionOnSet(n[b], {})) % P = base[b]
    <3>1. SumFunctionOnSet(n[b], {}) = 0 /\ base[b] \in Nat /\ base[b] < P
      BY <1>10, SumOfNone
    <3>2. base[b] % P = base[b]
      <4>1. base[b] = P * 0 + base[b]
        BY <1>0, <3>1
      <4>2. QED
        BY <3>1, <4>1, ResidueIs
    <3>3. QED
      BY <3>1, <3>2
  <2>2. QED
    BY <2>1
<1>3. ASSUME NEW s \in SUBSET S, s # {}
      PROVE  /\ Max(s) \in s /\ s \ {Max(s)} \in SUBSET S
             /\ W(s) = SumChunk(W(s \ {Max(s)}), seq[Max(s)])
  <2> DEFINE m == Max(s)
             c == s \ {m}
             x(b) == Rounded(SumFunctionOnSet(Residues(seq[m]), InBatch(seq[m], b)))
  <2>1. m \in s /\ m \in S /\ c \in SUBSET S
    BY <1>3, GreatestIsMember
  <2> HIDE DEF m
  <2>2. ASSUME NEW b \in Batches
        PROVE  (base[b] + SumFunctionOnSet(n[b], s)) % P
                 = (((base[b] + SumFunctionOnSet(n[b], c)) % P) + x(b)) % P
    <3>1. \A y \in s : n[b][y] \in Nat
      OBVIOUS
    <3>2. SumFunctionOnSet(n[b], s) = n[b][m] + SumFunctionOnSet(n[b], c)
      BY <1>1, <2>1, <3>1, SumPick
    <3>3. SumFunctionOnSet(n[b], c) \in Nat /\ n[b][m] \in Nat /\ base[b] \in Nat
      BY <1>10, <1>1, <2>1
    <3>4. x(b) = n[b][m]
      BY <2>1
    <3> HIDE DEF c, x
    <3> DEFINE a == base[b] + SumFunctionOnSet(n[b], c)
    <3>5. base[b] + SumFunctionOnSet(n[b], s) = a + x(b) /\ a \in Nat /\ x(b) \in Nat
      BY <3>2, <3>3, <3>4
    <3> HIDE DEF a
    <3>6. ((a % P) + x(b)) % P = (a + x(b)) % P
      BY <3>5, ReducedEarly
    <3>7. QED
      BY <3>5, <3>6 DEF a
  <2>3. W(s) = SumChunk(W(c), seq[m])
    BY <2>2 DEF SumChunk
  <2>4. QED
    BY <2>1, <2>3 DEF m
<1> HIDE DEF W
<1>4. SumsOver(w, base, seq)
  <2>1. \A s \in SUBSET S : W(s) = IF s = {} THEN base ELSE SumChunk(w[s \ {Max(s)}], seq[Max(s)])
    BY <1>2, <1>3
  <2> HIDE DEF w
  <2>2. w = [s \in SUBSET S |-> W(s)]
    BY DEF w
  <2>3. QED
    BY <2>1, <2>2 DEF SumsOver
<1>5. PICK g : SumsOver(g, base, seq) /\ SumsAfter(base, seq) = g[S]
  BY <1>4, SumFoldIsChosen
<1> DEFINE T == {s \in SUBSET S : g[s] = W(s)}
<1>6. ASSUME NEW A \in SUBSET S, \A B \in SUBSET A : B # A => B \in T PROVE A \in T
  <2>1. g[A] = IF A = {} THEN base ELSE SumChunk(g[A \ {Max(A)}], seq[Max(A)])
    BY <1>5 DEF SumsOver
  <2>2. CASE A = {}
    BY <1>2, <2>1, <2>2
  <2>3. CASE A # {}
    <3>1. A \ {Max(A)} \in T
      BY <1>3, <1>6, <2>3
    <3>2. QED
      BY <1>3, <2>1, <2>3, <3>1
  <2>4. QED
    BY <2>2, <2>3
<1>7. T = SUBSET S
  <2> HIDE DEF T
  <2>1. T \in SUBSET SUBSET S
    BY DEF T
  <2>2. IsFiniteSet(S)
    BY FS_Interval
  <2> HIDE DEF S
  <2>3. QED
    BY <1>6, <2>1, <2>2, SubsetInduction
<1>8. SumsAfter(base, seq) = W(S)
  BY <1>5, <1>7
<1>9. \A b \in Batches : (base[b] + SumFunctionOnSet(n[b], S)) % P \in 0 .. P - 1
  <2>1. \A b \in Batches : SumFunctionOnSet(n[b], S) \in Nat /\ base[b] \in Nat
    BY <1>1, <1>10
  <2>2. \A b \in Batches : base[b] + SumFunctionOnSet(n[b], S) \in Nat
    BY <2>1
  <2>3. \A y \in Nat : y % P \in 0 .. P - 1
    BY ONLY <1>0
  <2>4. QED
    BY <2>2, <2>3
<1>11. QED
  BY <1>8, <1>9 DEF W

-----------------------------------------------------------------------------
(* What a file adds to the counts and to the sums of its batches.          *)
LEMMA RowInBatch ==
  ASSUME NEW r \in TableIds, NEW b \in Batches
  PROVE  BatchOf(r) = b <=> r \in RowsOf(b)
<1>1. NBatches \notin Batches
  BY ReplayAssumption DEF Batches
<1>2. CASE r = Stray
  BY <1>1, <1>2 DEF Stray, BatchOf, RowsOf
<1>3. CASE r \in RowIds
  BY <1>3 DEF RowIds, RowsOf, BatchOf
<1>4. QED
  BY <1>2, <1>3 DEF TableIds

LEMMA BatchRowsAreFinite ==
  ASSUME NEW ids \in BoundedSeq(TableIds, MaxRows), NEW b \in Batches
  PROVE  /\ IsFiniteSet(InBatch(ids, b)) /\ InBatch(ids, b) \subseteq DOMAIN ids
         /\ \A k \in InBatch(ids, b) :
              ids[k] \in RowsOf(b) /\ Residues(ids)[k] = Weight(ids[k]) /\ Residues(ids)[k] \in Nat /\ Residues(ids)[k] < P
<1>1. Len(ids) \in Nat /\ DOMAIN ids = 1 .. Len(ids) /\ \A k \in DOMAIN ids : ids[k] \in TableIds
  BY FileIsSeq
<1>2. IsFiniteSet(1 .. Len(ids))
  BY <1>1, FS_Interval
<1>3. InBatch(ids, b) \subseteq 1 .. Len(ids)
  BY <1>1 DEF InBatch
<1>4. IsFiniteSet(InBatch(ids, b))
  BY <1>2, <1>3, FS_Subset
<1>5. ASSUME NEW k \in InBatch(ids, b)
      PROVE  ids[k] \in RowsOf(b) /\ Residues(ids)[k] = Weight(ids[k]) /\ Residues(ids)[k] \in Nat /\ Residues(ids)[k] < P
  <2>1. ids[k] \in TableIds /\ BatchOf(ids[k]) = b /\ k \in DOMAIN ids
    BY <1>1, <1>3 DEF InBatch
  <2>2. ids[k] \in RowsOf(b)
    BY <2>1, RowInBatch
  <2>3. Residues(ids)[k] = Weight(ids[k])
    BY <2>1 DEF Residues, Weight
  <2>4. QED
    BY <2>2, <2>3, WeightIsNat
<1>6. QED
  BY <1>1, <1>3, <1>4, <1>5

LEMMA FileCounts ==
  ASSUME NEW ids \in BoundedSeq(TableIds, MaxRows), NEW cs \in [Batches -> Nat]
  PROVE  /\ CountsAfter(cs, Chunks(ids)) \in [Batches -> Nat]
         /\ \A b \in Batches : CountsAfter(cs, Chunks(ids))[b] = cs[b] + Cardinality(InBatch(ids, b))
<1>1. PICK N \in Nat : DOMAIN Chunks(ids) = 1 .. N
  BY ChunksPartition
<1> DEFINE F(b, i) == Fiber(InBatch(ids, b), ChunkOf(ids), i)
           n == [b \in Batches |-> [i \in 1 .. N |-> Cardinality(F(b, i))]]
<1>2. ASSUME NEW b \in Batches, NEW i \in 1 .. N
      PROVE  /\ IsFiniteSet(F(b, i)) /\ Cardinality(F(b, i)) \in Nat
             /\ Cardinality(InBatch(Chunks(ids)[i], b)) = Cardinality(F(b, i))
  <2>1. IsFiniteSet(F(b, i))
    <3>1. F(b, i) \subseteq InBatch(ids, b)
      BY DEF Fiber
    <3>2. QED
      BY <3>1, BatchRowsAreFinite, FS_Subset
  <2> HIDE DEF F
  <2>2. Cardinality(F(b, i)) \in Nat
    BY <2>1, FS_CardinalityType
  <2>3. InBatch(Chunks(ids)[i], b) = F(b, i)
    BY <1>1, ChunksPartition DEF F
  <2>4. QED
    BY <2>1, <2>2, <2>3
<1>3. ASSUME NEW b \in Batches PROVE SumFunctionOnSet(n[b], 1 .. N) = Cardinality(InBatch(ids, b))
  <2> DEFINE S == InBatch(ids, b)
             f == [k \in S |-> 1]
             g == [i \in 1 .. N |-> SumFunctionOnSet(f, Fiber(S, ChunkOf(ids), i))]
  <2>1. IsFiniteSet(S) /\ S \subseteq DOMAIN ids /\ IsFiniteSet(1 .. N)
    BY BatchRowsAreFinite, FS_Interval
  <2>2. \A k \in S : f[k] = 1 /\ f[k] \in Nat /\ ChunkOf(ids)[k] \in 1 .. N
    BY <1>1, <2>1, ChunksPartition
  <2>3. \A i \in 1 .. N : g[i] = n[b][i]
    <3> SUFFICES ASSUME NEW i \in 1 .. N
                 PROVE  SumFunctionOnSet(f, Fiber(S, ChunkOf(ids), i)) = Cardinality(F(b, i))
      OBVIOUS
    <3>1. \A k \in F(b, i) : f[k] = 1
      BY DEF Fiber
    <3>2. IsFiniteSet(F(b, i))
      BY <1>2
    <3> HIDE DEF f
    <3>3. QED
      BY <3>1, <3>2, SumOfOnes
  <2> HIDE DEF f, n
  <2>4. SumFunctionOnSet(f, S) = Cardinality(S)
    BY <2>1, <2>2, SumOfOnes
  <2>5. SumFunctionOnSet(f, S) = SumFunctionOnSet(g, 1 .. N)
    <3> DEFINE D == 1 .. N
               h == ChunkOf(ids)
    <3>1. IsFiniteSet(D) /\ \A k \in S : f[k] \in Nat /\ h[k] \in D
      BY <2>1, <2>2
    <3> HIDE DEF S, D, h
    <3>2. SumFunctionOnSet(f, S) = SumFunctionOnSet([i \in D |-> SumFunctionOnSet(f, Fiber(S, h, i))], D)
      BY <2>1, <3>1, SumByFibers
    <3>3. QED
      BY <3>2 DEF D, h
  <2> HIDE DEF g, S
  <2>6. SumFunctionOnSet(g, 1 .. N) = SumFunctionOnSet(n[b], 1 .. N)
    BY <2>1, <2>3, SumAgrees
  <2>7. QED
    BY <2>4, <2>5, <2>6 DEF S
<1>4. n \in [Batches -> [1 .. N -> Nat]] /\ \A b \in Batches : \A i \in 1 .. N :
        Cardinality(InBatch(Chunks(ids)[i], b)) = n[b][i]
  <2> HIDE DEF F
  <2>1. QED
    BY <1>2
<1> HIDE DEF n
<1>5. /\ CountsAfter(cs, Chunks(ids)) \in [Batches -> Nat]
      /\ \A b \in Batches : CountsAfter(cs, Chunks(ids))[b] = cs[b] + SumFunctionOnSet(n[b], 1 .. N)
  <2>1. CountsOfChunks(Chunks(ids), n, N, cs)
    BY <1>1, <1>4 DEF CountsOfChunks
  <2>2. CountsAdd(Chunks(ids), n, N, cs)
    BY <2>1, CountFoldAdds
  <2>3. QED
    BY <2>2 DEF CountsAdd
<1>6. QED
  BY <1>3, <1>5

(* The float sum of one chunk is exact: the chunk is short enough.         *)
LEMMA ChunkSumIsExact ==
  ASSUME NEW ids \in BoundedSeq(TableIds, MaxRows), NEW b \in Batches, NEW i \in DOMAIN Chunks(ids)
  PROVE  /\ IsFiniteSet(Fiber(InBatch(ids, b), ChunkOf(ids), i))
         /\ SumFunctionOnSet(Residues(ids), Fiber(InBatch(ids, b), ChunkOf(ids), i)) \in Nat
         /\ Rounded(SumFunctionOnSet(Residues(Chunks(ids)[i]), InBatch(Chunks(ids)[i], b)))
              = SumFunctionOnSet(Residues(ids), Fiber(InBatch(ids, b), ChunkOf(ids), i))
<1> DEFINE F == Fiber(InBatch(ids, b), ChunkOf(ids), i)
           x == SumFunctionOnSet(Residues(ids), F)
<1>1. PICK N \in Nat : DOMAIN Chunks(ids) = 1 .. N
  BY ChunksPartition
<1>2. i \in Nat \ {0} /\ ChunkRows \in Nat \ {0} /\ P \in Nat \ {0}
  BY <1>1, BatchTallyAssumption, TallyAssumption
<1>3. InBatch(Chunks(ids)[i], b) = F /\ F \subseteq InBatch(ids, b)
  BY ChunksPartition DEF Fiber
<1>4. /\ IsFiniteSet(F) /\ F \subseteq DOMAIN ids
      /\ \A k \in F : Residues(ids)[k] \in Nat /\ Residues(ids)[k] < P
  BY <1>3, BatchRowsAreFinite, FS_Subset
<1>5. \A k \in F : Residues(Chunks(ids)[i])[k] = Residues(ids)[k]
  <2>1. Chunks(ids)[i] = [k \in Slice(ids, i) |-> ids[k]]
    BY <1>1 DEF Chunks, Restrict
  <2>2. \A k \in F : k \in Slice(ids, i) /\ k \in DOMAIN ids
    BY <1>3, <1>4, <2>1 DEF InBatch
  <2>3. QED
    BY <2>1, <2>2 DEF Residues
<1>6. Cardinality(F) <= ChunkRows /\ Cardinality(F) \in Nat
  <2> DEFINE lo == (i - 1) * ChunkRows
             J == lo + 1 .. lo + ChunkRows
  <2>1. lo \in Int /\ i * ChunkRows = lo + ChunkRows
    BY <1>2
  <2>2. \A k \in F : k \in Nat /\ lo < k /\ k <= i * ChunkRows
    <3>1. \A k \in F : k \in Nat \ {0} /\ ((k - 1) \div ChunkRows) + 1 = i
      BY <1>4, FileIsSeq DEF Fiber, ChunkOf
    <3>2. QED
      BY <1>2, <3>1, SliceOfPosition
  <2> HIDE DEF lo, F
  <2>3. F \subseteq J
    BY <1>2, <2>1, <2>2
  <2>4. IsFiniteSet(J) /\ Cardinality(J) = ChunkRows
    BY <1>2, <2>1, FS_Interval
  <2> HIDE DEF J
  <2>5. QED
    BY <2>3, <2>4, FS_Subset, FS_CardinalityType
<1> HIDE DEF F
<1>7. x \in Nat /\ x <= ChunkRows * (P - 1)
  <2>1. x \in Nat
    BY <1>4, SumIsNat
  <2>2. P - 1 \in Nat /\ \A k \in F : Residues(ids)[k] \in Nat /\ Residues(ids)[k] <= P - 1
    BY <1>2, <1>4
  <2>3. x <= Cardinality(F) * (P - 1)
    BY <1>4, <2>2, SumIsBounded
  <2>4. Cardinality(F) * (P - 1) <= ChunkRows * (P - 1)
    BY ONLY <1>2, <1>6, <2>2
  <2>5. QED
    BY <1>2, <1>6, <2>1, <2>2, <2>3, <2>4
<1>8. x < 2^Mantissa
  <2>1. 2^Mantissa \in Int
    BY BatchTallyAssumption
  <2> DEFINE m == 2^Mantissa
             y == ChunkRows * (P - 1)
  <2>2. m \in Int /\ y < m /\ y \in Int
    BY <1>2, <2>1, BatchTallyAssumption
  <2> HIDE DEF m, y
  <2>3. x < m
    BY <1>7, <2>2 DEF y
  <2>4. QED
    BY <2>3 DEF m
<1>9. SumFunctionOnSet(Residues(Chunks(ids)[i]), F) = x
  BY <1>4, <1>5, SumAgrees
<1>10. Rounded(x) = x
  BY <1>8 DEF Rounded
<1>11. QED
  BY <1>3, <1>4, <1>7, <1>9, <1>10 DEF F

LEMMA FileSums ==
  ASSUME NEW ids \in BoundedSeq(TableIds, MaxRows), NEW sums \in [Batches -> 0 .. P - 1]
  PROVE  /\ SumsAfter(sums, Chunks(ids)) \in [Batches -> 0 .. P - 1]
         /\ \A b \in Batches : SumsAfter(sums, Chunks(ids))[b]
                                 = (sums[b] + SumFunctionOnSet(Residues(ids), InBatch(ids, b))) % P
<1>1. PICK N \in Nat : DOMAIN Chunks(ids) = 1 .. N
  BY ChunksPartition
<1> DEFINE F(b, i) == Fiber(InBatch(ids, b), ChunkOf(ids), i)
           n == [b \in Batches |-> [i \in 1 .. N |-> SumFunctionOnSet(Residues(ids), F(b, i))]]
<1>2. ASSUME NEW b \in Batches, NEW i \in 1 .. N
      PROVE  /\ SumFunctionOnSet(Residues(ids), F(b, i)) \in Nat
             /\ Rounded(SumFunctionOnSet(Residues(Chunks(ids)[i]), InBatch(Chunks(ids)[i], b)))
                  = SumFunctionOnSet(Residues(ids), F(b, i))
  BY <1>1, ChunkSumIsExact
<1>3. ASSUME NEW b \in Batches
      PROVE  SumFunctionOnSet(n[b], 1 .. N) = SumFunctionOnSet(Residues(ids), InBatch(ids, b))
  <2> DEFINE S == InBatch(ids, b)
             D == 1 .. N
             f == Residues(ids)
             h == ChunkOf(ids)
  <2>1. IsFiniteSet(S) /\ IsFiniteSet(D) /\ \A k \in S : f[k] \in Nat /\ h[k] \in D
    <3>1. IsFiniteSet(S) /\ S \subseteq DOMAIN ids /\ \A k \in S : f[k] \in Nat
      BY BatchRowsAreFinite
    <3>2. IsFiniteSet(D)
      BY FS_Interval
    <3>3. \A k \in DOMAIN ids : h[k] \in D
      BY <1>1, ChunksPartition
    <3> HIDE DEF S, D, f, h
    <3>4. QED
      BY <3>1, <3>2, <3>3
  <2>2. n[b] = [i \in D |-> SumFunctionOnSet(f, Fiber(S, h, i))]
    OBVIOUS
  <2> HIDE DEF S, D, f, h, n
  <2>3. SumFunctionOnSet(f, S) = SumFunctionOnSet([i \in D |-> SumFunctionOnSet(f, Fiber(S, h, i))], D)
    BY <2>1, SumByFibers
  <2>4. QED
    BY <2>2, <2>3 DEF S, D, f
<1>4. n \in [Batches -> [1 .. N -> Nat]]
  <2> HIDE DEF F
  <2>1. QED
    BY <1>2
<1>5. SumsOfChunks(Chunks(ids), n, N, sums)
  <2> HIDE DEF F
  <2>1. QED
    BY <1>1, <1>2, <1>4 DEF SumsOfChunks
<1> HIDE DEF n
<1>6. /\ SumsAfter(sums, Chunks(ids)) \in [Batches -> 0 .. P - 1]
      /\ \A b \in Batches : SumsAfter(sums, Chunks(ids))[b] = (sums[b] + SumFunctionOnSet(n[b], 1 .. N)) % P
  <2>1. SumsAdd(Chunks(ids), n, N, sums)
    BY <1>5, SumFoldAdds
  <2>2. QED
    BY <2>1 DEF SumsAdd
<1>7. QED
  BY <1>3, <1>6

-----------------------------------------------------------------------------
(* What a file adds to the ledger: as many of every row as it holds.       *)
Held(ids, r) == {i \in DOMAIN ids : ids[i] = r}
After(l, ids) == [r \in RowIds |-> l[r] + Cardinality(Held(ids, r))]

LEMMA HeldIsFinite ==
  ASSUME NEW ids \in BoundedSeq(TableIds, MaxRows), NEW r
  PROVE  IsFiniteSet(Held(ids, r)) /\ Cardinality(Held(ids, r)) \in Nat
<1>1. Len(ids) \in Nat /\ DOMAIN ids = 1 .. Len(ids)
  BY FileIsSeq
<1>2. IsFiniteSet(1 .. Len(ids)) /\ Held(ids, r) \subseteq 1 .. Len(ids)
  BY <1>1, FS_Interval DEF Held
<1>3. QED
  BY <1>2, FS_Subset, FS_CardinalityType

LEMMA AfterIsLedger ==
  ASSUME NEW l \in Ledger, NEW ids \in BoundedSeq(TableIds, MaxRows)
  PROVE  After(l, ids) \in Ledger /\ \A r \in RowIds : l[r] <= After(l, ids)[r]
<1>1. \A r \in RowIds : l[r] \in Nat /\ Cardinality(Held(ids, r)) \in Nat
  BY HeldIsFinite DEF Ledger
<1>2. QED
  BY <1>1 DEF After, Ledger

(* The rows of a batch in the file, counted row by row with a weight.      *)
LEMMA HeldOfBatch ==
  ASSUME NEW ids \in BoundedSeq(TableIds, MaxRows), NEW b \in Batches, NEW w,
         \A r \in RowsOf(b) : w[r] \in Nat
  PROVE  SumFunctionOnSet([k \in InBatch(ids, b) |-> w[ids[k]]], InBatch(ids, b))
           = SumFunctionOnSet([r \in RowsOf(b) |-> Cardinality(Held(ids, r)) * w[r]], RowsOf(b))
<1> DEFINE S == InBatch(ids, b)
           T == RowsOf(b)
           f == [k \in S |-> w[ids[k]]]
           g == [r \in T |-> SumFunctionOnSet(f, Fiber(S, ids, r))]
           m == [r \in T |-> Cardinality(Held(ids, r)) * w[r]]
<1>1. IsFiniteSet(S) /\ IsFiniteSet(T) /\ S \subseteq DOMAIN ids /\ \A k \in S : ids[k] \in T
  BY BatchRowsAreFinite, RowsAreFinite
<1>2. \A k \in S : f[k] = w[ids[k]] /\ f[k] \in Nat
  BY <1>1
<1>3. ASSUME NEW r \in T PROVE g[r] = m[r]
  <2>1. Fiber(S, ids, r) = Held(ids, r)
    <3>1. \A k \in DOMAIN ids : ids[k] = r => k \in S
      <4>1. r \in TableIds /\ BatchOf(r) = b
        <5>1. r \in RowIds
          BY RowsAreFinite
        <5>2. QED
          BY <5>1, RowInBatch DEF TableIds
      <4>2. QED
        BY <4>1 DEF InBatch
    <3>2. QED
      BY <1>1, <3>1 DEF Fiber, Held
  <2>2. IsFiniteSet(Held(ids, r)) /\ w[r] \in Nat
    BY HeldIsFinite
  <2>3. \A k \in Held(ids, r) : f[k] = w[r]
    BY <1>2, <2>1 DEF Fiber
  <2> HIDE DEF f, S
  <2>4. SumFunctionOnSet(f, Held(ids, r)) = Cardinality(Held(ids, r)) * w[r]
    BY <2>2, <2>3, SumOfConstant
  <2>5. QED
    BY <2>1, <2>4
<1> HIDE DEF f, S, T, m
<1>4. SumFunctionOnSet(f, S) = SumFunctionOnSet(g, T)
  BY <1>1, <1>2, SumByFibers
<1> HIDE DEF g
<1>5. SumFunctionOnSet(g, T) = SumFunctionOnSet(m, T)
  BY <1>1, <1>3, SumAgrees
<1>6. QED
  BY <1>4, <1>5 DEF f, S, T, m

LEMMA CountAfter ==
  ASSUME NEW l \in Ledger, NEW ids \in BoundedSeq(TableIds, MaxRows), NEW b \in Batches
  PROVE  Count(After(l, ids), b) = Count(l, b) + Cardinality(InBatch(ids, b))
<1> DEFINE S == InBatch(ids, b)
           T == RowsOf(b)
           w == [r \in T |-> 1]
           f == [k \in S |-> w[ids[k]]]
           m == [r \in T |-> Cardinality(Held(ids, r)) * w[r]]
<1>1. IsFiniteSet(S) /\ IsFiniteSet(T) /\ T \subseteq RowIds /\ \A k \in S : ids[k] \in T
  BY BatchRowsAreFinite, RowsAreFinite
<1>2. \A r \in T : w[r] = 1 /\ w[r] \in Nat
  OBVIOUS
<1>3. \A k \in S : f[k] = 1
  BY <1>1
<1>4. \A r \in T : l[r] \in Nat /\ m[r] \in Nat /\ After(l, ids)[r] = l[r] + m[r]
  <2>1. \A r \in T : l[r] \in Nat /\ Cardinality(Held(ids, r)) \in Nat /\ m[r] = Cardinality(Held(ids, r))
    BY <1>1, HeldIsFinite DEF Ledger
  <2>2. QED
    BY <1>1, <2>1 DEF After
<1> HIDE DEF w
<1>5. SumFunctionOnSet(f, S) = SumFunctionOnSet(m, T)
  BY <1>2, HeldOfBatch
<1> HIDE DEF f, m, S, T
<1>6. SumFunctionOnSet(f, S) = Cardinality(S)
  BY <1>1, <1>3, SumOfOnes
<1>7. SumFunctionOnSet(After(l, ids), T) = SumFunctionOnSet(l, T) + SumFunctionOnSet(m, T)
  BY <1>1, <1>4, SumAdds
<1>8. QED
  BY <1>5, <1>6, <1>7 DEF Count, S, T

LEMMA ChecksumAfter ==
  ASSUME NEW l \in Ledger, NEW ids \in BoundedSeq(TableIds, MaxRows), NEW b \in Batches
  PROVE  Checksum(After(l, ids), b) = (Checksum(l, b) + SumFunctionOnSet(Residues(ids), InBatch(ids, b))) % P
<1> DEFINE S == InBatch(ids, b)
           T == RowsOf(b)
           w == [r \in T |-> Weight(r)]
           f == [k \in S |-> w[ids[k]]]
           m == [r \in T |-> Cardinality(Held(ids, r)) * w[r]]
           a == Weighed(After(l, ids), b)
           c == Weighed(l, b)
<1>1. IsFiniteSet(S) /\ IsFiniteSet(T) /\ T \subseteq RowIds /\ \A k \in S : ids[k] \in T
  BY BatchRowsAreFinite, RowsAreFinite
<1>2. \A r \in T : w[r] = Weight(r) /\ w[r] \in Nat
  BY WeightIsNat
<1>3. \A k \in S : f[k] = Residues(ids)[k]
  BY <1>1, BatchRowsAreFinite
<1>4. \A r \in T : c[r] \in Nat /\ m[r] \in Nat /\ a[r] = c[r] + m[r]
  <2> SUFFICES ASSUME NEW r \in T PROVE c[r] \in Nat /\ m[r] \in Nat /\ a[r] = c[r] + m[r]
    OBVIOUS
  <2> DEFINE x == l[r]
             y == Cardinality(Held(ids, r))
             z == Weight(r)
  <2>1. x \in Nat /\ y \in Nat /\ z \in Nat
    BY <1>1, HeldIsFinite, WeightIsNat DEF Ledger
  <2>2. After(l, ids)[r] = x + y
    BY <1>1 DEF After
  <2>3. c[r] = x * z /\ a[r] = (x + y) * z /\ m[r] = y * z
    BY <2>2 DEF Weighed
  <2> HIDE DEF x, y, z, a, c, m
  <2>4. x * z \in Nat /\ y * z \in Nat /\ (x + y) * z = x * z + y * z
    BY ONLY <2>1
  <2>5. QED
    BY <2>3, <2>4
<1> HIDE DEF w
<1>5. SumFunctionOnSet(f, S) = SumFunctionOnSet(m, T)
  BY <1>2, HeldOfBatch
<1>6. Checksum(After(l, ids), b) = SumFunctionOnSet(a, T) % P /\ Checksum(l, b) = SumFunctionOnSet(c, T) % P
  BY DEF Checksum, Weighed, Weight
<1> HIDE DEF f, m, S, T, a, c
<1>7. SumFunctionOnSet(f, S) = SumFunctionOnSet(Residues(ids), S)
  BY <1>1, <1>3, SumAgrees
<1>8. SumFunctionOnSet(a, T) = SumFunctionOnSet(c, T) + SumFunctionOnSet(m, T)
  BY <1>1, <1>4, SumAdds
<1>9. SumFunctionOnSet(c, T) \in Nat /\ SumFunctionOnSet(m, T) \in Nat
  BY <1>1, <1>4, SumIsNat
<1>10. ((SumFunctionOnSet(c, T) % P) + SumFunctionOnSet(m, T)) % P = (SumFunctionOnSet(c, T) + SumFunctionOnSet(m, T)) % P
  BY <1>9, ReducedEarly
<1>11. QED
  BY <1>5, <1>6, <1>7, <1>8, <1>10 DEF S

-----------------------------------------------------------------------------
(* The invariant: typed, and what is kept is what the ledger says.         *)
TallyTypeOK ==
  /\ ledger \in Ledger
  /\ counts \in [Batches -> Nat]
  /\ sum_mod \in [Batches -> 0 .. P - 1]

TallyInv == TallyTypeOK /\ MatchesLedger

(* The prefix is the only one of its kind.                                 *)
LEMMA PrefixIsUnique ==
  ASSUME NEW l, NEW k \in -1 .. NBatches - 1, \A b \in 0 .. k : Covered(l, b),
         k + 1 \in Batches => ~Covered(l, k + 1)
  PROVE  CoveredPrefix(l) = k
<1> DEFINE j == CoveredPrefix(l)
<1>1. /\ j \in -1 .. NBatches - 1 /\ \A b \in 0 .. j : Covered(l, b)
      /\ j + 1 \in Batches => ~Covered(l, j + 1)
  BY PrefixIsDefined
<1> HIDE DEF j
<1>2. ASSUME j < k PROVE FALSE
  <2>1. j + 1 \in 0 .. k /\ j + 1 \in Batches
    BY <1>1, <1>2, ReplayAssumption DEF Batches
  <2>2. QED
    BY <1>1, <2>1
<1>3. ASSUME k < j PROVE FALSE
  <2>1. k + 1 \in 0 .. j /\ k + 1 \in Batches
    BY <1>1, <1>3, ReplayAssumption DEF Batches
  <2>2. QED
    BY <1>1, <2>1
<1>4. QED
  BY <1>1, <1>2, <1>3 DEF j

(* The loop stops at the prefix of the grown ledger.                       *)
LEMMA AdvancedToPrefix ==
  ASSUME NEW l \in Ledger, NEW m \in Ledger, \A r \in RowIds : l[r] <= m[r],
         NEW cs, \A b \in Batches : cs[b] = Count(m, b)
  PROVE  Advanced(CoveredPrefix(l), cs) = CoveredPrefix(m)
<1> DEFINE from == CoveredPrefix(l)
           k == CoveredPrefix(m)
           Stops(x) == /\ \A b \in from + 1 .. x : cs[b] >= RowCount[b]
                       /\ x + 1 \in Batches => cs[x + 1] < RowCount[x + 1]
           j == Advanced(from, cs)
<1>1. /\ from \in -1 .. NBatches - 1 /\ \A b \in 0 .. from : Covered(l, b)
      /\ k \in -1 .. NBatches - 1 /\ \A b \in 0 .. k : Covered(m, b)
      /\ k + 1 \in Batches => ~Covered(m, k + 1)
      /\ from <= k
  BY PrefixIsDefined, PrefixMonotonic
<1>2. \A b \in Batches : /\ Covered(m, b) <=> cs[b] >= RowCount[b]
                         /\ ~Covered(m, b) <=> cs[b] < RowCount[b]
  BY CountIsNat, RowsAreFinite DEF Covered
<1> HIDE DEF from, k
<1>3. \A x \in from .. NBatches - 1 : \A b \in from + 1 .. x : b \in Batches
  BY <1>1, ReplayAssumption DEF Batches
<1>4. k \in from .. NBatches - 1 /\ Stops(k)
  <2>1. \A b \in from + 1 .. k : b \in 0 .. k
    BY <1>1
  <2>2. QED
    BY <1>1, <1>2, <1>3, <2>1
<1>5. j \in from .. NBatches - 1 /\ Stops(j)
  BY <1>4 DEF Advanced
<1> HIDE DEF j
<1>6. j \in -1 .. NBatches - 1
  BY <1>1, <1>5
<1>7. \A b \in 0 .. j : Covered(m, b)
  <2> SUFFICES ASSUME NEW b \in 0 .. j PROVE Covered(m, b)
    OBVIOUS
  <2>1. b \in Batches
    BY <1>6, ReplayAssumption DEF Batches
  <2>2. CASE b \in from + 1 .. j
    BY <1>2, <1>5, <2>1, <2>2
  <2>3. CASE b \in 0 .. from
    <3>1. Count(l, b) >= RowCount[b]
      BY <1>1, <2>3 DEF Covered
    <3>2. /\ Count(l, b) <= Count(m, b) /\ Count(l, b) \in Nat /\ Count(m, b) \in Nat
          /\ RowCount[b] \in Nat
      BY <2>1, CountMonotonic, CountIsNat, RowsAreFinite
    <3>3. QED
      BY <3>1, <3>2 DEF Covered
  <2>4. QED
    BY <1>1, <1>6, <2>2, <2>3
<1>8. j + 1 \in Batches => ~Covered(m, j + 1)
  BY <1>2, <1>5
<1>9. CoveredPrefix(m) = j
  BY <1>6, <1>7, <1>8, PrefixIsUnique
<1>10. QED
  BY <1>9 DEF j, from

LEMMA InitTally == TallyInit => TallyInv
<1> SUFFICES ASSUME TallyInit PROVE TallyInv
  OBVIOUS
<1> DEFINE l == EmptyLedger
<1>1. ledger = l /\ l \in Ledger /\ \A r \in RowIds : l[r] = 0
  BY DEF TallyInit, EmptyLedger, Ledger
<1>2. P \in Nat \ {0} /\ 0 \in 0 .. P - 1
  BY TallyAssumption
<1> HIDE DEF l
<1>3. ASSUME NEW b \in Batches PROVE Count(l, b) = 0 /\ Checksum(l, b) = 0
  <2> DEFINE T == RowsOf(b)
             f == Weighed(l, b)
  <2>1. IsFiniteSet(T) /\ T \subseteq RowIds
    BY RowsAreFinite
  <2>2. \A r \in T : l[r] = 0 /\ l[r] \in Nat
    BY <1>1, <2>1
  <2>3. \A r \in T : f[r] = 0 /\ f[r] \in Nat
    <3> SUFFICES ASSUME NEW r \in T PROVE f[r] = 0
      OBVIOUS
    <3>1. Weight(r) \in Nat /\ l[r] = 0
      BY <2>2, WeightIsNat
    <3>2. l[r] * Weight(r) = 0
      BY <3>1
    <3>3. QED
      BY <3>2 DEF Weighed
  <2>4. Checksum(l, b) = SumFunctionOnSet(f, T) % P /\ Count(l, b) = SumFunctionOnSet(l, T)
    BY DEF Checksum, Weighed, Weight, Count
  <2> HIDE DEF f, T
  <2>5. SumFunctionOnSet(f, T) = 0 /\ SumFunctionOnSet(l, T) = 0
    BY <2>1, <2>2, <2>3, SumIsZero
  <2>6. 0 % P = 0
    BY ONLY <1>2
  <2>7. QED
    BY <2>4, <2>5, <2>6
<1>4. CoveredPrefix(l) = -1
  <2>1. 0 \in Batches
    BY ReplayAssumption DEF Batches
  <2>2. ~Covered(l, 0)
    BY <1>3, <2>1, RowsAreFinite DEF Covered
  <2>3. -1 \in -1 .. NBatches - 1 /\ (-1) + 1 = 0 /\ \A b \in 0 .. -1 : FALSE
    BY ReplayAssumption
  <2>4. QED
    BY <2>2, <2>3, PrefixIsUnique
<1>5. TallyTypeOK
  BY <1>1, <1>2 DEF TallyInit, TallyTypeOK
<1>6. MatchesLedger
  BY <1>1, <1>3, <1>4 DEF TallyInit, MatchesLedger
<1>7. QED
  BY <1>5, <1>6 DEF TallyInv

LEMMA AddKeepsTally ==
  ASSUME TallyInv, NEW ids \in BoundedSeq(TableIds, MaxRows), AddIds(ids)
  PROVE  TallyInv'
<1> DEFINE m == After(ledger, ids)
<1>1. /\ ledger \in Ledger /\ counts \in [Batches -> Nat] /\ sum_mod \in [Batches -> 0 .. P - 1]
      /\ \A b \in Batches : counts[b] = Count(ledger, b) /\ sum_mod[b] = Checksum(ledger, b)
      /\ prefix = CoveredPrefix(ledger)
  BY DEF TallyInv, TallyTypeOK, MatchesLedger
<1>2. ledger' = m /\ m \in Ledger /\ \A r \in RowIds : ledger[r] <= m[r]
  <2>1. ledger' = m
    BY DEF AddIds, After, Held
  <2>2. QED
    BY <1>1, <2>1, AfterIsLedger
<1> HIDE DEF m
<1>3. counts' \in [Batches -> Nat] /\ \A b \in Batches : counts'[b] = Count(m, b)
  <2>1. counts' = CountsAfter(counts, Chunks(ids))
    BY DEF AddIds, CountsAfter
  <2>2. counts' \in [Batches -> Nat] /\ \A b \in Batches : counts'[b] = counts[b] + Cardinality(InBatch(ids, b))
    BY <1>1, <2>1, FileCounts
  <2>3. \A b \in Batches : Count(m, b) = Count(ledger, b) + Cardinality(InBatch(ids, b))
    BY <1>1, CountAfter DEF m
  <2>4. QED
    BY <1>1, <2>2, <2>3
<1>4. sum_mod' \in [Batches -> 0 .. P - 1] /\ \A b \in Batches : sum_mod'[b] = Checksum(m, b)
  <2>1. sum_mod' = SumsAfter(sum_mod, Chunks(ids))
    BY DEF AddIds, SumsAfter
  <2>2. /\ sum_mod' \in [Batches -> 0 .. P - 1]
        /\ \A b \in Batches : sum_mod'[b] = (sum_mod[b] + SumFunctionOnSet(Residues(ids), InBatch(ids, b))) % P
    BY <1>1, <2>1, FileSums
  <2>3. \A b \in Batches : Checksum(m, b) = (Checksum(ledger, b) + SumFunctionOnSet(Residues(ids), InBatch(ids, b))) % P
    BY <1>1, ChecksumAfter DEF m
  <2>4. QED
    BY <1>1, <2>2, <2>3
<1>5. prefix' = CoveredPrefix(m)
  <2>1. prefix' = Advanced(CoveredPrefix(ledger), counts')
    BY <1>1 DEF AddIds
  <2>2. QED
    BY <1>1, <1>2, <1>3, <2>1, AdvancedToPrefix
<1>6. QED
  BY <1>2, <1>3, <1>4, <1>5 DEF TallyInv, TallyTypeOK, MatchesLedger

LEMMA NextKeepsTally == TallyInv /\ [TallyNext]_tallyVars => TallyInv'
<1> SUFFICES ASSUME TallyInv, [TallyNext]_tallyVars PROVE TallyInv'
  OBVIOUS
<1>1. CASE UNCHANGED tallyVars
  BY <1>1 DEF tallyVars, TallyInv, TallyTypeOK, MatchesLedger
<1>2. ASSUME NEW ids \in BoundedSeq(TableIds, MaxRows), AddIds(ids) PROVE TallyInv'
  BY <1>2, AddKeepsTally
<1>3. ASSUME NEW ids \in BoundedSeq(TableIds, MaxRows), RejectIds(ids) PROVE TallyInv'
  BY <1>3 DEF RejectIds, TallyInv, TallyTypeOK, MatchesLedger
<1>4. QED
  BY <1>1, <1>2, <1>3 DEF TallyNext

LEMMA TallyIsInvariant == TallySpec => []TallyInv
<1>1. QED
  BY InitTally, NextKeepsTally, PTL DEF TallySpec

-----------------------------------------------------------------------------
(* What the tally keeps incrementally is what has been read (add_ids), for *)
(* any corpus and modulus, any files and any size of chunks whose sums a   *)
(* float still holds.                                                      *)
THEOREM TallyMatchesLedger == TallySpec => []MatchesLedger
<1>1. TallyInv => MatchesLedger
  BY DEF TallyInv
<1>2. QED
  BY <1>1, TallyIsInvariant, PTL

(* A row missing behind another read twice is not taken for a complete     *)
(* batch (complete), in any corpus whose batches have no more rows than    *)
(* the checksum has residues.                                              *)
THEOREM TallyDetectsSubstitution ==
  ASSUME \A b \in Batches : RowCount[b] <= P
  PROVE  TallySpec => []SubstitutionDetected
<1>1. TallyInv => SubstitutionDetected
  <2> SUFFICES ASSUME TallyInv, NEW b \in Batches, complete(b),
                      NEW lost \in RowsOf(b), NEW twice \in RowsOf(b),
                      ledger[lost] = 0, ledger[twice] = 2,
                      \A r \in RowsOf(b) \ {lost, twice} : ledger[r] = 1
               PROVE  FALSE
    BY DEF SubstitutionDetected
  <2>1. ledger \in Ledger /\ sum_mod[b] = Checksum(ledger, b) /\ sum_mod[b] = ExpectedChecksum(b)
    BY DEF TallyInv, TallyTypeOK, MatchesLedger, complete
  <2>2. lost # twice
    OBVIOUS
  <2>3. QED
    BY <2>1, <2>2, SubstitutionShows
<1>2. QED
  BY <1>1, TallyIsInvariant, PTL

(* Exact is no loss, no duplicate and no corrupt batch: the sums of the    *)
(* verdict (exactness_result) are of natural numbers, so that none can     *)
(* cancel another.                                                         *)
LEMMA ExactIsNoFault ==
  ASSUME NEW l \in Ledger, NEW offered \in SUBSET Batches
  PROVE  Exact(l, offered) <=> /\ LossRows(l, offered) = 0
                               /\ DuplicateRows(l, offered) = 0
                               /\ CorruptBatches(l, offered) = {}
<1> DEFINE f == [b \in offered |-> IF Covered(l, b) THEN 0 ELSE RowCount[b] - Count(l, b)]
           g == [b \in offered |-> IF Covered(l, b) THEN Count(l, b) - RowCount[b] ELSE 0]
<1>1. IsFiniteSet(offered)
  <2>1. IsFiniteSet(Batches)
    BY ReplayAssumption, FS_Interval DEF Batches
  <2>2. QED
    BY <2>1, FS_Subset
<1>2. \A b \in offered : Count(l, b) \in Nat /\ RowCount[b] \in Nat
  BY CountIsNat, RowsAreFinite
<1>3. \A b \in offered : f[b] \in Nat /\ g[b] \in Nat
  BY <1>2 DEF Covered
<1>4. \A b \in offered : f[b] = 0 /\ g[b] = 0 <=> Count(l, b) = RowCount[b]
  BY <1>2 DEF Covered
<1>5. LossRows(l, offered) = SumFunctionOnSet(f, offered)
  BY DEF LossRows, SumFunction
<1>6. DuplicateRows(l, offered) = SumFunctionOnSet(g, offered)
  BY DEF DuplicateRows, SumFunction
<1> HIDE DEF f, g
<1>7. /\ SumFunctionOnSet(f, offered) = 0 <=> \A b \in offered : f[b] = 0
      /\ SumFunctionOnSet(g, offered) = 0 <=> \A b \in offered : g[b] = 0
  BY <1>1, <1>3, SumIsZero
<1>8. QED
  BY <1>4, <1>5, <1>6, <1>7 DEF Exact, CorruptBatches, Complete

THEOREM TallyExactMeansNoFault == TallySpec => []ExactMeansNoFault
<1>1. TallyInv => ExactMeansNoFault
  <2>1. TallyInv => ledger \in Ledger
    BY DEF TallyInv, TallyTypeOK
  <2>2. QED
    BY <2>1, ExactIsNoFault DEF ExactMeansNoFault
<1>2. QED
  BY <1>1, TallyIsInvariant, PTL

-----------------------------------------------------------------------------
(* The prefix grows by at most a byte from one width to the next.          *)
LEMMA Products ==
  ASSUME NEW a \in Int, NEW b \in Int, NEW p \in Nat, a <= b
  PROVE  a * p <= b * p
OBVIOUS

LEMMA GrowthsAre ==
  ASSUME NEW v \in Nat, NEW w \in Nat, v <= w
  PROVE  /\ GrownBy(v) \in Nat /\ GrownBy(w) \in Nat /\ GrownBy(v) <= GrownBy(w)
         /\ GrownBy(w) <= GrownBy(v) + (w - v) /\ GrownBy(w) <= Cardinality(Growths)
<1> DEFINE V == {g \in Growths : g <= v}
           W == {g \in Growths : g <= w}
           D == (v + 1) .. w
<1>1. IsFiniteSet(V) /\ IsFiniteSet(W) /\ Cardinality(W) <= Cardinality(Growths)
  BY CalibrationAssumption, FS_Subset
<1>2. Cardinality(V) <= Cardinality(W)
  <2>1. V \in SUBSET W
    BY CalibrationAssumption
  <2>2. QED
    BY <1>1, <2>1, FS_Subset
<1>3. IsFiniteSet(D) /\ Cardinality(D) = w - v
  <2>1. v + 1 \in Int /\ w \in Int /\ (v + 1 > w => w - v = 0) /\ w - (v + 1) + 1 = w - v
    OBVIOUS
  <2>2. IsFiniteSet(D) /\ Cardinality(D) = IF v + 1 > w THEN 0 ELSE w - (v + 1) + 1
    BY <2>1, FS_Interval
  <2>3. QED
    BY <2>1, <2>2
<1>4. Cardinality(W) <= Cardinality(V) + (w - v)
  <2>1. W \in SUBSET (V \cup D)
    BY CalibrationAssumption
  <2>2. IsFiniteSet(V \cup D) /\ Cardinality(V \cup D) \in Nat /\ Cardinality(W) \in Nat
        /\ Cardinality(V) \in Nat /\ Cardinality(V \cap D) \in Nat
    BY <1>1, <1>3, FS_Union, FS_CardinalityType, FS_Intersection
  <2>3. Cardinality(V \cup D) = Cardinality(V) + Cardinality(D) - Cardinality(V \cap D)
    BY <1>1, <1>3, FS_Union
  <2>4. Cardinality(W) <= Cardinality(V \cup D)
    BY <2>1, <2>2, FS_Subset
  <2>5. QED
    BY <1>3, <2>2, <2>3, <2>4
<1>5. Cardinality(V) \in Nat /\ Cardinality(W) \in Nat
  BY <1>1, FS_CardinalityType
<1>6. QED
  BY <1>1, <1>2, <1>4, <1>5 DEF GrownBy

(* Over a distance shorter than the widths are apart it grows once.        *)
LEMMA GrowsOnce ==
  ASSUME NEW v \in Nat, NEW w \in Nat, v <= w, w - v <= Cardinality(Growths)
  PROVE  GrownBy(w) <= GrownBy(v) + 1
<1> DEFINE V == {g \in Growths : g <= v}
           W == {g \in Growths : g <= w}
<1>1. IsFiniteSet(V) /\ IsFiniteSet(W) /\ V \subseteq W /\ Cardinality(V) \in Nat /\ Cardinality(W) \in Nat
      /\ Cardinality(Growths) \in Nat
  BY CalibrationAssumption, FS_Subset, FS_CardinalityType
<1> GrownBy(v) = Cardinality(V) /\ GrownBy(w) = Cardinality(W)
  BY DEF GrownBy
<1>2. CASE W = V
  BY <1>1, <1>2
<1>3. CASE W # V
  <2>1. PICK h \in W : h \notin V
    BY <1>1, <1>3
  <2>2. ASSUME NEW g \in W, g \notin V, g # h PROVE FALSE
    <3>1. g \in Nat /\ h \in Nat /\ g \in Growths /\ h \in Growths /\ v < g /\ v < h /\ g <= w /\ h <= w
      BY <2>1, <2>2, CalibrationAssumption
    <3>2. (g < h => h - g >= Cardinality(Growths)) /\ (h < g => g - h >= Cardinality(Growths))
      BY <3>1, CalibrationAssumption
    <3>3. QED
      BY <1>1, <2>2, <3>1, <3>2
  <2>3. W = V \cup {h}
    BY <1>1, <2>1, <2>2
  <2>4. Cardinality(W) = Cardinality(V) + 1
    BY <1>1, <2>1, <2>3, FS_AddElement
  <2>5. QED
    BY <1>1, <2>4 DEF GrownBy
<1>4. QED
  BY <1>2, <1>3

(* Wider payloads make larger rows.                                        *)
LEMMA MeansAre ==
  ASSUME others \in Nat, NEW v \in Nat, NEW w \in Nat
  PROVE  /\ Mean(v) \in Nat /\ Mean(w) \in Nat
         /\ Mean(w) = Mean(v) + ((w - v) + (GrownBy(w) - GrownBy(v))) * Parts
         /\ v < w => Mean(v) + Parts <= Mean(w)
<1> DEFINE a == v + 1 + GrownBy(v)
           b == w + 1 + GrownBy(w)
<1>1. Parts \in Nat \ {0} /\ GrownBy(v) \in Nat /\ GrownBy(w) \in Nat
  BY GrowthsAre, CalibrationAssumption
<1>2. a \in Nat /\ b \in Nat /\ b - a = (w - v) + (GrownBy(w) - GrownBy(v))
  BY <1>1
<1>3. v < w => a + 1 <= b
  BY <1>1, GrowthsAre
<1>4. Mean(v) = others + a * Parts /\ Mean(w) = others + b * Parts
  BY DEF Mean
<1> HIDE DEF a, b
<1>5. Mean(v) \in Nat /\ Mean(w) \in Nat
  BY <1>1, <1>2, <1>4
<1>6. b * Parts = a * Parts + (b - a) * Parts
  BY <1>1, <1>2
<1>7. v < w => (a + 1) * Parts <= b * Parts
  BY <1>1, <1>2, <1>3, Products
<1>8. (a + 1) * Parts = a * Parts + Parts
  BY <1>1, <1>2
<1>9. a * Parts \in Int /\ b * Parts \in Int /\ (b - a) * Parts \in Int
  BY <1>1, <1>2
<1>10. Mean(w) = Mean(v) + (b - a) * Parts
  BY <1>4, <1>6, <1>9
<1>11. v < w => Mean(v) + Parts <= Mean(w)
  BY <1>1, <1>4, <1>7, <1>8, <1>9
<1>12. QED
  BY <1>2, <1>5, <1>10, <1>11

(* The closest of some widths is one of them.                              *)
LEMMA ClosestIs ==
  ASSUME others \in Nat, target \in Nat, NEW ws \in SUBSET Nat, ws # {}
  PROVE  /\ Closest(ws) \in ws
         /\ \A w \in ws : Apart(Closest(ws)) <= Apart(w)
<1>1. ASSUME NEW w \in Nat PROVE Apart(w) \in Nat
  <2>1. Mean(w) \in Nat /\ target * Parts \in Nat
    BY MeansAre, CalibrationAssumption
  <2>2. QED
    BY <2>1 DEF Apart
<1> DEFINE As == {Apart(w) : w \in ws}
<1>2. As \in SUBSET Nat /\ As # {} /\ \A w \in ws : Apart(w) \in As
  BY <1>1
<1> HIDE DEF As
<1>3. PICK a \in As : \A b \in As : a <= b
  BY <1>2, LeastNumber
<1> DEFINE Ls == {w \in ws : Apart(w) = a}
<1>4. Ls \in SUBSET Nat /\ Ls # {}
  BY <1>3 DEF As
<1> HIDE DEF Ls
<1>5. PICK l \in Ls : \A m \in Ls : l <= m
  BY <1>4, LeastNumber
<1>6. l \in ws /\ Apart(l) = a
  BY DEF Ls
<1>7. ASSUME NEW w \in ws PROVE Apart(l) < Apart(w) \/ (Apart(l) = Apart(w) /\ l <= w)
  <2>1. a <= Apart(w) /\ Apart(w) \in Nat /\ a \in Nat
    BY <1>1, <1>2, <1>3
  <2>2. Apart(w) = a => l <= w
    BY <1>5 DEF Ls
  <2>3. QED
    BY <1>6, <2>1, <2>2
<1>8. Closest(ws) \in ws
      /\ \A w \in ws : Apart(Closest(ws)) < Apart(w) \/ (Apart(Closest(ws)) = Apart(w) /\ Closest(ws) <= w)
  BY <1>6, <1>7 DEF Closest
<1>9. QED
  <2>1. ASSUME NEW w \in ws PROVE Apart(Closest(ws)) <= Apart(w)
    <3>1. Apart(Closest(ws)) \in Nat /\ Apart(w) \in Nat
      BY <1>1, <1>8
    <3>2. QED
      BY <1>8, <3>1
  <2>2. QED
    BY <1>8, <2>1

(* A quotient and a remainder are the only ones.                           *)
LEMMA DividedBy ==
  ASSUME NEW p \in Nat \ {0}, NEW q \in Int, NEW r \in Nat, r < p, NEW n \in Int, n = q * p + r
  PROVE  n \div p = q /\ n % p = r
<1> DEFINE a == n \div p
           b == n % p
<1>1. n = p * a + b /\ a \in Int /\ b \in Nat /\ b < p
  OBVIOUS
<1> HIDE DEF a, b
<1>2. (q - a) * p = b - r
  BY <1>1
<1>3. CASE q - a >= 1
  <2>1. 1 * p <= (q - a) * p
    BY <1>1, <1>3, Products
  <2>2. QED
    BY <1>1, <1>2, <2>1
<1>4. CASE q - a <= -1
  <2>1. (q - a) * p <= (-1) * p
    BY <1>1, <1>4, Products
  <2>2. (-1) * p = -p
    OBVIOUS
  <2>3. QED
    BY <1>1, <1>2, <2>1, <2>2
<1>5. CASE q = a
  <2>1. (q - a) * p = 0
    BY <1>5
  <2>2. QED
    BY <1>1, <1>2, <1>5, <2>1 DEF a, b
<1>6. QED
  BY <1>1, <1>3, <1>4, <1>5

(* What the estimate misses is rounded to the prefix's growth, or to a     *)
(* byte less where the estimate cut off half a byte or more.               *)
LEMMA RoundsToEven ==
  ASSUME NEW k \in Nat, NEW d \in Nat, d < Parts
  PROVE  \/ Round(k * Parts - d) = k /\ 2 * d <= Parts
         \/ Round(k * Parts - d) = k - 1 /\ 2 * d >= Parts
<1> DEFINE n == k * Parts - d
           low == n \div Parts
           rem == n % Parts
<1>1. Parts \in Nat \ {0} /\ n \in Int /\ k * Parts \in Int
  BY CalibrationAssumption
<1>2. Round(n) = IF 2 * rem < Parts \/ (2 * rem = Parts /\ low % 2 = 0) THEN low ELSE low + 1
  BY DEF Round
<1>3. CASE d = 0
  <2>1. n = k * Parts + 0
    BY <1>1, <1>3
  <2>2. low = k /\ rem = 0
    BY <1>1, <2>1, DividedBy
  <2> HIDE DEF n, low, rem
  <2>3. Round(n) = k /\ 2 * d <= Parts
    BY <1>1, <1>2, <1>3, <2>2
  <2>4. QED
    BY <2>3 DEF n
<1>4. CASE d # 0
  <2> DEFINE q == k - 1
             r == Parts - d
  <2>1. n = q * Parts + r
    BY <1>1
  <2>2. r \in Nat /\ r < Parts /\ q \in Int
    BY <1>1, <1>4
  <2>3. low = q /\ rem = r
    <3> HIDE DEF n, q, r
    <3>1. QED
      BY <1>1, <2>1, <2>2, DividedBy
  <2> HIDE DEF n, low, rem
  <2>4. Round(n) = low \/ Round(n) = low + 1
    BY <1>2
  <2>5. Round(n) = low => 2 * rem <= Parts
    BY <1>1, <1>2, <2>2, <2>3
  <2>6. Round(n) = low + 1 => 2 * rem >= Parts
    BY <1>1, <1>2, <2>2, <2>3
  <2>7. \/ Round(n) = k /\ 2 * d <= Parts
        \/ Round(n) = k - 1 /\ 2 * d >= Parts
    BY <1>1, <2>2, <2>3, <2>4, <2>5, <2>6
  <2>8. QED
    BY <2>7 DEF n
<1>5. QED
  BY <1>3, <1>4

LEMMA AtLeast ==
  ASSUME NEW x \in Int, x >= 1, NEW p \in Nat
  PROVE  p <= x * p
<1>1. 1 * p <= x * p
  BY Products
<1>2. QED
  BY <1>1

LEMMA AtMostNone ==
  ASSUME NEW x \in Int, x <= 0, NEW p \in Nat
  PROVE  x * p <= 0
<1>1. x * p <= 0 * p
  BY Products
<1>2. QED
  BY <1>1

(* The three candidates hold one that is as close as any width.            *)
LEMMA ChosenIsClosest ==
  ASSUME others \in Nat, target \in Nat, Mean(0) <= target * Parts,
         NEW e, e = AtLeastZero((target * Parts - Mean(0)) \div Parts),
         NEW x, x = Closest(Candidates(AtLeastZero(e - Round(Mean(e) - target * Parts))))
  PROVE  x \in Nat /\ \A w \in Nat : Apart(x) <= Apart(w)
<1> DEFINE T == target * Parts
           q == (T - Mean(0)) \div Parts
           d == (T - Mean(0)) % Parts
           k == GrownBy(e) - GrownBy(0)
           Miss(w) == (w - e) + (GrownBy(w) - GrownBy(0))
<1>1. Parts \in Nat \ {0} /\ T \in Nat /\ Mean(0) \in Nat
  BY MeansAre, CalibrationAssumption
<1> e = AtLeastZero((T - Mean(0)) \div Parts) /\ Mean(0) <= T
  OBVIOUS
<1> HIDE DEF T
<1>2. e = q /\ e \in Nat /\ d \in Nat /\ d < Parts /\ T = Mean(0) + e * Parts + d
  <2> DEFINE n == T - Mean(0)
  <2>1. n \in Nat
    BY <1>1
  <2> HIDE DEF n
  <2>2. n \div Parts \in Nat /\ n % Parts \in Nat /\ n % Parts < Parts /\ n = Parts * (n \div Parts) + (n % Parts)
    BY <1>1, <2>1
  <2>3. e = n \div Parts
    BY <2>2 DEF n, AtLeastZero
  <2>4. n = e * Parts + (n % Parts)
    BY <1>1, <2>2, <2>3
  <2>5. q = n \div Parts /\ d = n % Parts /\ T = Mean(0) + n
    BY <1>1 DEF n
  <2>6. QED
    BY <1>1, <2>2, <2>3, <2>4, <2>5
<1>3. k \in Nat /\ k <= e /\ k <= Cardinality(Growths) /\ GrownBy(0) \in Nat
  <2>1. 0 \in Nat /\ 0 <= e /\ e - 0 = e /\ e \in Nat
    BY <1>2
  <2>2. /\ GrownBy(0) \in Nat /\ GrownBy(e) \in Nat /\ GrownBy(0) <= GrownBy(e)
        /\ GrownBy(e) <= GrownBy(0) + (e - 0) /\ GrownBy(e) <= Cardinality(Growths)
    BY <2>1, GrowthsAre
  <2>3. Cardinality(Growths) \in Nat
    BY FS_CardinalityType, CalibrationAssumption
  <2>4. QED
    BY <2>1, <2>2, <2>3
<1> HIDE DEF q, d, k, Miss
<1>4. ASSUME NEW w \in Nat
      PROVE  /\ Miss(w) \in Int /\ Mean(w) \in Nat /\ Mean(w) - T = Miss(w) * Parts - d
             /\ Miss(w) = (w - e) + (GrownBy(w) - GrownBy(0)) /\ GrownBy(w) \in Nat
  <2> DEFINE g == (w - 0) + (GrownBy(w) - GrownBy(0))
  <2>1. GrownBy(w) \in Nat /\ GrownBy(0) \in Nat
    BY GrowthsAre
  <2>2. Miss(w) = g - e /\ g \in Int /\ Miss(w) = (w - e) + (GrownBy(w) - GrownBy(0))
    BY <1>2, <2>1 DEF Miss
  <2>3. Mean(w) = Mean(0) + g * Parts /\ Mean(w) \in Nat
    BY MeansAre
  <2> HIDE DEF g
  <2>4. (g - e) * Parts = g * Parts - e * Parts /\ g * Parts \in Int /\ e * Parts \in Int
    BY <1>1, <1>2, <2>2
  <2>5. Mean(w) - T = (g - e) * Parts - d
    <3> DEFINE gs == g * Parts
               es == e * Parts
               ms == (g - e) * Parts
    <3>1. /\ Mean(w) = Mean(0) + gs /\ T = Mean(0) + es + d /\ ms = gs - es
          /\ gs \in Int /\ es \in Int /\ Mean(0) \in Nat /\ d \in Nat
      BY <1>1, <1>2, <2>3, <2>4
    <3> HIDE DEF gs, es, ms
    <3>2. Mean(w) - T = ms - d
      BY <3>1
    <3>3. QED
      BY <3>2 DEF ms
  <2>6. Miss(w) \in Int
    BY <1>2, <2>2
  <2>7. QED
    BY <2>1, <2>2, <2>3, <2>5, <2>6
<1>5. Miss(e) = k
  BY <1>2, <1>3, <1>4 DEF k
<1>6. PICK r \in {0, 1} : /\ Round(Mean(e) - T) = k - r
                          /\ r = 0 => 2 * d <= Parts
                          /\ r = 1 => 2 * d >= Parts
  <2>1. Mean(e) - T = k * Parts - d
    BY <1>2, <1>4, <1>5
  <2>2. \/ Round(k * Parts - d) = k /\ 2 * d <= Parts
        \/ Round(k * Parts - d) = k - 1 /\ 2 * d >= Parts
    BY <1>2, <1>3, RoundsToEven
  <2>3. QED
    BY <1>3, <2>1, <2>2
<1> DEFINE c == e - (k - r)
           ws == Candidates(c)
<1>7. c \in Nat
  BY <1>2, <1>3
<1>8. x = Closest(ws)
  BY <1>6, <1>7 DEF AtLeastZero, T
<1>9. ws \in SUBSET Nat /\ c \in ws /\ c + 1 \in ws /\ (c >= 1 => c - 1 \in ws)
      /\ \A w \in Nat : w \in ws \/ (w < c - 1 /\ c - 1 \in Nat) \/ w > c + 1
  BY <1>7 DEF Candidates, AtLeastZero
<1>10. x \in ws /\ \A w \in ws : Apart(x) <= Apart(w)
  BY <1>8, <1>9, ClosestIs
<1>11. \A w \in Nat : Apart(w) = IF Mean(w) > T THEN Mean(w) - T ELSE T - Mean(w)
  BY DEF Apart, T
<1>12. ASSUME NEW w \in Nat, w < c - 1, c - 1 \in Nat PROVE Apart(c - 1) <= Apart(w)
  <2> DEFINE v == c - 1
  <2>1. v \in Nat /\ w < v /\ v <= e
    BY <1>2, <1>3, <1>12
  <2>2. GrownBy(v) <= GrownBy(e)
    BY <1>2, <2>1, GrowthsAre
  <2>3. v = e - k + r - 1 /\ r \in Int /\ r <= 1
    BY <1>2, <1>3
  <2> HIDE DEF v
  <2>4. Miss(v) <= 0
    BY <1>2, <1>3, <1>4, <1>5, <2>1, <2>2, <2>3 DEF k
  <2>5. Miss(v) * Parts <= 0 /\ Miss(v) * Parts \in Int
    BY <1>1, <1>4, <2>1, <2>4, AtMostNone
  <2>6. Mean(v) <= T
    BY <1>1, <1>2, <1>4, <2>1, <2>5
  <2>7. Mean(w) <= Mean(v) /\ Mean(w) \in Nat /\ Mean(v) \in Nat
    <3>1. Mean(w) + Parts <= Mean(v)
      BY <2>1, MeansAre
    <3>2. QED
      BY <1>1, <1>4, <2>1, <3>1
  <2>8. Apart(v) <= Apart(w)
    BY <1>1, <1>11, <2>1, <2>6, <2>7
  <2>9. QED
    BY <2>8 DEF v
<1>13. ASSUME NEW w \in Nat, w > c + 1 PROVE Apart(c + 1) <= Apart(w)
  <2> DEFINE v == c + 1
  <2>1. v \in Nat /\ v < w
    BY <1>7, <1>13
  <2>2. v = e - k + r + 1 /\ r \in Int /\ (r = 0 \/ r = 1)
    BY <1>2, <1>3
  <2> HIDE DEF v, c
  <2>3. Miss(v) >= r
    <3>1. CASE v >= e
      <4>1. GrownBy(e) <= GrownBy(v)
        BY <1>2, <2>1, <3>1, GrowthsAre
      <4>2. QED
        BY <1>2, <1>3, <1>4, <2>1, <2>2, <4>1 DEF k
    <3>2. CASE v < e
      <4>1. e - v <= Cardinality(Growths)
        <5>1. Cardinality(Growths) \in Nat
          BY FS_CardinalityType, CalibrationAssumption
        <5>2. QED
          BY <1>2, <1>3, <2>1, <2>2, <5>1
      <4>2. GrownBy(e) <= GrownBy(v) + 1
        BY <1>2, <2>1, <3>2, <4>1, GrowsOnce
      <4>3. QED
        BY <1>2, <1>3, <1>4, <2>1, <2>2, <4>2 DEF k
    <3>3. QED
      BY <1>2, <2>1, <3>1, <3>2
  <2>4. Mean(v) + Parts <= Mean(w) /\ Mean(w) \in Nat /\ Mean(v) \in Nat
    BY <2>1, MeansAre
  <2>5. CASE Miss(v) >= 1
    <3>1. Parts <= Miss(v) * Parts /\ Miss(v) * Parts \in Int
      BY <1>1, <1>4, <2>1, <2>5, AtLeast
    <3>2. Mean(v) > T
      BY <1>1, <1>2, <1>4, <2>1, <3>1
    <3>3. QED
      BY <1>1, <1>11, <2>1, <2>4, <3>2 DEF v
  <2>6. CASE Miss(v) = 0 /\ r = 0
    <3>1. Mean(v) - T = -d
      BY <1>1, <1>2, <1>4, <2>1, <2>6
    <3>2. 2 * d <= Parts
      BY <1>6, <2>6
    <3>3. Apart(v) = d
      BY <1>1, <1>2, <1>11, <2>1, <2>4, <3>1
    <3>4. Mean(w) - T >= d
      BY <1>1, <1>2, <2>4, <3>1, <3>2
    <3>5. Apart(w) >= d
      BY <1>1, <1>2, <1>11, <2>4, <3>4
    <3>6. QED
      BY <3>3, <3>5, <1>2, <1>1, <1>11, <2>4 DEF v
  <2>7. QED
    BY <1>4, <2>1, <2>2, <2>3, <2>5, <2>6
<1>14. ASSUME NEW w \in Nat PROVE Apart(w) \in Nat
  BY <1>1, <1>4, <1>11, <1>14
<1> HIDE DEF c, ws
<1>15. ASSUME NEW w \in Nat PROVE Apart(x) <= Apart(w)
  <2>1. CASE w \in ws
    BY <1>10, <2>1
  <2>2. CASE w < c - 1 /\ c - 1 \in Nat
    BY <1>7, <1>9, <1>10, <1>12, <1>14, <2>2
  <2>3. CASE w > c + 1
    BY <1>7, <1>9, <1>10, <1>13, <1>14, <2>3
  <2>4. QED
    BY <1>9, <2>1, <2>2, <2>3
<1>16. QED
  BY <1>9, <1>10, <1>15

CalibrationInv ==
  /\ others \in Nat /\ target \in Nat
  /\ progress = "estimated" =>
       /\ Mean(0) <= target * Parts
       /\ estimate = AtLeastZero((target * Parts - Mean(0)) \div Parts)
  /\ ClosestOfAll

(* The payload width is the closest to its target of all widths, and no    *)
(* target is rejected that an empty payload would meet.                    *)
THEOREM WidthIsClosest == CalibrationSpec => []ClosestOfAll
<1>1. CalibrationInit => CalibrationInv
  BY CalibrationAssumption DEF CalibrationInit, CalibrationInv, ClosestOfAll
<1>2. CalibrationInv /\ [CalibrationNext]_calibrationVars => CalibrationInv'
  <2> SUFFICES ASSUME CalibrationInv, [CalibrationNext]_calibrationVars PROVE CalibrationInv'
    OBVIOUS
  <2>1. ASSUME Estimate PROVE CalibrationInv'
    <3>1. others' = others /\ target' = target
      BY <2>1 DEF Estimate
    <3>2. Parts \in Nat /\ Mean(0) \in Nat /\ target * Parts \in Nat
      BY MeansAre, CalibrationAssumption DEF CalibrationInv
    <3>3. CASE Mean(0) > target * Parts
      <4>1. progress' = "rejected"
        BY <2>1, <3>3 DEF Estimate
      <4>2. ASSUME NEW w \in 0 .. target PROVE Mean(w) > target * Parts
        <5>1. 0 = w \/ Mean(0) + Parts <= Mean(w)
          BY MeansAre DEF CalibrationInv
        <5>2. Mean(w) \in Nat
          BY MeansAre DEF CalibrationInv
        <5>3. QED
          BY <3>2, <3>3, <5>1, <5>2
      <4>3. QED
        BY <3>1, <4>1, <4>2 DEF CalibrationInv, ClosestOfAll, Mean
    <3>4. CASE ~(Mean(0) > target * Parts)
      <4>1. progress' = "estimated" /\ estimate' = AtLeastZero((target * Parts - Mean(0)) \div Parts)
        BY <2>1, <3>4 DEF Estimate
      <4>2. Mean(0) <= target * Parts
        BY <3>2, <3>4
      <4>3. QED
        BY <3>1, <4>1, <4>2 DEF CalibrationInv, ClosestOfAll, Mean
    <3>5. QED
      BY <3>3, <3>4
  <2>2. ASSUME Correct PROVE CalibrationInv'
    <3>1. others' = others /\ target' = target /\ progress' = "done"
      BY <2>2 DEF Correct
    <3>2. width' \in Nat /\ \A w \in Nat : Apart(width') <= Apart(w)
      BY <2>2, ChosenIsClosest DEF Correct, CalibrationInv
    <3>3. \A w \in Nat : Apart(w)' = Apart(w)
      BY <3>1 DEF Apart, Mean
    <3>4. Apart(width)' = Apart(width')
      BY <3>1 DEF Apart, Mean
    <3>5. \A w \in 0 .. target' : Apart(width)' <= Apart(w)'
      BY <3>1, <3>2, <3>3, <3>4 DEF CalibrationInv
    <3>6. QED
      BY <3>1, <3>5 DEF CalibrationInv, ClosestOfAll
  <2>3. ASSUME UNCHANGED calibrationVars PROVE CalibrationInv'
    BY <2>3 DEF calibrationVars, CalibrationInv, ClosestOfAll, Apart, Mean
  <2>4. QED
    BY <2>1, <2>2, <2>3 DEF CalibrationNext
<1>3. CalibrationInv => ClosestOfAll
  BY DEF CalibrationInv
<1>4. QED
  BY <1>1, <1>2, <1>3, PTL DEF CalibrationSpec

-----------------------------------------------------------------------------
(* The geometry report shows the table: what is read from the manifests of *)
(* a snapshot is what its commit did, whatever became of them since.       *)
IsSequence(s) == \E S : s \in Seq(S)

LEMMA Appended ==
  ASSUME NEW s, IsSequence(s), NEW x
  PROVE  /\ IsSequence(Append(s, x)) /\ Len(s) \in Nat /\ Len(Append(s, x)) = Len(s) + 1
         /\ \A i \in 1 .. Len(s) : Append(s, x)[i] = s[i]
         /\ Append(s, x)[Len(s) + 1] = x
<1>1. PICK S : s \in Seq(S)
  BY DEF IsSequence
<1>2. s \in Seq(S \cup {x})
  <2>1. S \subseteq S \cup {x}
    OBVIOUS
  <2>2. Len(s) \in Nat /\ s \in [1 .. Len(s) -> S]
    BY <1>1, LenProperties
  <2>3. s \in [1 .. Len(s) -> S \cup {x}]
    BY <2>1, <2>2
  <2>4. QED
    BY <2>2, <2>3, SeqDef
<1>3. QED
  BY <1>1, <1>2, AppendProperties, LenProperties DEF IsSequence

-----------------------------------------------------------------------------
(* The data files that manifests list, and those that they list as added   *)
(* by the snapshot n.                                                      *)
FilesIn(ms)  == {e.file : e \in {x \in UNION {LiveEntries(m) : m \in ms} : x.data}}
FilesBy(ms, n) ==
  {e.file : e \in {x \in UNION {LiveEntries(m) : m \in {o \in ms : o.added \in {Absent, n}}} :
                     x.status = "added" /\ x.snapshot = n /\ x.data}}

(* A manifest that lists the file f as live; as added by n.                *)
Lists(m, f)      == \E e \in m.entries : e.status # "deleted" /\ e.data /\ e.file = f
ListsBy(m, n, f) ==
  m.added \in {Absent, n} /\ \E e \in m.entries : e.status = "added" /\ e.snapshot = n /\ e.data /\ e.file = f

LEMMA FilesInAre ==
  ASSUME NEW ms, NEW f
  PROVE  f \in FilesIn(ms) <=> \E m \in ms : Lists(m, f)
BY DEF FilesIn, LiveEntries, Lists

LEMMA FilesByAre ==
  ASSUME NEW ms, NEW n, NEW f
  PROVE  f \in FilesBy(ms, n) <=> \E m \in ms : ListsBy(m, n, f)
BY DEF FilesBy, LiveEntries, ListsBy

LEMMA FilesTogether ==
  ASSUME NEW as, NEW bs, NEW n
  PROVE  /\ FilesIn(as \cup bs) = FilesIn(as) \cup FilesIn(bs)
         /\ FilesBy(as \cup bs, n) = FilesBy(as, n) \cup FilesBy(bs, n)
<1>1. ASSUME NEW f PROVE f \in FilesIn(as \cup bs) <=> f \in FilesIn(as) \cup FilesIn(bs)
  <2>1. /\ f \in FilesIn(as \cup bs) <=> \E m \in as \cup bs : Lists(m, f)
        /\ f \in FilesIn(as) <=> \E m \in as : Lists(m, f)
        /\ f \in FilesIn(bs) <=> \E m \in bs : Lists(m, f)
    BY FilesInAre
  <2>2. QED
    BY <2>1
<1>2. ASSUME NEW f PROVE f \in FilesBy(as \cup bs, n) <=> f \in FilesBy(as, n) \cup FilesBy(bs, n)
  <2>1. /\ f \in FilesBy(as \cup bs, n) <=> \E m \in as \cup bs : ListsBy(m, n, f)
        /\ f \in FilesBy(as, n) <=> \E m \in as : ListsBy(m, n, f)
        /\ f \in FilesBy(bs, n) <=> \E m \in bs : ListsBy(m, n, f)
    BY FilesByAre
  <2>2. QED
    BY <2>1
<1>3. QED
  BY <1>1, <1>2

LEMMA FilesOfOne ==
  ASSUME NEW m, NEW n, NEW f
  PROVE  /\ f \in FilesIn({m}) <=> Lists(m, f)
         /\ f \in FilesBy({m}, n) <=> ListsBy(m, n, f)
<1>1. f \in FilesIn({m}) <=> \E o \in {m} : Lists(o, f)
  BY FilesInAre
<1>2. f \in FilesBy({m}, n) <=> \E o \in {m} : ListsBy(o, n, f)
  BY FilesByAre
<1>3. QED
  BY <1>1, <1>2

(* An entry is a whole one, of a snapshot up to n.                         *)
EntryUpTo(e, n)      == e = Entry(e.file, e.status, e.snapshot, e.data) /\ e.snapshot \in 1 .. n
EntriesUpTo(ms, n)   == \A m \in ms : \A e \in m.entries : EntryUpTo(e, n)

LEMMA EntryChanged ==
  ASSUME NEW e, NEW n, EntryUpTo(e, n), NEW status, NEW k
  PROVE  /\ [e EXCEPT !.status = status] = Entry(e.file, status, e.snapshot, e.data)
         /\ [e EXCEPT !.status = status, !.snapshot = k] = Entry(e.file, status, k, e.data)
<1> DEFINE r == Entry(e.file, e.status, e.snapshot, e.data)
<1>1. e = r
  BY DEF EntryUpTo
<1>2. [r EXCEPT !.status = status] = Entry(e.file, status, e.snapshot, e.data)
  BY DEF Entry
<1> DEFINE q == Entry(e.file, status, e.snapshot, e.data)
<1>3. [q EXCEPT !.snapshot = k] = Entry(e.file, status, k, e.data)
  BY DEF Entry
<1>4. [r EXCEPT !.status = status, !.snapshot = k] = Entry(e.file, status, k, e.data)
  <2>1. [r EXCEPT !.status = status, !.snapshot = k] = [[r EXCEPT !.status = status] EXCEPT !.snapshot = k]
    OBVIOUS
  <2>2. QED
    BY <2>1, <1>2, <1>3
<1> HIDE DEF r
<1>5. QED
  BY <1>1, <1>2, <1>4

(* The files a commit adds.                                                *)
LEMMA AddedAre ==
  ASSUME NEW files, NEW data \in BOOLEAN, Latest \in Nat
  PROVE  /\ \A e \in Added(files, data) : EntryUpTo(e, This)
         /\ \A e \in Added(files, data) : e.status = "added" /\ e.snapshot = This /\ e.data = data
         /\ \A f : f \in files <=> \E e \in Added(files, data) : e.file = f
<1>1. \A e \in Added(files, data) : EntryUpTo(e, This) /\ e.status = "added" /\ e.snapshot = This /\ e.data = data
  BY DEF Added, Entry, EntryUpTo, This
<1>2. \A f : f \in files <=> \E e \in Added(files, data) : e.file = f
  <2>1. \A f \in files : Entry(f, "added", This, data) \in Added(files, data) /\ Entry(f, "added", This, data).file = f
    BY DEF Added, Entry
  <2>2. \A e \in Added(files, data) : e.file \in files
    BY DEF Added, Entry
  <2>3. QED
    BY <2>1, <2>2
<1>3. QED
  BY <1>1, <1>2

LEMMA AddedFilesAre ==
  ASSUME NEW files, Latest \in Nat
  PROVE  /\ FilesIn({Manifest(Added(files, TRUE))}) = files
         /\ FilesBy({Manifest(Added(files, TRUE))}, This) = files
         /\ FilesIn({Manifest(Added(files, FALSE))}) = {}
         /\ FilesBy({Manifest(Added(files, FALSE))}, This) = {}
<1>1. \A es : Manifest(es).entries = es /\ Manifest(es).added \in {Absent, This}
  BY DEF Manifest
<1>2. ASSUME NEW f
      PROVE  /\ Lists(Manifest(Added(files, TRUE)), f) <=> f \in files
             /\ ListsBy(Manifest(Added(files, TRUE)), This, f) <=> f \in files
             /\ ~Lists(Manifest(Added(files, FALSE)), f) /\ ~ListsBy(Manifest(Added(files, FALSE)), This, f)
  <2>1. \A e \in Added(files, TRUE) : e.status = "added" /\ e.snapshot = This /\ e.data
    BY AddedAre
  <2>2. \A e \in Added(files, FALSE) : ~e.data
    BY AddedAre
  <2>3. f \in files <=> \E e \in Added(files, TRUE) : e.file = f
    BY AddedAre
  <2>4. QED
    BY <1>1, <2>1, <2>2, <2>3 DEF Lists, ListsBy
<1>3. QED
  BY <1>2, FilesOfOne

-----------------------------------------------------------------------------
(* The manifests that are carried over list the files that were there but  *)
(* for the dropped ones, and none of them as added.                        *)
RewrittenEntry(e, drop) ==
  IF e.file \in drop THEN [e EXCEPT !.status = "deleted", !.snapshot = This]
  ELSE [e EXCEPT !.status = "existing"]

LEMMA RewrittenIs ==
  ASSUME NEW e, EntryUpTo(e, Latest), NEW drop, Latest \in Nat
  PROVE  LET r == RewrittenEntry(e, drop) IN
         /\ EntryUpTo(r, This) /\ r.status \in {"deleted", "existing"}
         /\ r.file = e.file /\ r.data = e.data
         /\ r.status # "deleted" <=> e.file \notin drop
<1>1. CASE e.file \in drop
  <2>1. RewrittenEntry(e, drop) = Entry(e.file, "deleted", This, e.data)
    BY <1>1, EntryChanged DEF RewrittenEntry
  <2>2. QED
    BY <1>1, <2>1 DEF Entry, EntryUpTo, This
<1>2. CASE e.file \notin drop
  <2>1. RewrittenEntry(e, drop) = Entry(e.file, "existing", e.snapshot, e.data)
    BY <1>2, EntryChanged DEF RewrittenEntry
  <2>2. e.snapshot \in 1 .. This
    BY DEF EntryUpTo, This
  <2>3. QED
    BY <1>2, <2>1, <2>2 DEF Entry, EntryUpTo
<1>3. QED
  BY <1>1, <1>2

Untouched(drop) == {m \in Current : LiveEntries(m) # {} /\ \A e \in LiveEntries(m) : e.file \notin drop}
Touched(drop)   == {o \in Current : \E e \in LiveEntries(o) : e.file \in drop}
RewrittenManifest(m, drop) == Manifest({RewrittenEntry(e, drop) : e \in LiveEntries(m)})

LEMMA CarriedAre ==
  ASSUME NEW drop
  PROVE  Carried(drop) = Untouched(drop) \cup {RewrittenManifest(m, drop) : m \in Touched(drop)}
BY DEF Carried, Untouched, Touched, RewrittenManifest, RewrittenEntry

LEMMA CarriedFiles ==
  ASSUME NEW drop, Latest \in Nat, EntriesUpTo(Current, Latest)
  PROVE  /\ EntriesUpTo(Carried(drop), This)
         /\ FilesIn(Carried(drop)) = FilesIn(Current) \ drop
         /\ FilesBy(Carried(drop), This) = {}
<1> DEFINE R == {RewrittenManifest(m, drop) : m \in Touched(drop)}
<1>1. \A m \in Current : \A e \in LiveEntries(m) : e \in m.entries /\ e.status # "deleted" /\ EntryUpTo(e, Latest)
  BY DEF LiveEntries, EntriesUpTo
<1>2. \A m : RewrittenManifest(m, drop).entries = {RewrittenEntry(e, drop) : e \in LiveEntries(m)}
  BY DEF RewrittenManifest, Manifest
<1>3. \A m \in Current : \A e \in m.entries : EntryUpTo(e, This) /\ e.snapshot # This
  BY DEF EntriesUpTo, EntryUpTo, This
<1>4. \A m \in R : \A e \in m.entries : EntryUpTo(e, This) /\ e.status \in {"deleted", "existing"}
  <2>1. SUFFICES ASSUME NEW m \in Touched(drop), NEW e \in LiveEntries(m)
                 PROVE  EntryUpTo(RewrittenEntry(e, drop), This) /\ RewrittenEntry(e, drop).status \in {"deleted", "existing"}
    BY <1>2
  <2>2. QED
    BY <1>1, RewrittenIs DEF Touched
<1>5. Carried(drop) = Untouched(drop) \cup R
  BY CarriedAre
<1>6. EntriesUpTo(Carried(drop), This)
  BY <1>3, <1>4, <1>5 DEF EntriesUpTo, Untouched
<1>7. \A f : f \notin FilesBy(Carried(drop), This)
  <2>1. \A m \in Carried(drop) : \A e \in m.entries : ~(e.status = "added" /\ e.snapshot = This)
    BY <1>3, <1>4, <1>5 DEF Untouched
  <2>2. QED
    BY <2>1, FilesByAre DEF ListsBy
<1>8. ASSUME NEW f \in FilesIn(Carried(drop)) PROVE f \in FilesIn(Current) \ drop
  <2>1. PICK m \in Carried(drop) : \E e \in m.entries : e.status # "deleted" /\ e.data /\ e.file = f
    BY <1>8, FilesInAre DEF Lists
  <2>2. PICK e \in m.entries : e.status # "deleted" /\ e.data /\ e.file = f
    BY <2>1
  <2>3. CASE m \in Untouched(drop)
    <3>1. m \in Current /\ e \in LiveEntries(m) /\ e.file \notin drop
      BY <2>2, <2>3 DEF Untouched, LiveEntries
    <3>2. QED
      BY <2>2, <3>1, FilesInAre DEF Lists
  <2>4. CASE m \in R
    <3>1. PICK o \in Touched(drop) : m = RewrittenManifest(o, drop)
      BY <2>4
    <3>2. PICK x \in LiveEntries(o) : e = RewrittenEntry(x, drop)
      BY <1>2, <2>2, <3>1
    <3>3. o \in Current /\ x \in o.entries /\ x.status # "deleted" /\ EntryUpTo(x, Latest)
      BY <1>1, <3>1, <3>2 DEF Touched
    <3>4. x.file = f /\ x.data = e.data /\ x.file \notin drop
      <4>1. e.file = x.file /\ e.data = x.data /\ (e.status # "deleted" <=> x.file \notin drop)
        BY <3>2, <3>3, RewrittenIs
      <4>2. QED
        BY <2>2, <4>1
    <3>5. QED
      BY <2>2, <3>3, <3>4, FilesInAre DEF Lists
  <2>5. QED
    BY <1>5, <2>2, <2>3, <2>4
<1>9. ASSUME NEW f \in FilesIn(Current) \ drop PROVE f \in FilesIn(Carried(drop))
  <2>1. PICK m \in Current : \E e \in m.entries : e.status # "deleted" /\ e.data /\ e.file = f
    BY <1>9, FilesInAre DEF Lists
  <2>2. PICK e \in m.entries : e.status # "deleted" /\ e.data /\ e.file = f
    BY <2>1
  <2>3. e \in LiveEntries(m)
    BY <2>2 DEF LiveEntries
  <2>4. CASE m \in Untouched(drop)
    BY <1>5, <2>2, <2>4, FilesInAre DEF Lists
  <2>5. CASE m \notin Untouched(drop)
    <3>1. m \in Touched(drop)
      BY <2>3, <2>5 DEF Untouched, Touched
    <3>2. RewrittenManifest(m, drop) \in Carried(drop)
      BY <1>5, <3>1
    <3>3. RewrittenEntry(e, drop) \in RewrittenManifest(m, drop).entries
      BY <1>2, <2>3
    <3>4. RewrittenEntry(e, drop).status # "deleted" /\ RewrittenEntry(e, drop).data /\ RewrittenEntry(e, drop).file = f
      BY <1>1, <1>9, <2>2, <2>3, RewrittenIs
    <3>5. QED
      BY <3>2, <3>3, <3>4, FilesInAre DEF Lists
  <2>6. QED
    BY <2>4, <2>5
<1>10. QED
  BY <1>6, <1>7, <1>8, <1>9

(* Merged manifests list all of them.                                      *)
LEMMA MergedFiles ==
  ASSUME NEW es, Latest \in Nat, EntriesUpTo(Current, Latest), \A e \in es : EntryUpTo(e, This)
  PROVE  /\ EntriesUpTo({Manifest(Merged \cup es)}, This)
         /\ FilesIn({Manifest(Merged \cup es)}) = FilesIn(Current) \cup FilesIn({Manifest(es)})
         /\ FilesBy({Manifest(Merged \cup es)}, This) = FilesBy({Manifest(es)}, This)
<1> DEFINE L == UNION {LiveEntries(m) : m \in Current}
           AsExisting(e) == [e EXCEPT !.status = "existing"]
<1>1. \A e : e \in Merged <=> \E x \in L : e = AsExisting(x)
  BY DEF Merged, Existing
<1>2. \A x : x \in L <=> \E m \in Current : x \in m.entries /\ x.status # "deleted"
  BY DEF LiveEntries
<1>3. \A x \in L : /\ EntryUpTo(x, Latest) /\ EntryUpTo(AsExisting(x), This) /\ AsExisting(x).status = "existing"
                   /\ AsExisting(x).file = x.file /\ AsExisting(x).data = x.data
  <2>1. SUFFICES ASSUME NEW x \in L PROVE /\ EntryUpTo(x, Latest) /\ EntryUpTo(AsExisting(x), This) /\ AsExisting(x).status = "existing"
                                          /\ AsExisting(x).file = x.file /\ AsExisting(x).data = x.data
    OBVIOUS
  <2>2. EntryUpTo(x, Latest)
    BY <1>2 DEF EntriesUpTo
  <2>3. AsExisting(x) = Entry(x.file, "existing", x.snapshot, x.data)
    BY <2>2, EntryChanged
  <2>4. x.snapshot \in 1 .. This
    BY <2>2 DEF EntryUpTo, This
  <2>5. QED
    BY <2>2, <2>3, <2>4 DEF Entry, EntryUpTo
<1>4. \A xs : Manifest(xs).entries = xs /\ Manifest(xs).added = IF legacy THEN Absent ELSE This
  BY DEF Manifest
<1> HIDE DEF L, AsExisting
<1>5. EntriesUpTo({Manifest(Merged \cup es)}, This)
  BY <1>1, <1>3, <1>4 DEF EntriesUpTo
<1>6. \A f : f \in FilesBy({Manifest(Merged \cup es)}, This) <=> f \in FilesBy({Manifest(es)}, This)
  <2>1. SUFFICES ASSUME NEW f
                 PROVE  ListsBy(Manifest(Merged \cup es), This, f) <=> ListsBy(Manifest(es), This, f)
    BY FilesOfOne
  <2>2. \A e \in Merged : e.status # "added"
    BY <1>1, <1>3
  <2>3. QED
    BY <1>4, <2>2 DEF ListsBy
<1>7. \A f : f \in FilesIn({Manifest(Merged \cup es)}) <=> f \in FilesIn(Current) \cup FilesIn({Manifest(es)})
  <2>1. SUFFICES ASSUME NEW f
                 PROVE  Lists(Manifest(Merged \cup es), f) <=> f \in FilesIn(Current) \/ Lists(Manifest(es), f)
    BY FilesOfOne
  <2>2. Lists(Manifest(Merged \cup es), f) <=>
          \/ \E e \in Merged : e.status # "deleted" /\ e.data /\ e.file = f
          \/ Lists(Manifest(es), f)
    BY <1>4 DEF Lists
  <2>3. (\E e \in Merged : e.status # "deleted" /\ e.data /\ e.file = f) <=> \E x \in L : x.data /\ x.file = f
    BY <1>1, <1>3
  <2>4. (\E x \in L : x.data /\ x.file = f) <=> f \in FilesIn(Current)
    BY <1>2, FilesInAre DEF Lists
  <2>5. QED
    BY <2>2, <2>3, <2>4
<1>8. QED
  BY <1>5, <1>6, <1>7

-----------------------------------------------------------------------------
(* The metadata of a table and its history: the history names a time and   *)
(* the files of each snapshot, times ascend and clocks are off by no more  *)
(* than they may be, and the last snapshot is never expired.               *)
GeometryTypes ==
  /\ survey \in Surveys /\ legacy \in BOOLEAN /\ now \in Nat
  /\ IsSequence(snapshots) /\ IsSequence(log)
  /\ Latest \in Nat /\ Len(log) = Latest
  /\ expired \in Nat /\ (expired = 0 \/ expired < Latest)

EntriesSettled == \A n \in 1 .. Latest : EntriesUpTo(snapshots[n].manifests, n)

ReadAsWritten ==
  \A n \in 1 .. Latest : /\ FilesBy(snapshots[n].manifests, n) = log[n].written
                         /\ FilesIn(snapshots[n].manifests) = log[n].live

ClocksAreNear ==
  \A n \in 1 .. Latest : /\ log[n].at \in Nat /\ log[n].at <= now
                         /\ snapshots[n].ts \in log[n].at - Skew .. log[n].at + Skew

CommitsInTurn == \A n, k \in 1 .. Latest : n <= k => log[n].at <= log[k].at

GeometryInv == GeometryTypes /\ EntriesSettled /\ ReadAsWritten /\ ClocksAreNear /\ CommitsInTurn

(* A commit whose manifests list what it wrote and what the table has.     *)
LEMMA CommitKeeps ==
  ASSUME GeometryInv, NEW ms, NEW written, NEW live, Commit(ms, written, live),
         EntriesUpTo(ms, This), FilesBy(ms, This) = written, FilesIn(ms) = live
  PROVE  GeometryInv'
<1>1. PICK ts \in now - Skew .. now + Skew : snapshots' = Append(snapshots, [manifests |-> ms, ts |-> ts])
  BY DEF Commit
<1>2. /\ log' = Append(log, [at |-> now, written |-> written, live |-> live])
      /\ survey' = survey /\ expired' = expired /\ legacy' = legacy /\ now' = now
  BY DEF Commit
<1>3. GeometryTypes /\ Skew' = Skew
  BY <1>2 DEF GeometryInv, Skew
<1>4. /\ IsSequence(snapshots') /\ Len(snapshots') = This
      /\ \A n \in 1 .. Latest : snapshots'[n] = snapshots[n]
      /\ snapshots'[This] = [manifests |-> ms, ts |-> ts]
  BY <1>1, <1>3, Appended DEF GeometryTypes, This, Latest
<1>5. /\ IsSequence(log') /\ Len(log') = This
      /\ \A n \in 1 .. Latest : log'[n] = log[n]
      /\ log'[This] = [at |-> now, written |-> written, live |-> live]
  BY <1>2, <1>3, Appended DEF GeometryTypes, This
<1>6. Latest' = This /\ Latest \in Nat /\ This = Latest + 1 /\ \A n \in 1 .. This : n \in 1 .. Latest \/ n = This
  BY <1>3, <1>4 DEF GeometryTypes, Latest, This
<1>7. GeometryTypes'
  BY <1>2, <1>3, <1>4, <1>5, <1>6 DEF GeometryTypes
<1>8. EntriesSettled'
  BY <1>4, <1>6 DEF EntriesSettled, GeometryInv
<1>9. ReadAsWritten'
  BY <1>4, <1>5, <1>6 DEF ReadAsWritten, GeometryInv
<1>10. ClocksAreNear'
  <2>1. SUFFICES ASSUME NEW n \in 1 .. This
                 PROVE  /\ log'[n].at \in Nat /\ log'[n].at <= now
                        /\ snapshots'[n].ts \in log'[n].at - Skew .. log'[n].at + Skew
    BY <1>2, <1>3, <1>6 DEF ClocksAreNear
  <2>2. CASE n = This
    BY <1>3, <1>4, <1>5, <2>2 DEF GeometryTypes
  <2>3. CASE n \in 1 .. Latest
    BY <1>4, <1>5, <2>3 DEF ClocksAreNear, GeometryInv
  <2>4. QED
    BY <1>6, <2>2, <2>3
<1>11. CommitsInTurn'
  <2>1. SUFFICES ASSUME NEW n \in 1 .. This, NEW k \in 1 .. This, n <= k PROVE log'[n].at <= log'[k].at
    BY <1>6 DEF CommitsInTurn
  <2>2. log'[This].at = now /\ now \in Nat
    BY <1>3, <1>5 DEF GeometryTypes
  <2>3. \A i \in 1 .. Latest : log'[i].at = log[i].at /\ log[i].at \in Nat /\ log[i].at <= now
    BY <1>5 DEF ClocksAreNear, GeometryInv
  <2>4. CASE k = This
    BY <1>6, <2>2, <2>3, <2>4
  <2>5. CASE k \in 1 .. Latest
    <3>1. n \in 1 .. Latest
      BY <1>6, <2>1, <2>5
    <3>2. QED
      BY <2>1, <2>3, <2>5, <3>1 DEF CommitsInTurn, GeometryInv
  <2>6. QED
    BY <1>6, <2>4, <2>5
<1>12. QED
  BY <1>7, <1>8, <1>9, <1>10, <1>11 DEF GeometryInv

(* The last snapshot lists the table.                                      *)
LEMMA CurrentIsLive ==
  ASSUME GeometryInv
  PROVE  Latest \in Nat /\ EntriesUpTo(Current, Latest) /\ FilesIn(Current) = LiveNow
<1>1. Latest \in Nat
  BY DEF GeometryInv, GeometryTypes
<1>2. CASE Latest = 0
  <2>1. Current = {} /\ LiveNow = {}
    BY <1>2 DEF Current, LiveNow
  <2>2. \A f : f \notin FilesIn(Current)
    BY <2>1, FilesInAre
  <2>3. QED
    BY <1>1, <2>1, <2>2 DEF EntriesUpTo
<1>3. CASE Latest # 0
  <2>1. Current = snapshots[Latest].manifests /\ LiveNow = log[Latest].live /\ Latest \in 1 .. Latest
    BY <1>1, <1>3 DEF Current, LiveNow
  <2>2. QED
    BY <1>1, <2>1 DEF GeometryInv, EntriesSettled, ReadAsWritten
<1>4. QED
  BY <1>2, <1>3

LEMMA OneManifest ==
  ASSUME NEW es, \A e \in es : EntryUpTo(e, This)
  PROVE  EntriesUpTo({Manifest(es)}, This)
BY DEF EntriesUpTo, Manifest

LEMMA GeometryInductive ==
  ASSUME GeometryInv, [GeometryNext]_geometryVars
  PROVE  GeometryInv'
<1>1. Latest \in Nat /\ EntriesUpTo(Current, Latest) /\ FilesIn(Current) = LiveNow
  BY CurrentIsLive
<1>2. ASSUME NEW n \in 1 .. survey.maxFiles, AppendFiles(n) PROVE GeometryInv'
  <2> DEFINE new == NewFiles(n)
             M == {Manifest(Added(new, TRUE))}
  <2>1. /\ EntriesUpTo(M, This) /\ FilesIn(M) = new /\ FilesBy(M, This) = new
    BY <1>1, AddedAre, AddedFilesAre, OneManifest
  <2>2. CASE Commit(Carried({}) \cup M, new, LiveNow \cup new)
    <3>1. EntriesUpTo(Carried({}), This) /\ FilesIn(Carried({})) = FilesIn(Current) \ {} /\ FilesBy(Carried({}), This) = {}
      BY <1>1, CarriedFiles
    <3>2. EntriesUpTo(Carried({}) \cup M, This)
      BY <2>1, <3>1 DEF EntriesUpTo
    <3> HIDE DEF new, M
    <3>3. FilesIn(Carried({}) \cup M) = FilesIn(Carried({})) \cup FilesIn(M)
            /\ FilesBy(Carried({}) \cup M, This) = FilesBy(Carried({}), This) \cup FilesBy(M, This)
        BY FilesTogether
      <3>4. FilesIn(Carried({}) \cup M) = LiveNow \cup new /\ FilesBy(Carried({}) \cup M, This) = new
      BY <1>1, <2>1, <3>1, <3>3
    <3>5. QED
      BY <2>2, <3>2, <3>4, CommitKeeps
  <2>3. CASE Commit({Manifest(Merged \cup Added(new, TRUE))}, new, LiveNow \cup new)
    <3> DEFINE A == Added(new, TRUE)
    <3>1. \A e \in A : EntryUpTo(e, This)
      BY <1>1, AddedAre
    <3> HIDE DEF new, A
    <3>2. /\ EntriesUpTo({Manifest(Merged \cup A)}, This)
          /\ FilesIn({Manifest(Merged \cup A)}) = FilesIn(Current) \cup FilesIn({Manifest(A)})
          /\ FilesBy({Manifest(Merged \cup A)}, This) = FilesBy({Manifest(A)}, This)
      BY <1>1, <3>1, MergedFiles
    <3>3. FilesIn({Manifest(Merged \cup A)}) = LiveNow \cup new /\ FilesBy({Manifest(Merged \cup A)}, This) = new
      BY <1>1, <2>1, <3>2 DEF A
    <3>4. Commit({Manifest(Merged \cup A)}, new, LiveNow \cup new)
      BY <2>3 DEF A
    <3>5. QED
      BY <3>2, <3>3, <3>4, CommitKeeps
  <2>4. QED
    BY <1>2, <2>2, <2>3 DEF AppendFiles
<1>3. ASSUME Rewrite PROVE GeometryInv'
  <2> DEFINE new == NewFiles(1)
             M == {Manifest(Added(new, TRUE))}
  <2>1. PICK drop \in (SUBSET LiveNow) \ {{}} : Commit(Carried(drop) \cup M, new, (LiveNow \ drop) \cup new)
    BY <1>3 DEF Rewrite
  <2>2. EntriesUpTo(M, This) /\ FilesIn(M) = new /\ FilesBy(M, This) = new
    BY <1>1, AddedAre, AddedFilesAre, OneManifest
  <2>3. EntriesUpTo(Carried(drop), This) /\ FilesIn(Carried(drop)) = FilesIn(Current) \ drop /\ FilesBy(Carried(drop), This) = {}
    BY <1>1, CarriedFiles
  <2>4. EntriesUpTo(Carried(drop) \cup M, This)
    BY <2>2, <2>3 DEF EntriesUpTo
  <2> HIDE DEF new, M
  <2> DEFINE C == Carried(drop)
  <2> HIDE DEF C
  <2>5. FilesIn(C \cup M) = FilesIn(C) \cup FilesIn(M) /\ FilesBy(C \cup M, This) = FilesBy(C, This) \cup FilesBy(M, This)
    BY FilesTogether
    <2>6. FilesIn(Carried(drop) \cup M) = (LiveNow \ drop) \cup new /\ FilesBy(Carried(drop) \cup M, This) = new
    BY <1>1, <2>2, <2>3, <2>5 DEF C
  <2>7. QED
    BY <2>1, <2>4, <2>6, CommitKeeps
<1>4. ASSUME AddDeletes PROVE GeometryInv'
  <2> DEFINE M == {Manifest(Added(NewFiles(1), FALSE))}
  <2>1. Commit(Carried({}) \cup M, {}, LiveNow)
    BY <1>4 DEF AddDeletes
  <2>2. EntriesUpTo(M, This) /\ FilesIn(M) = {} /\ FilesBy(M, This) = {}
    BY <1>1, AddedAre, AddedFilesAre, OneManifest
  <2>3. EntriesUpTo(Carried({}), This) /\ FilesIn(Carried({})) = FilesIn(Current) \ {} /\ FilesBy(Carried({}), This) = {}
    BY <1>1, CarriedFiles
  <2>4. EntriesUpTo(Carried({}) \cup M, This)
    BY <2>2, <2>3 DEF EntriesUpTo
  <2> HIDE DEF M
  <2> DEFINE C == Carried({})
  <2> HIDE DEF C
  <2>5. FilesIn(C \cup M) = FilesIn(C) \cup FilesIn(M) /\ FilesBy(C \cup M, This) = FilesBy(C, This) \cup FilesBy(M, This)
    BY FilesTogether
    <2>6. FilesIn(Carried({}) \cup M) = LiveNow /\ FilesBy(Carried({}) \cup M, This) = {}
    BY <1>1, <2>2, <2>3, <2>5 DEF C
  <2>7. QED
    BY <2>1, <2>4, <2>6, CommitKeeps
<1>5. ASSUME RewriteManifests PROVE GeometryInv'
  <2>1. Commit({Manifest(Merged \cup {})}, {}, LiveNow)
    BY <1>5 DEF RewriteManifests
  <2>2. /\ EntriesUpTo({Manifest(Merged \cup {})}, This)
        /\ FilesIn({Manifest(Merged \cup {})}) = FilesIn(Current) \cup FilesIn({Manifest({})})
        /\ FilesBy({Manifest(Merged \cup {})}, This) = FilesBy({Manifest({})}, This)
    BY <1>1, MergedFiles
  <2>3. \A f : ~Lists(Manifest({}), f) /\ ~ListsBy(Manifest({}), This, f)
    BY DEF Lists, ListsBy, Manifest
  <2>4. FilesIn({Manifest({})}) = {} /\ FilesBy({Manifest({})}, This) = {}
    BY <2>3, FilesOfOne
  <2>5. FilesIn({Manifest(Merged \cup {})}) = LiveNow /\ FilesBy({Manifest(Merged \cup {})}, This) = {}
    BY <1>1, <2>2, <2>4
  <2>6. QED
    BY <2>1, <2>2, <2>5, CommitKeeps
<1>6. ASSUME Expire \/ GeometryTick \/ UNCHANGED geometryVars PROVE GeometryInv'
  <2>1. /\ snapshots' = snapshots /\ log' = log /\ survey' = survey /\ legacy' = legacy
        /\ \/ expired' = expired
           \/ expired' = expired + 1 /\ expired + 1 < Latest
        /\ now' \in {now, now + 1}
    BY <1>6 DEF Expire, GeometryTick, geometryVars
  <2>2. Latest' = Latest /\ Skew' = Skew
    BY <2>1 DEF Latest, Skew
  <2>3. GeometryTypes'
    BY <2>1, <2>2 DEF GeometryInv, GeometryTypes
  <2>4. EntriesSettled' /\ ReadAsWritten' /\ CommitsInTurn'
    BY <2>1, <2>2 DEF GeometryInv, EntriesSettled, ReadAsWritten, CommitsInTurn
  <2>5. ClocksAreNear'
    BY <2>1, <2>2 DEF GeometryInv, GeometryTypes, ClocksAreNear
  <2>6. QED
    BY <2>3, <2>4, <2>5 DEF GeometryInv
<1>7. QED
  BY <1>2, <1>3, <1>4, <1>5, <1>6 DEF GeometryNext

LEMMA GeometryBegins == GeometryInit => GeometryInv
<1> SUFFICES ASSUME GeometryInit PROVE GeometryInv
  OBVIOUS
<1>1. snapshots = <<>> /\ log = <<>> /\ expired = 0 /\ now = 0 /\ survey \in Surveys /\ legacy \in BOOLEAN
  BY DEF GeometryInit
<1>2. IsSequence(snapshots) /\ IsSequence(log) /\ Len(log) = 0 /\ Latest = 0
  BY <1>1 DEF IsSequence, Latest
<1>3. QED
  BY <1>1, <1>2 DEF GeometryInv, GeometryTypes, EntriesSettled, ReadAsWritten, ClocksAreNear, CommitsInTurn

-----------------------------------------------------------------------------
LEMMA ClocksAreNumbers ==
  ASSUME GeometryInv
  PROVE  /\ Latest \in Nat /\ expired \in Nat /\ legacy \in BOOLEAN /\ now \in Nat
         /\ Kept \subseteq 1 .. Latest /\ \A n \in 1 .. Latest : snapshots[n].ts \in Int
         /\ IsFiniteSet(Kept) /\ Cardinality(Kept) = Latest - expired /\ (Kept # {} <=> Latest # 0)
         /\ Epoch \in Nat /\ Skew \in Nat /\ Len(Offsets) \in Nat /\ DOMAIN Offsets = 1 .. Len(Offsets)
         /\ \A k \in DOMAIN Offsets : Offsets[k] \in Nat
         /\ \A j, k \in DOMAIN Offsets : j < k => Offsets[j] < Offsets[k]
<1>1. /\ Latest \in Nat /\ expired \in Nat /\ legacy \in BOOLEAN /\ now \in Nat /\ survey \in Surveys
      /\ (expired = 0 \/ expired < Latest)
  BY DEF GeometryInv, GeometryTypes
<1>2. survey \in Survey /\ \A j, k \in DOMAIN Offsets : j < k => Offsets[j] < Offsets[k]
  BY <1>1, GeometryAssumption DEF Offsets
<1>3. Epoch \in Nat /\ Skew \in Nat /\ Offsets \in Seq(Nat)
  BY <1>2 DEF Survey, Epoch, Skew, Offsets
<1>4. Len(Offsets) \in Nat /\ DOMAIN Offsets = 1 .. Len(Offsets) /\ \A k \in DOMAIN Offsets : Offsets[k] \in Nat
  BY <1>3, LenProperties
<1>5. Kept \subseteq 1 .. Latest /\ (Kept # {} <=> Latest # 0)
  <2>1. Latest # 0 => Latest \in Kept
    BY <1>1 DEF Kept
  <2>2. QED
    BY <1>1, <2>1 DEF Kept
<1>6. IsFiniteSet(Kept) /\ Cardinality(Kept) = Latest - expired
  BY <1>1, FS_Interval DEF Kept
<1>7. \A n \in 1 .. Latest : snapshots[n].ts \in Int
  BY <1>3 DEF GeometryInv, ClocksAreNear
<1>8. QED
  BY <1>1, <1>2, <1>3, <1>4, <1>5, <1>6, <1>7

(* Snapshots can be put in order: each has its rank among them.            *)
Comes(n, k) == CommitOrder(n, k) \/ (~CommitOrder(k, n) /\ n < k)

LEMMA ComesInOrder ==
  ASSUME GeometryInv, NEW i \in Kept, NEW j \in Kept, NEW k \in Kept
  PROVE  /\ ~Comes(i, i) /\ (i # j => Comes(i, j) \/ Comes(j, i)) /\ ~(Comes(i, j) /\ Comes(j, i))
         /\ (Comes(i, j) /\ Comes(j, k) => Comes(i, k))
         /\ (CommitOrder(i, j) => Comes(i, j))
<1>1. /\ snapshots[i].ts \in Int /\ snapshots[j].ts \in Int /\ snapshots[k].ts \in Int
      /\ i \in Nat /\ j \in Nat /\ k \in Nat /\ legacy \in BOOLEAN
  BY ClocksAreNumbers
<1>2. CASE legacy
  BY <1>1, <1>2 DEF Comes, CommitOrder, SequenceNumber, Earlier
<1>3. CASE ~legacy
  BY <1>1, <1>3 DEF Comes, CommitOrder, SequenceNumber, Earlier
<1>4. QED
  BY <1>2, <1>3

Rank(k) == Cardinality({n \in Kept : Comes(n, k)}) + 1

LEMMA RanksAre ==
  ASSUME GeometryInv
  PROVE  /\ \A k \in Kept : Rank(k) \in 1 .. Cardinality(Kept)
         /\ \A n, k \in Kept : Comes(n, k) => Rank(n) < Rank(k)
<1> DEFINE B(k) == {n \in Kept : Comes(n, k)}
<1>1. IsFiniteSet(Kept) /\ Cardinality(Kept) \in Nat
  BY ClocksAreNumbers, FS_CardinalityType
<1>2. \A k : IsFiniteSet(B(k)) /\ Cardinality(B(k)) \in Nat
  BY <1>1, FS_Subset, FS_CardinalityType
<1>3. ASSUME NEW k \in Kept PROVE Rank(k) \in 1 .. Cardinality(Kept)
  <2>1. B(k) \subseteq Kept /\ k \notin B(k)
    BY ComesInOrder
  <2>2. B(k) # Kept
    BY <2>1
  <2>3. Cardinality(B(k)) < Cardinality(Kept)
    <3>1. Cardinality(B(k)) <= Cardinality(Kept) /\ (Cardinality(B(k)) = Cardinality(Kept) => B(k) = Kept)
      BY <1>1, <2>1, FS_Subset
    <3>2. QED
      BY <1>1, <1>2, <2>2, <3>1
  <2>4. QED
    BY <1>1, <1>2, <2>3 DEF Rank
<1>4. ASSUME NEW n \in Kept, NEW k \in Kept, Comes(n, k) PROVE Rank(n) < Rank(k)
  <2>1. B(n) \subseteq B(k) /\ n \notin B(n) /\ n \in B(k)
    BY <1>4, ComesInOrder
  <2>2. Cardinality(B(n)) <= Cardinality(B(k)) /\ (Cardinality(B(n)) = Cardinality(B(k)) => B(n) = B(k))
    BY <1>2, <2>1, FS_Subset
  <2>3. QED
    BY <1>2, <2>1, <2>2 DEF Rank
<1>5. QED
  BY <1>3, <1>4

LEMMA OrderIs ==
  ASSUME GeometryInv
  PROVE  LET s == InOrder(Kept) m == Cardinality(Kept) IN
         /\ s \in [1 .. m -> Kept] /\ Len(s) = m /\ DOMAIN s = 1 .. m
         /\ \A i, j \in 1 .. m : i < j => s[i] # s[j] /\ ~CommitOrder(s[j], s[i])
         /\ \A n \in Kept : \E i \in 1 .. m : s[i] = n
<1> DEFINE m == Cardinality(Kept)
           r == [k \in Kept |-> Rank(k)]
           Ordered(s) == \A i, j \in DOMAIN s : i < j => s[i] # s[j] /\ ~CommitOrder(s[j], s[i])
<1>1. IsFiniteSet(Kept) /\ m \in Nat /\ IsFiniteSet(1 .. m) /\ Cardinality(1 .. m) = m
  <2>1. IsFiniteSet(Kept) /\ m \in Nat
    BY ClocksAreNumbers, FS_CardinalityType
  <2> HIDE DEF m
  <2>2. m - 1 + 1 = m /\ (1 > m => m = 0) /\ 1 \in Int /\ m \in Int
    BY <2>1
  <2>3. IsFiniteSet(1 .. m) /\ Cardinality(1 .. m) = IF 1 > m THEN 0 ELSE m - 1 + 1
    BY <2>2, FS_Interval
  <2>4. QED
    BY <2>1, <2>2, <2>3
<1>2. r \in Surjection(Kept, 1 .. m)
  <2>1. r \in [Kept -> 1 .. m]
    BY RanksAre
  <2>2. \A n, k \in Kept : n # k => r[n] # r[k]
    <3>1. ASSUME NEW n \in Kept, NEW k \in Kept, n # k PROVE r[n] # r[k]
      <4>1. Comes(n, k) \/ Comes(k, n)
        BY <3>1, ComesInOrder
      <4>2. Rank(n) < Rank(k) \/ Rank(k) < Rank(n)
        BY <4>1, RanksAre
      <4>3. Rank(n) \in Int /\ Rank(k) \in Int
        BY RanksAre
      <4>4. QED
        BY <4>2, <4>3
    <3>2. QED
      BY <3>1
  <2> HIDE DEF r
  <2>3. r \in Injection(Kept, 1 .. m)
    BY <2>1, <2>2 DEF Injection, IsInjective
  <2>4. QED
    BY <1>1, <2>3, FS_Injection
<1>3. \A i \in 1 .. m : \E k \in Kept : Rank(k) = i
  BY <1>2 DEF Surjection
<1> DEFINE t == [i \in 1 .. m |-> CHOOSE k \in Kept : Rank(k) = i]
<1>4. t \in [1 .. m -> Kept] /\ \A i \in 1 .. m : Rank(t[i]) = i
  BY <1>3
<1>5. Ordered(t)
  <2>1. SUFFICES ASSUME NEW i \in 1 .. m, NEW j \in 1 .. m, i < j PROVE t[i] # t[j] /\ ~CommitOrder(t[j], t[i])
    BY <1>4
  <2>2. t[i] \in Kept /\ t[j] \in Kept /\ Rank(t[i]) = i /\ Rank(t[j]) = j
    BY <1>4
  <2> HIDE DEF t
  <2>3. CommitOrder(t[j], t[i]) => Rank(t[j]) < Rank(t[i])
    BY <2>2, ComesInOrder, RanksAre
  <2>4. QED
    BY <2>1, <2>2, <2>3
<1> DEFINE s == InOrder(Kept)
<1>6. s \in [1 .. m -> Kept] /\ Ordered(s)
  <2>1. s = CHOOSE u \in [1 .. m -> Kept] : Ordered(u)
    BY DEF InOrder
  <2> HIDE DEF s, t, Ordered
  <2>2. QED
    BY <1>4, <1>5, <2>1
<1> HIDE DEF s
<1>7. DOMAIN s = 1 .. m /\ Len(s) = m
  <2>1. s \in Seq(Kept)
    BY <1>1, <1>6, SeqDef
  <2>2. QED
    BY <1>1, <1>6, <2>1, LenProperties
<1>8. s \in Surjection(1 .. m, Kept)
  <2>1. \A i, j \in 1 .. m : s[i] = s[j] => i = j
    BY <1>1, <1>6, <1>7
  <2>2. s \in Injection(1 .. m, Kept)
    BY <1>6, <2>1 DEF Injection, IsInjective
  <2>3. QED
    BY <1>1, <2>2, FS_Injection
<1>9. \A n \in Kept : \E i \in 1 .. m : s[i] = n
  BY <1>8 DEF Surjection
<1>10. QED
  BY <1>6, <1>7, <1>9 DEF s

(* With sequence numbers the order is that of the commits.                 *)
LEMMA OrderIsCommits ==
  ASSUME GeometryInv, ~legacy, NEW i \in 1 .. Cardinality(Kept)
  PROVE  InOrder(Kept)[i] = expired + i
<1> DEFINE s == InOrder(Kept)
           m == Cardinality(Kept)
<1>1. s \in [1 .. m -> Kept] /\ \A a, b \in 1 .. m : a < b => s[a] # s[b] /\ ~CommitOrder(s[b], s[a])
  BY OrderIs
<1>2. Latest \in Nat /\ expired \in Nat /\ m = Latest - expired
  BY ClocksAreNumbers
<1> HIDE DEF s, m
<1>3. \A a \in 1 .. m : s[a] \in Int /\ expired + 1 <= s[a] /\ s[a] <= expired + m
  BY <1>1, <1>2 DEF Kept
<1>4. \A a, b \in 1 .. m : a < b => s[a] < s[b]
  BY <1>1, <1>3 DEF CommitOrder, SequenceNumber
<1>5. m \in Int /\ i \in 1 .. m
  BY <1>2 DEF m
<1>6. ASSUME NEW a \in 1 .. m, s[a] < expired + a PROVE FALSE
  <2> DEFINE M == {b \in 1 .. m : s[b] < expired + b}
  <2>1. M \in SUBSET Nat /\ M # {}
    BY <1>6
  <2>2. PICK b \in M : \A c \in M : b <= c
    BY <2>1, LeastNumber
  <2>3. b # 1
    BY <1>2, <1>3, <2>2
  <2>4. b - 1 \in 1 .. m /\ b \in 1 .. m /\ b - 1 < b
    BY <1>5, <2>2, <2>3
  <2>5. s[b - 1] < s[b] /\ s[b] < expired + b
    BY <1>4, <2>2, <2>4
  <2>6. s[b - 1] >= expired + (b - 1)
    BY <1>2, <1>3, <2>2, <2>4
  <2>7. QED
    BY <1>2, <1>3, <2>4, <2>5, <2>6
<1>7. ASSUME NEW a \in 1 .. m, s[a] > expired + a PROVE FALSE
  <2> DEFINE M == {b \in 1 .. m : s[b] > expired + b}
  <2>1. M \in SUBSET Int /\ M # {} /\ \A b \in M : b <= m
    BY <1>5, <1>7
  <2>2. PICK b \in M : \A c \in M : c <= b
    <3> HIDE DEF M
    <3>1. QED
      BY <1>5, <2>1, GreatestNumber
  <2>3. b # m /\ b \in 1 .. m /\ s[b] > expired + b
    BY <1>2, <1>3, <2>2
  <2>4. b + 1 \in 1 .. m /\ b < b + 1
    BY <1>5, <2>3
  <2>5. s[b] < s[b + 1]
    BY <1>4, <2>3, <2>4
  <2>6. s[b + 1] <= expired + (b + 1)
    BY <1>2, <1>3, <2>2, <2>4
  <2>7. QED
    BY <1>2, <1>3, <2>3, <2>4, <2>5, <2>6
<1>8. s[i] = expired + i
  BY <1>2, <1>3, <1>5, <1>6, <1>7
<1>9. QED
  BY <1>8 DEF s

(* The history visible by a time: no later time in it, and then one.       *)
LEMMA PrefixIs ==
  ASSUME GeometryInv, NEW at \in Int
  PROVE  LET s == InOrder(Kept) r == PrefixEnd(s, at) m == Cardinality(Kept) IN
         /\ r \in 0 .. m
         /\ \A i \in 1 .. r : snapshots[s[i]].ts <= at
         /\ r < m => snapshots[s[r + 1]].ts > at
<1> DEFINE s == InOrder(Kept)
           r == PrefixEnd(s, at)
           m == Cardinality(Kept)
           later == {i \in DOMAIN s : snapshots[s[i]].ts > at}
<1>1. s \in [1 .. m -> Kept] /\ DOMAIN s = 1 .. m /\ Len(s) = m
  BY OrderIs
<1>2. m \in Nat /\ \A n \in Kept : snapshots[n].ts \in Int
  BY ClocksAreNumbers, FS_CardinalityType
<1>3. \A i \in 1 .. m : snapshots[s[i]].ts \in Int
  BY <1>1, <1>2
<1>4. CASE later = {}
  <2>1. r = m
    BY <1>1, <1>4 DEF PrefixEnd
  <2> HIDE DEF s, r, m
  <2>2. \A i \in 1 .. m : snapshots[s[i]].ts <= at
    BY <1>1, <1>3, <1>4
  <2>3. QED
    BY <1>2, <2>1, <2>2 DEF s, r, m
<1>5. CASE later # {}
  <2> DEFINE f == CHOOSE i \in later : \A j \in later : i <= j
  <2>1. r = f - 1
    BY <1>5 DEF PrefixEnd
  <2>2. f \in later /\ \A j \in later : f <= j
    <3>1. later \in SUBSET Nat
      BY <1>1
    <3> HIDE DEF later
    <3>2. \E i \in later : \A j \in later : i <= j
      BY <1>5, <3>1, LeastNumber
    <3>3. QED
      BY <3>2
  <2> HIDE DEF s, r, m, f
  <2>3. f \in 1 .. m /\ snapshots[s[f]].ts > at
    BY <1>1, <2>2
  <2>4. \A i \in 1 .. f - 1 : snapshots[s[i]].ts <= at
    BY <1>1, <1>2, <1>3, <2>2, <2>3
  <2>5. r \in 0 .. m /\ r + 1 = f
    BY <1>2, <2>1, <2>3
  <2>6. QED
    BY <2>1, <2>3, <2>4, <2>5 DEF s, r, m
<1>6. QED
  BY <1>4, <1>5

LEMMA PrefixGrows ==
  ASSUME GeometryInv, NEW at \in Int, NEW until \in Int, at <= until
  PROVE  PrefixEnd(InOrder(Kept), at) <= PrefixEnd(InOrder(Kept), until)
<1> DEFINE s == InOrder(Kept)
           m == Cardinality(Kept)
           q == PrefixEnd(s, at)
           r == PrefixEnd(s, until)
<1>1. /\ q \in 0 .. m /\ r \in 0 .. m
      /\ \A i \in 1 .. q : snapshots[s[i]].ts <= at
      /\ r < m => snapshots[s[r + 1]].ts > until
  BY PrefixIs
<1>2. m \in Nat /\ s \in [1 .. m -> Kept] /\ \A n \in Kept : snapshots[n].ts \in Int
  BY ClocksAreNumbers, OrderIs, FS_CardinalityType
<1> HIDE DEF s, m, q, r
<1>3. ASSUME r < q PROVE FALSE
  <2>1. r + 1 \in 1 .. q /\ r < m /\ r + 1 \in 1 .. m
    BY <1>1, <1>2, <1>3
  <2>2. snapshots[s[r + 1]].ts \in Int
    BY <1>2, <2>1
  <2>3. QED
    BY <1>1, <2>1, <2>2
<1>4. QED
  BY <1>1, <1>2, <1>3 DEF q, r, s

(* The commits of a point are those after the points before it.            *)
LEMMA PointsAre ==
  ASSUME GeometryInv
  PROVE  LET s == InOrder(Kept) ps == Present(s) m == Cardinality(Kept) IN
         /\ ps \subseteq DOMAIN Offsets /\ ps \subseteq Nat
         /\ \A k \in ps : Reached(s, k) \in 1 .. m /\ k < Len(Offsets) + 1
         /\ \A j, k \in ps : j <= k => Reached(s, j) <= Reached(s, k)
<1> DEFINE s == InOrder(Kept)
           ps == Present(s)
           m == Cardinality(Kept)
<1>1. /\ Epoch \in Nat /\ Len(Offsets) \in Nat /\ DOMAIN Offsets = 1 .. Len(Offsets)
      /\ \A k \in DOMAIN Offsets : Offsets[k] \in Nat
      /\ \A j, k \in DOMAIN Offsets : j < k => Offsets[j] < Offsets[k]
  BY ClocksAreNumbers
<1>2. ps \subseteq DOMAIN Offsets /\ ps \subseteq Nat /\ \A k \in ps : k < Len(Offsets) + 1 /\ Reached(s, k) # 0
  BY <1>1 DEF Present
<1>3. \A k \in DOMAIN Offsets : Epoch + Offsets[k] \in Int
  BY <1>1
<1>4. \A k \in ps : Reached(s, k) \in 1 .. m
  <2>1. ASSUME NEW k \in ps PROVE Reached(s, k) \in 0 .. m
    BY <1>2, <1>3, PrefixIs DEF Reached
  <2>2. m \in Nat
    BY ClocksAreNumbers, FS_CardinalityType
  <2> HIDE DEF s, ps, m
  <2>3. QED
    BY <1>2, <2>1, <2>2
<1>5. ASSUME NEW j \in ps, NEW k \in ps, j <= k PROVE Reached(s, j) <= Reached(s, k)
  <2>1. Epoch + Offsets[j] <= Epoch + Offsets[k]
    BY <1>1, <1>2, <1>5
  <2>2. QED
    BY <1>2, <1>3, <2>1, PrefixGrows DEF Reached
<1>6. QED
  BY <1>2, <1>4, <1>5

LEMMA SinceIs ==
  ASSUME GeometryInv, NEW k \in Nat
  PROVE  LET s == InOrder(Kept) ps == Present(s) IN
         /\ Since(s, k) \in Nat \ {0}
         /\ \A j \in ps : j < k => Reached(s, j) < Since(s, k)
         /\ Since(s, k) = 1 \/ \E j \in ps : j < k /\ Since(s, k) = Reached(s, j) + 1
<1> DEFINE s == InOrder(Kept)
           ps == Present(s)
           m == Cardinality(Kept)
           before == {j \in ps : j < k}
<1>1. /\ ps \subseteq Nat /\ \A j \in ps : Reached(s, j) \in 1 .. m
      /\ \A i, j \in ps : i <= j => Reached(s, i) <= Reached(s, j)
  BY PointsAre
<1>2. m \in Nat
  BY ClocksAreNumbers, FS_CardinalityType
<1>3. CASE before = {}
  <2>1. Since(s, k) = 1
    BY <1>3 DEF Since
  <2> HIDE DEF s, ps
  <2>2. QED
    BY <1>3, <2>1 DEF s, ps
<1>4. CASE before # {}
  <2> DEFINE b == CHOOSE j \in before : \A i \in before : i <= j
  <2>1. b \in before /\ \A i \in before : i <= b
    <3>1. before \in SUBSET Int /\ k \in Int /\ \A j \in before : j <= k
      BY <1>1
    <3> HIDE DEF before
    <3>2. \E j \in before : \A i \in before : i <= j
      BY <1>4, <3>1, GreatestNumber
    <3>3. QED
      BY <3>2
  <2>2. Since(s, k) = Reached(s, b) + 1
    BY <1>4 DEF Since, Boundary
  <2> HIDE DEF s, ps, m, b
  <2>3. b \in ps /\ b < k /\ Reached(s, b) \in 1 .. m
    BY <1>1, <2>1
  <2>4. \A j \in ps : j < k => Reached(s, j) <= Reached(s, b) /\ Reached(s, j) \in 1 .. m
    BY <1>1, <2>1, <2>3
  <2>5. QED
    BY <1>2, <2>2, <2>3, <2>4 DEF s, ps
<1>5. QED
  BY <1>3, <1>4

(* The report while there are snapshots.                                   *)
LEMMA ReportIs ==
  ASSUME GeometryInv, Kept # {}
  PROVE  LET s == InOrder(Kept) ps == Present(s) m == Cardinality(Kept) IN
         /\ DOMAIN Report.at = ps
         /\ \A k \in ps : /\ Report.at[k].live = DataFilesAt(s[Reached(s, k)])
                          /\ Report.at[k].commits = {s[i] : i \in Since(s, k) .. Reached(s, k)}
         /\ Report.final.live = DataFilesAt(s[m])
         /\ Report.final.commits = {s[i] : i \in Since(s, Len(Offsets) + 1) .. m}
<1> DEFINE s == InOrder(Kept)
           ps == Present(s)
           at == [k \in ps |-> Point(s, Reached(s, k), Since(s, k))]
           final == Point(s, Len(s), Since(s, Len(Offsets) + 1))
<1>1. Report = [at |-> at, final |-> final]
  BY DEF Report
<1>2. Len(s) = Cardinality(Kept)
  BY OrderIs
<1>3. Report.at = at /\ Report.final = final
  BY <1>1
<1>4. \A k \in ps : at[k].live = DataFilesAt(s[Reached(s, k)]) /\ at[k].commits = {s[i] : i \in Since(s, k) .. Reached(s, k)}
  BY DEF Point
<1>5. final.live = DataFilesAt(s[Len(s)]) /\ final.commits = {s[i] : i \in Since(s, Len(Offsets) + 1) .. Len(s)}
  BY DEF Point
<1>6. DOMAIN at = ps
  OBVIOUS
<1> HIDE DEF s, at, final, ps
<1>7. QED
  BY <1>2, <1>3, <1>4, <1>5, <1>6 DEF s, ps

LEMMA FilesAreRead ==
  ASSUME GeometryInv
  PROVE  \A n \in 1 .. Latest : AddedFiles(n) = log[n].written /\ DataFilesAt(n) = log[n].live
<1>1. \A n : AddedFiles(n) = FilesBy(snapshots[n].manifests, n) /\ DataFilesAt(n) = FilesIn(snapshots[n].manifests)
  BY DEF AddedFiles, DataFilesAt, FilesBy, FilesIn
<1>2. QED
  BY <1>1 DEF GeometryInv, ReadAsWritten

LEMMA LastInOrder ==
  ASSUME GeometryInv, Kept # {}, ~legacy
  PROVE  Cardinality(Kept) \in 1 .. Cardinality(Kept) /\ InOrder(Kept)[Cardinality(Kept)] = Latest /\ Latest \in 1 .. Latest
<1>1. /\ Latest \in Nat /\ Latest # 0 /\ expired \in Nat /\ Cardinality(Kept) = Latest - expired
      /\ (expired = 0 \/ expired < Latest)
  BY ClocksAreNumbers DEF GeometryInv, GeometryTypes
<1>2. Cardinality(Kept) \in 1 .. Cardinality(Kept)
  BY <1>1
<1>3. QED
  BY <1>1, <1>2, OrderIsCommits

LEMMA FinalIsTheTable ==
  ASSUME GeometryInv
  PROVE  LiveIsTheTable
<1>1. Kept \subseteq 1 .. Latest
  BY ClocksAreNumbers
<1>2. ASSUME Kept # {}, ~legacy PROVE Report.final.live = LiveNow
  <2>1. InOrder(Kept)[Cardinality(Kept)] = Latest /\ Latest \in 1 .. Latest
    BY <1>2, LastInOrder
  <2>2. Report.final.live = DataFilesAt(Latest)
    BY <1>2, <2>1, ReportIs
  <2>3. LiveNow = log[Latest].live
    BY <2>1 DEF LiveNow
  <2>4. QED
    BY <2>1, <2>2, <2>3, FilesAreRead
<1>3. QED
  BY <1>1, <1>2, FilesAreRead DEF LiveIsTheTable

LEMMA PointIsNear ==
  ASSUME GeometryInv
  PROVE  PointWithinSkew
<1>1. SUFFICES ASSUME ~legacy, NEW k \in DOMAIN Report.at
               PROVE  \E t \in (Epoch + Offsets[k] - Skew) .. (Epoch + Offsets[k] + Skew), n \in 1 .. Latest :
                        /\ log[n].at <= t /\ t <= now /\ (n < Latest => t <= log[n + 1].at)
                        /\ Report.at[k].live = log[n].live
  BY DEF PointWithinSkew
<1>2. Kept # {}
  BY <1>1 DEF Report
<1> DEFINE s == InOrder(Kept)
           m == Cardinality(Kept)
           r == Reached(s, k)
           by == Epoch + Offsets[k]
           n == expired + r
<1>3. /\ k \in Present(s) /\ k \in DOMAIN Offsets /\ r \in 1 .. m
      /\ Report.at[k].live = DataFilesAt(s[r])
  BY <1>1, <1>2, ReportIs, PointsAre
<1>4. /\ Latest \in Nat /\ expired \in Nat /\ m = Latest - expired /\ now \in Nat
      /\ Skew \in Nat /\ by \in Int
  BY <1>3, ClocksAreNumbers
<1>5. Epoch \in Int /\ Offsets[k] \in Int
  BY <1>3, ClocksAreNumbers
<1>6. \A i \in 1 .. m : s[i] = expired + i
  BY <1>1, OrderIsCommits
<1>7. \A i \in 1 .. Latest : /\ log[i].at \in Nat /\ log[i].at <= now /\ snapshots[i].ts \in Int
                             /\ log[i].at - Skew <= snapshots[i].ts /\ snapshots[i].ts <= log[i].at + Skew
  BY <1>4 DEF GeometryInv, ClocksAreNear
<1>8. /\ \A i \in 1 .. r : snapshots[s[i]].ts <= by
      /\ r < m => snapshots[s[r + 1]].ts > by
  BY <1>4, PrefixIs DEF Reached
<1>9. snapshots[Latest].ts >= by
  <2>1. ~PastEnd(s, by)
    BY <1>3 DEF Present
  <2>2. Len(s) = m /\ m \in 1 .. m
    BY <1>2, OrderIs, LastInOrder, <1>1
  <2>3. s[m] = Latest /\ Latest \in 1 .. Latest
    BY <1>1, <1>2, LastInOrder
  <2> HIDE DEF s, m, by
  <2>4. QED
    BY <1>4, <1>7, <2>1, <2>2, <2>3 DEF PastEnd
<1>10. Report.at[k].live = log[n].live /\ n \in 1 .. Latest
  <2>1. s[r] = n
    BY <1>3, <1>6
  <2> HIDE DEF s, m, r
  <2>2. n \in 1 .. Latest
    BY <1>3, <1>4
  <2>3. QED
    BY <1>3, <2>1, <2>2, FilesAreRead
<1>11. \A i, j \in 1 .. Latest : i <= j => log[i].at <= log[j].at
  BY DEF GeometryInv, CommitsInTurn
<1>12. snapshots[n].ts <= by /\ (r < m => snapshots[n + 1].ts > by) /\ n + 1 = expired + (r + 1)
  <2> HIDE DEF s, m, r, by
  <2>1. s[r] = expired + r /\ r \in 1 .. r
    BY <1>3, <1>4, <1>6
  <2>2. r < m => s[r + 1] = expired + (r + 1)
    BY <1>3, <1>4, <1>6
  <2>3. expired + (r + 1) = n + 1
    BY <1>3, <1>4
  <2>4. QED
    BY <1>8, <2>1, <2>2, <2>3
<1> HIDE DEF s, m, r, by
<1>13. CASE r < m
  <2> DEFINE t == IF log[n].at >= by - Skew THEN log[n].at ELSE by - Skew
  <2>1. n + 1 \in 1 .. Latest /\ n < Latest
    BY <1>3, <1>4, <1>13
  <2>2. log[n].at \in Nat /\ log[n].at <= by + Skew /\ log[n].at <= now
    BY <1>4, <1>7, <1>10, <1>12
  <2>3. log[n + 1].at \in Nat /\ log[n + 1].at > by - Skew /\ log[n + 1].at <= now
    BY <1>4, <1>7, <1>12, <1>13, <2>1
  <2>4. log[n].at <= log[n + 1].at
    BY <1>4, <1>3, <1>10, <1>11, <2>1
  <2>5. t \in by - Skew .. by + Skew /\ log[n].at <= t /\ t <= now /\ t <= log[n + 1].at
    BY <1>4, <2>2, <2>3, <2>4
  <2> HIDE DEF t, n
  <2>6. t \in (Epoch + Offsets[k] - Skew) .. (Epoch + Offsets[k] + Skew)
    BY <1>4, <1>5, <2>5 DEF by
  <2>7. n \in 1 .. Latest
    BY <1>10
  <2>8. QED
    <3> USE <2>6, <2>7
    <3>1. WITNESS t \in (Epoch + Offsets[k] - Skew) .. (Epoch + Offsets[k] + Skew), n \in 1 .. Latest
    <3>2. QED
      BY <1>10, <2>5
<1>14. CASE r = m
  <2>1. n = Latest
    BY <1>4, <1>14
  <2>2. snapshots[n].ts = by /\ log[n].at \in Nat /\ log[n].at <= now
    BY <1>4, <1>7, <1>9, <1>10, <1>12, <2>1
  <2>3. log[n].at \in by - Skew .. by + Skew
    BY <1>4, <1>7, <1>10, <2>2
  <2> HIDE DEF n
  <2>4. log[n].at \in (Epoch + Offsets[k] - Skew) .. (Epoch + Offsets[k] + Skew)
    BY <1>4, <1>5, <2>3 DEF by
  <2>5. n \in 1 .. Latest
    BY <1>10
  <2>6. QED
    <3> USE <2>4, <2>5
    <3>1. WITNESS log[n].at \in (Epoch + Offsets[k] - Skew) .. (Epoch + Offsets[k] + Skew), n \in 1 .. Latest
    <3>2. QED
      BY <1>4, <1>10, <2>1, <2>2
<1>15. QED
  BY <1>3, <1>4, <1>13, <1>14

LEMMA CommitsApart ==
  ASSUME GeometryInv
  PROVE  EachCommitOnce
<1> SUFFICES ASSUME Kept # {}
             PROVE  LET points == DOMAIN Report.at IN
                      /\ \A j, k \in points : j # k => Report.at[j].commits \cap Report.at[k].commits = {}
                      /\ \A k \in points : Report.at[k].commits \cap Report.final.commits = {}
                      /\ Report.final.commits \cup UNION {Report.at[k].commits : k \in points} = Kept
  BY DEF EachCommitOnce
<1> DEFINE s == InOrder(Kept)
           ps == Present(s)
           m == Cardinality(Kept)
           past == Len(Offsets) + 1
           Of(k) == {s[i] : i \in Since(s, k) .. Reached(s, k)}
           Rest == {s[i] : i \in Since(s, past) .. m}
<1>1. /\ DOMAIN Report.at = ps /\ \A k \in ps : Report.at[k].commits = Of(k)
      /\ Report.final.commits = Rest
  BY ReportIs
<1>2. /\ ps \subseteq Nat /\ \A k \in ps : Reached(s, k) \in 1 .. m /\ k < past
      /\ \A j, k \in ps : j <= k => Reached(s, j) <= Reached(s, k)
  BY PointsAre
<1>3. past \in Nat /\ m \in Nat
  BY ClocksAreNumbers, FS_CardinalityType
<1>4. \A k \in Nat : /\ Since(s, k) \in Nat \ {0}
                     /\ \A j \in ps : j < k => Reached(s, j) < Since(s, k)
                     /\ Since(s, k) = 1 \/ \E j \in ps : j < k /\ Since(s, k) = Reached(s, j) + 1
  BY SinceIs
<1>5. /\ \A i, j \in 1 .. m : i < j => s[i] # s[j]
      /\ \A n \in Kept : \E i \in 1 .. m : s[i] = n
      /\ \A i \in 1 .. m : s[i] \in Kept
  BY OrderIs
<1> HIDE DEF s, ps, m, past
<1>6. ASSUME NEW j \in ps, NEW k \in ps, j < k PROVE Of(j) \cap Of(k) = {}
  <2>1. Reached(s, j) < Since(s, k) /\ Since(s, j) \in Nat \ {0} /\ Since(s, k) \in Nat \ {0}
    BY <1>2, <1>4, <1>6
  <2>2. Reached(s, j) \in 1 .. m /\ Reached(s, k) \in 1 .. m
    BY <1>2
  <2>3. ASSUME NEW i \in Since(s, j) .. Reached(s, j), NEW l \in Since(s, k) .. Reached(s, k) PROVE s[i] # s[l]
    <3>1. i \in 1 .. m /\ l \in 1 .. m /\ i < l
      BY <1>3, <2>1, <2>2
    <3>2. QED
      BY <1>5, <3>1
  <2>4. QED
    BY <2>3
<1>7. ASSUME NEW j \in ps PROVE Of(j) \cap Rest = {}
  <2>1. Reached(s, j) < Since(s, past) /\ Since(s, j) \in Nat \ {0} /\ Since(s, past) \in Nat \ {0}
    BY <1>2, <1>3, <1>4
  <2>2. Reached(s, j) \in 1 .. m
    BY <1>2
  <2>3. ASSUME NEW i \in Since(s, j) .. Reached(s, j), NEW l \in Since(s, past) .. m PROVE s[i] # s[l]
    <3>1. i \in 1 .. m /\ l \in 1 .. m /\ i < l
      BY <1>3, <2>1, <2>2
    <3>2. QED
      BY <1>5, <3>1
  <2>4. QED
    BY <2>3
<1>8. \A k \in ps : Of(k) \subseteq Kept
  <2>1. SUFFICES ASSUME NEW k \in ps, NEW i \in Since(s, k) .. Reached(s, k) PROVE s[i] \in Kept
    OBVIOUS
  <2>2. Since(s, k) \in Nat \ {0} /\ Reached(s, k) \in 1 .. m
    BY <1>2, <1>4
  <2>3. i \in 1 .. m
    BY <1>3, <2>2
  <2>4. QED
    BY <1>5, <2>3
<1>9. Rest \subseteq Kept
  <2>1. SUFFICES ASSUME NEW i \in Since(s, past) .. m PROVE s[i] \in Kept
    OBVIOUS
  <2>2. Since(s, past) \in Nat \ {0}
    BY <1>3, <1>4
  <2>3. i \in 1 .. m
    BY <1>3, <2>2
  <2>4. QED
    BY <1>5, <2>3
<1>10. ASSUME NEW n \in Kept PROVE n \in Rest \/ \E k \in ps : n \in Of(k)
  <2>1. PICK i \in 1 .. m : s[i] = n
    BY <1>5
  <2> DEFINE At == {k \in ps : i <= Reached(s, k)}
  <2>2. CASE At = {}
    <3>1. Since(s, past) <= i
      <4>1. \A j \in ps : Reached(s, j) + 1 <= i
        BY <1>2, <1>3, <2>2
      <4>2. QED
        BY <1>3, <1>4, <4>1
    <3>2. i \in Since(s, past) .. m
      BY <1>3, <1>4, <3>1
    <3>3. QED
      BY <2>1, <3>2
  <2>3. CASE At # {}
    <3>1. PICK k \in At : \A j \in At : k <= j
      <4>1. At \in SUBSET Nat
        BY <1>2
      <4> HIDE DEF At
      <4>2. QED
        BY <2>3, <4>1, LeastNumber
    <3>2. k \in ps /\ k \in Nat /\ i <= Reached(s, k) /\ Reached(s, k) \in 1 .. m
      BY <1>2, <3>1
    <3>3. \A j \in ps : j < k => Reached(s, j) + 1 <= i
      <4>1. SUFFICES ASSUME NEW j \in ps, j < k PROVE Reached(s, j) + 1 <= i
        OBVIOUS
      <4>2. j \notin At
        BY <1>2, <3>1, <3>2, <4>1
      <4>3. ~(i <= Reached(s, j)) /\ Reached(s, j) \in 1 .. m
        BY <1>2, <4>2
      <4>4. QED
        BY <1>3, <4>3
    <3>4. Since(s, k) <= i /\ Since(s, k) \in Nat
      BY <1>3, <1>4, <3>2, <3>3
    <3>5. i \in Since(s, k) .. Reached(s, k)
      BY <1>3, <3>2, <3>4
    <3>6. QED
      BY <2>1, <3>2, <3>5
  <2>4. QED
    BY <2>2, <2>3
<1> HIDE DEF Of, Rest
<1>11. \A j, k \in ps : j # k => Of(j) \cap Of(k) = {}
  BY <1>2, <1>6
<1>12. Rest \cup UNION {Of(k) : k \in ps} = Kept
  BY <1>8, <1>9, <1>10
<1>13. UNION {Report.at[k].commits : k \in DOMAIN Report.at} = UNION {Of(k) : k \in ps}
  BY <1>1
<1>14. QED
  BY <1>1, <1>7, <1>11, <1>12, <1>13

(* The geometry report shows the table, for any offsets, any number of     *)
(* commits and files, any clocks within the skew and either version of the *)
(* format: a commit's files are those it wrote and each is counted once,   *)
(* and a point is the table as it was near its offset.                     *)
THEOREM GeometryIsTheTable == GeometrySpec => []ReportIsTheTable
<1>1. GeometryInit => GeometryInv
  BY GeometryBegins
<1>2. GeometryInv /\ [GeometryNext]_geometryVars => GeometryInv'
  BY GeometryInductive
<1>3. GeometryInv => ReportIsTheTable
  <2> SUFFICES ASSUME GeometryInv PROVE ReportIsTheTable
    OBVIOUS
  <2>1. AddedIsWritten
    BY ClocksAreNumbers, FilesAreRead DEF AddedIsWritten
  <2>2. QED
    BY <2>1, FinalIsTheTable, PointIsNear, CommitsApart DEF ReportIsTheTable
<1>4. QED
  BY <1>1, <1>2, <1>3, PTL DEF GeometrySpec

-----------------------------------------------------------------------------
(* Residues of sums, for any modulus.                                      *)
LEMMA ResidueOfSum ==
  ASSUME NEW p \in Nat \ {0}, NEW a \in Nat, NEW x \in Nat
  PROVE  ((a % p) + x) % p = (a + x) % p
<1> DEFINE r == a % p
           v == a \div p
           u == (r + x) \div p
           c == (r + x) % p
<1>1. a = p * v + r /\ v \in Int /\ r \in Nat
  OBVIOUS
<1>2. r + x \in Nat
  BY <1>1
<1>3. r + x = p * u + c /\ u \in Int /\ c \in Nat /\ c < p
  <2> DEFINE y == r + x
  <2>1. y \in Nat
    BY <1>2
  <2> HIDE DEF y
  <2>2. y = p * (y \div p) + (y % p) /\ y \div p \in Int /\ y % p \in Nat /\ y % p < p
    BY ONLY <2>1, p \in Nat \ {0}
  <2>3. QED
    BY <2>2 DEF y
<1> HIDE DEF r, v, u, c
<1>4. v + u \in Int /\ p \in Int /\ a + x \in Int
  BY <1>1, <1>3
<1>5. (v + u) * p = p * v + p * u
  BY ONLY <1>1, <1>3, p \in Nat \ {0}
<1>6. p * v \in Int /\ p * u \in Int
  BY <1>1, <1>3
<1>7. a + x = (v + u) * p + c
  BY ONLY <1>1, <1>3, <1>5, <1>6, a \in Nat, x \in Nat
<1>8. (a + x) % p = c
  <2> DEFINE q == v + u
             n == a + x
  <2>1. q \in Int /\ n \in Int /\ n = q * p + c /\ c \in Nat /\ c < p
    BY <1>3, <1>4, <1>7
  <2> HIDE DEF q, n
  <2>2. n % p = c
    BY <2>1, DividedBy
  <2>3. QED
    BY <2>2 DEF n
<1>9. QED
  BY <1>8 DEF c, r

Congruent(p, a, b) == a % p = b % p

LEMMA CongruencesAdd ==
  ASSUME NEW p \in Nat \ {0}, NEW a \in Nat, NEW b \in Nat, NEW x \in Nat, NEW y \in Nat,
         Congruent(p, a, b), Congruent(p, x, y)
  PROVE  Congruent(p, a + x, b + y)
<1>0. a % p = b % p /\ x % p = y % p
  BY DEF Congruent
<1>1. \A n \in Nat : n % p \in Nat
  BY ONLY p \in Nat \ {0}
<1>2. ((a % p) + x) % p = (a + x) % p /\ ((b % p) + x) % p = (b + x) % p
  BY ResidueOfSum
<1>3. ((x % p) + b) % p = (x + b) % p /\ ((y % p) + b) % p = (y + b) % p
  BY ResidueOfSum
<1>4. x + b = b + x /\ y + b = b + y
  OBVIOUS
<1>5. QED
  BY <1>0, <1>2, <1>3, <1>4 DEF Congruent

LEMMA SumOfUnion ==
  ASSUME NEW S, NEW T, IsFiniteSet(S), IsFiniteSet(T), S \cap T = {}, NEW f, \A x \in S \cup T : f[x] \in Nat
  PROVE  SumFunctionOnSet(f, S \cup T) = SumFunctionOnSet(f, S) + SumFunctionOnSet(f, T)
<1> DEFINE Good == {A \in SUBSET T : SumFunctionOnSet(f, S \cup A) = SumFunctionOnSet(f, S) + SumFunctionOnSet(f, A)}
<1>1. ASSUME NEW A \in SUBSET T, \A B \in SUBSET A : B # A => B \in Good PROVE A \in Good
  <2>1. IsFiniteSet(A) /\ IsFiniteSet(S \cup A)
    BY FS_Subset, FS_Union
  <2>2. SumFunctionOnSet(f, S) \in Nat
    BY SumIsNat
  <2>3. CASE A = {}
    <3>1. S \cup A = S /\ SumFunctionOnSet(f, A) = 0
      BY <2>3, SumOfNone
    <3>2. QED
      BY <2>2, <3>1
  <2>4. CASE A # {}
    <3>1. PICK x \in A : TRUE
      BY <2>4
    <3> DEFINE C == A \ {x}
    <3>2. C \in Good /\ C \in SUBSET A /\ (S \cup A) \ {x} = S \cup C /\ x \in S \cup A
      BY <1>1, <3>1
    <3>3. SumFunctionOnSet(f, S \cup A) = f[x] + SumFunctionOnSet(f, (S \cup A) \ {x})
      BY <2>1, <3>2, SumPick
    <3>4. SumFunctionOnSet(f, A) = f[x] + SumFunctionOnSet(f, C)
      BY <2>1, <3>1, SumPick
    <3>5. SumFunctionOnSet(f, C) \in Nat /\ f[x] \in Nat
      <4>1. IsFiniteSet(C) /\ \A y \in C : f[y] \in Nat
        BY <2>1, FS_Subset
      <4>2. QED
        BY <3>2, <4>1, SumIsNat
    <3> HIDE DEF C
    <3>6. SumFunctionOnSet(f, S \cup C) = SumFunctionOnSet(f, S) + SumFunctionOnSet(f, C)
      BY <3>2
    <3>7. SumFunctionOnSet(f, S \cup A) = SumFunctionOnSet(f, S) + SumFunctionOnSet(f, A)
      BY <2>2, <3>2, <3>3, <3>4, <3>5, <3>6
    <3>8. QED
      BY <3>7
  <2>5. QED
    BY <2>3, <2>4
<1>2. Good = SUBSET T
  <2> HIDE DEF Good
  <2>1. Good \in SUBSET SUBSET T
    BY DEF Good
  <2>2. QED
    BY <1>1, <2>1, SubsetInduction
<1>3. QED
  BY <1>2

LEMMA SumResidue ==
  ASSUME NEW S, IsFiniteSet(S), NEW p \in Nat \ {0}, NEW f, NEW g,
         \A x \in S : f[x] \in Nat /\ g[x] \in Nat /\ f[x] % p = g[x] % p
  PROVE  SumFunctionOnSet(f, S) % p = SumFunctionOnSet(g, S) % p
<1> DEFINE Good == {A \in SUBSET S : SumFunctionOnSet(f, A) % p = SumFunctionOnSet(g, A) % p}
<1>1. ASSUME NEW A \in SUBSET S, \A B \in SUBSET A : B # A => B \in Good PROVE A \in Good
  <2>1. IsFiniteSet(A)
    BY FS_Subset
  <2>2. CASE A = {}
    BY <2>2, SumOfNone
  <2>3. CASE A # {}
    <3>1. PICK x \in A : TRUE
      BY <2>3
    <3> DEFINE C == A \ {x}
    <3>2. C \in Good /\ C \in SUBSET A /\ IsFiniteSet(C)
      BY <1>1, <2>1, <3>1, FS_Subset
    <3>3. /\ SumFunctionOnSet(f, A) = f[x] + SumFunctionOnSet(f, C)
          /\ SumFunctionOnSet(g, A) = g[x] + SumFunctionOnSet(g, C)
      BY <2>1, <3>1, SumPick
    <3>4. SumFunctionOnSet(f, C) \in Nat /\ SumFunctionOnSet(g, C) \in Nat /\ f[x] \in Nat /\ g[x] \in Nat
      BY <3>1, <3>2, SumIsNat
    <3> HIDE DEF C
    <3>5. SumFunctionOnSet(f, C) % p = SumFunctionOnSet(g, C) % p /\ f[x] % p = g[x] % p
      BY <3>1, <3>2
    <3>6. SumFunctionOnSet(f, A) % p = SumFunctionOnSet(g, A) % p
      <4> DEFINE a == f[x]
                 b == g[x]
                 c == SumFunctionOnSet(f, C)
                 d == SumFunctionOnSet(g, C)
      <4>1. a \in Nat /\ b \in Nat /\ c \in Nat /\ d \in Nat /\ Congruent(p, a, b) /\ Congruent(p, c, d)
        BY <3>4, <3>5 DEF Congruent
      <4>2. SumFunctionOnSet(f, A) = a + c /\ SumFunctionOnSet(g, A) = b + d
        BY <3>3
      <4> HIDE DEF a, b, c, d
      <4>3. Congruent(p, a + c, b + d)
        BY <4>1, CongruencesAdd
      <4>4. QED
        BY <4>2, <4>3 DEF Congruent
    <3>7. QED
      BY <3>6
  <2>4. QED
    BY <2>2, <2>3
<1>2. Good = SUBSET S
  <2> HIDE DEF Good
  <2>1. Good \in SUBSET SUBSET S
    BY DEF Good
  <2>2. QED
    BY <1>1, <2>1, SubsetInduction
<1>3. QED
  BY <1>2

(* A sum of rows of a matrix is one of its columns.                        *)
LEMMA SumsSwap ==
  ASSUME NEW S, IsFiniteSet(S), NEW T, IsFiniteSet(T), NEW f, \A x \in S : \A y \in T : f[x][y] \in Nat
  PROVE  SumFunctionOnSet([x \in S |-> SumFunctionOnSet(f[x], T)], S)
           = SumFunctionOnSet([y \in T |-> SumFunctionOnSet([x \in S |-> f[x][y]], S)], T)
<1> DEFINE r == [x \in S |-> SumFunctionOnSet(f[x], T)]
           c(y) == [x \in S |-> f[x][y]]
           Cols(A) == [y \in T |-> SumFunctionOnSet(c(y), A)]
           Good == {A \in SUBSET S : SumFunctionOnSet(r, A) = SumFunctionOnSet(Cols(A), T)}
<1>1. \A x \in S : r[x] = SumFunctionOnSet(f[x], T) /\ r[x] \in Nat /\ \A y \in T : c(y)[x] = f[x][y] /\ c(y)[x] \in Nat
  BY SumIsNat
<1> HIDE DEF r, c
<1>2. ASSUME NEW A \in SUBSET S, \A B \in SUBSET A : B # A => B \in Good PROVE A \in Good
  <2>1. IsFiniteSet(A)
    BY FS_Subset
  <2>2. CASE A = {}
    <3>1. \A y \in T : Cols(A)[y] = 0 /\ Cols(A)[y] \in Nat
      BY <2>2, SumOfNone
    <3> HIDE DEF Cols
    <3>2. SumFunctionOnSet(Cols(A), T) = 0
      BY <3>1, SumIsZero
    <3>3. QED
      BY <2>2, <3>2, SumOfNone
  <2>3. CASE A # {}
    <3>1. PICK x \in A : TRUE
      BY <2>3
    <3> DEFINE C == A \ {x}
    <3>2. C \in Good /\ C \in SUBSET A /\ IsFiniteSet(C)
      BY <1>2, <2>1, <3>1, FS_Subset
    <3>3. SumFunctionOnSet(r, A) = r[x] + SumFunctionOnSet(r, C)
      BY <1>1, <2>1, <3>1, SumPick
    <3>4. ASSUME NEW y \in T
          PROVE  /\ f[x][y] \in Nat /\ Cols(C)[y] \in Nat /\ Cols(A)[y] = f[x][y] + Cols(C)[y]
      <4>1. SumFunctionOnSet(c(y), A) = c(y)[x] + SumFunctionOnSet(c(y), C)
        BY <1>1, <2>1, <3>1, SumPick
      <4>2. SumFunctionOnSet(c(y), C) \in Nat
        BY <1>1, <3>2, SumIsNat
      <4>3. QED
        BY <1>1, <4>1, <4>2
    <3> HIDE DEF Cols, C
    <3>5. SumFunctionOnSet(Cols(A), T) = SumFunctionOnSet(f[x], T) + SumFunctionOnSet(Cols(C), T)
      BY <3>4, SumAdds
    <3>6. SumFunctionOnSet(r, C) = SumFunctionOnSet(Cols(C), T)
      BY <3>2
    <3>7. SumFunctionOnSet(r, A) = SumFunctionOnSet(Cols(A), T)
      BY <1>1, <3>1, <3>3, <3>5, <3>6
    <3>8. QED
      BY <3>7
  <2>4. QED
    BY <2>2, <2>3
<1>3. Good = SUBSET S
  <2> HIDE DEF Good
  <2>1. Good \in SUBSET SUBSET S
    BY DEF Good
  <2>2. QED
    BY <1>2, <2>1, SubsetInduction
<1>4. SumFunctionOnSet(r, S) = SumFunctionOnSet(Cols(S), T)
  BY <1>3
<1>5. QED
  BY <1>4 DEF r, c

(* A sum over the values of an injective function.                         *)
LEMMA SumOfImage ==
  ASSUME NEW S, IsFiniteSet(S), NEW f, NEW g, NEW h,
         \A x \in S : f[x] \in Nat /\ f[x] = h[g[x]],
         \A x, y \in S : g[x] = g[y] => x = y
  PROVE  SumFunctionOnSet(h, {g[x] : x \in S}) = SumFunctionOnSet(f, S)
<1> DEFINE R == {g[x] : x \in S}
           k == [t \in R |-> SumFunctionOnSet(f, Fiber(S, g, t))]
<1>1. IsFiniteSet(R)
  BY ImageIsFinite
<1>2. SumFunctionOnSet(f, S) = SumFunctionOnSet(k, R)
  <2>1. \A x \in S : f[x] \in Nat /\ g[x] \in R
    OBVIOUS
  <2> HIDE DEF R
  <2>2. QED
    BY <1>1, <2>1, SumByFibers
<1>3. ASSUME NEW t \in R PROVE k[t] = h[t]
  <2>1. PICK x \in S : t = g[x]
    OBVIOUS
  <2>2. Fiber(S, g, t) = {x}
    BY <2>1 DEF Fiber
  <2>3. IsFiniteSet({x}) /\ {x} \ {x} = {} /\ \A y \in {x} : f[y] \in Nat
    BY FS_Singleton
  <2>4. SumFunctionOnSet(f, {x}) = f[x] + SumFunctionOnSet(f, {x} \ {x})
    BY <2>3, SumPick
  <2>5. SumFunctionOnSet(f, {x}) = f[x] + 0
    BY <2>3, <2>4, SumOfNone
  <2>6. f[x] \in Nat /\ f[x] = h[t]
    BY <2>1
  <2>7. k[t] = SumFunctionOnSet(f, {x})
    BY <2>2
  <2>8. QED
    BY <2>5, <2>6, <2>7
<1> HIDE DEF k, R
<1>4. SumFunctionOnSet(k, R) = SumFunctionOnSet(h, R)
  BY <1>1, <1>3, SumAgrees
<1>5. QED
  BY <1>2, <1>4 DEF R

(* An arithmetic series.                                                   *)
LEMMA SeriesIs ==
  ASSUME NEW c \in Nat, NEW n \in Nat, NEW f, \A i \in 1 .. n : f[i] = c + i - 1
  PROVE  2 * SumFunctionOnSet(f, 1 .. n) = (2 * c + n - 1) * n /\ SumFunctionOnSet(f, 1 .. n) \in Nat
<1> DEFINE S(m) == SumFunctionOnSet(f, 1 .. m)
           Bad == {m \in 0 .. n : 2 * S(m) # (2 * c + m - 1) * m}
<1>1. ASSUME NEW m \in 0 .. n PROVE S(m) \in Nat
  <2>1. IsFiniteSet(1 .. m) /\ \A i \in 1 .. m : f[i] \in Nat
    BY FS_Interval
  <2>2. QED
    BY <2>1, SumIsNat
<1>2. SUFFICES ASSUME Bad # {} PROVE FALSE
  BY <1>1
<1>3. PICK m \in Bad : \A k \in Bad : m <= k
  <2>1. Bad \in SUBSET Nat
    OBVIOUS
  <2> HIDE DEF Bad
  <2>2. QED
    BY <1>2, <2>1, LeastNumber
<1>4. m # 0
  <2>1. S(0) = 0
    <3>1. 1 .. 0 = {}
      OBVIOUS
    <3>2. QED
      BY <3>1, SumOfNone
  <2>2. 2 * S(0) = (2 * c + 0 - 1) * 0
    BY <2>1
  <2>3. QED
    BY <1>3, <2>2
<1>5. m - 1 \in 0 .. n /\ m \in Nat /\ m \in 1 .. n /\ m - 1 \notin Bad
  BY <1>3, <1>4
<1>6. 2 * S(m - 1) = (2 * c + (m - 1) - 1) * (m - 1)
  BY <1>5
<1>7. S(m) = f[m] + S(m - 1)
  <2>1. m \in 1 .. m /\ (1 .. m) \ {m} = 1 .. (m - 1) /\ \A i \in 1 .. m : f[i] \in Nat
    BY <1>5
  <2>4. IsFiniteSet(1 .. m)
    BY <1>5, FS_Interval
  <2>2. SumFunctionOnSet(f, 1 .. m) = f[m] + SumFunctionOnSet(f, (1 .. m) \ {m})
    BY <2>1, <2>4, SumPick
  <2>3. QED
    BY <2>1, <2>2
<1>8. f[m] = c + m - 1 /\ S(m - 1) \in Nat /\ 2 * S(m) # (2 * c + m - 1) * m
  BY <1>1, <1>3, <1>5
<1> HIDE DEF S, Bad
<1>9. 2 * S(m) = 2 * (c + m - 1) + (2 * c + (m - 1) - 1) * (m - 1)
  BY <1>5, <1>6, <1>7, <1>8
<1>10. (2 * c + (m - 1) - 1) * (m - 1) + 2 * (c + m - 1) = (2 * c + m - 1) * m
  BY ONLY <1>5, c \in Nat
<1>11. QED
  BY <1>5, <1>8, <1>9, <1>10

-----------------------------------------------------------------------------
(* What a plan and its rows are.                                           *)
LEMMA PlanIs ==
  ASSUME plan \in Plans
  PROVE  /\ plan.batches \in Nat \ {0} /\ plan.shards \in Nat \ {0} /\ plan.keys \in Nat \ {0}
         /\ plan.values \in Nat \ {0} /\ plan.rowBlock \in Nat \ {0} /\ plan.idBlock \in Nat \ {0}
         /\ plan.modulus \in Nat \ {0} /\ plan.sketchSize \in Nat \ {0} /\ plan.stride \in Nat \ {0}
         /\ plan.rowsEstimate \in Nat \ {0}
         /\ IsFiniteSet(Keys) /\ IsFiniteSet(BatchNumbers) /\ IsFiniteSet(ShardNumbers) /\ IsFiniteSet(Values)
<1>1. /\ plan.batches \in Nat \ {0} /\ plan.shards \in Nat \ {0} /\ plan.keys \in Nat \ {0}
      /\ plan.values \in Nat \ {0} /\ plan.rowBlock \in Nat \ {0} /\ plan.idBlock \in Nat \ {0}
      /\ plan.modulus \in Nat \ {0} /\ plan.sketchSize \in Nat \ {0} /\ plan.stride \in Nat \ {0}
      /\ plan.rowsEstimate \in Nat \ {0}
  BY FiguresAssumption DEF PlanFields
<1>2. \A n \in Nat \ {0} : IsFiniteSet(0 .. n - 1) /\ IsFiniteSet(1 .. n)
  <2> TAKE n \in Nat \ {0}
  <2>1. n - 1 \in Int /\ 0 \in Int /\ 1 \in Int /\ n \in Int
    OBVIOUS
  <2>2. QED
    BY <2>1, FS_Interval
<1>3. QED
  BY <1>1, <1>2 DEF Keys, BatchNumbers, ShardNumbers, Values

-----------------------------------------------------------------------------
(* The sketch. What is dropped from a set has at least sketchSize smaller  *)
(* elements that are kept.                                                 *)
Below(X, d) == {e \in X : e < d}

LEMMA SmallestAre ==
  ASSUME NEW X \in SUBSET Nat
  PROVE  /\ Smallest(X) \subseteq X
         /\ \A d \in X : d \in Smallest(X) <=> Cardinality(Below(X, d)) < plan.sketchSize
BY DEF Smallest, Below

LEMMA SmallestOfFew ==
  ASSUME plan \in Plans, NEW X \in SUBSET Nat, IsFiniteSet(X), Cardinality(X) <= plan.sketchSize
  PROVE  Smallest(X) = X
<1>1. ASSUME NEW d \in X PROVE Cardinality(Below(X, d)) < plan.sketchSize
  <2>1. Below(X, d) \subseteq X \ {d}
    BY DEF Below
  <2>2. IsFiniteSet(X \ {d}) /\ Cardinality(X \ {d}) = Cardinality(X) - 1 /\ Cardinality(X) \in Nat
    BY FS_RemoveElement, FS_CardinalityType
  <2>3. Cardinality(Below(X, d)) <= Cardinality(X \ {d}) /\ Cardinality(Below(X, d)) \in Nat
    BY <2>1, <2>2, FS_Subset, FS_CardinalityType
  <2>4. plan.sketchSize \in Nat
    BY PlanIs
  <2>5. QED
    BY <2>2, <2>3, <2>4
<1>2. QED
  BY <1>1, SmallestAre

LEMMA SmallestTwice ==
  ASSUME plan \in Plans, NEW A \in SUBSET Nat, NEW B \in SUBSET Nat, IsFiniteSet(A), IsFiniteSet(B)
  PROVE  Smallest(Smallest(A) \cup B) = Smallest(A \cup B)
<1> DEFINE C == Smallest(A)
           D == C \cup B
           E == A \cup B
           K == plan.sketchSize
<1>1. C \subseteq A /\ D \subseteq E /\ D \in SUBSET Nat /\ E \in SUBSET Nat
  BY SmallestAre
<1>2. \A d \in A : d \in C <=> Cardinality(Below(A, d)) < K
  BY SmallestAre
<1>3. /\ \A d \in D : d \in Smallest(D) <=> Cardinality(Below(D, d)) < K
      /\ \A d \in E : d \in Smallest(E) <=> Cardinality(Below(E, d)) < K
      /\ Smallest(D) \subseteq D /\ Smallest(E) \subseteq E
  BY <1>1, SmallestAre
<1>4. IsFiniteSet(E) /\ K \in Nat
  BY FS_Union, PlanIs
<1> HIDE DEF C, D, K
<1>5. ASSUME NEW d
      PROVE  /\ Cardinality(Below(A, d)) <= Cardinality(Below(E, d))
             /\ Cardinality(Below(D, d)) <= Cardinality(Below(E, d))
             /\ Cardinality(Below(A, d)) \in Nat /\ Cardinality(Below(D, d)) \in Nat /\ Cardinality(Below(E, d)) \in Nat
             /\ IsFiniteSet(Below(D, d))
  <2>1. Below(A, d) \subseteq Below(E, d) /\ Below(D, d) \subseteq Below(E, d) /\ Below(E, d) \subseteq E
    BY <1>1 DEF Below
  <2>2. IsFiniteSet(Below(E, d))
    BY <1>4, <2>1, FS_Subset
  <2>3. QED
    BY <2>1, <2>2, FS_Subset, FS_CardinalityType
<1>6. ASSUME NEW d \in Smallest(E) PROVE d \in Smallest(D)
  <2>1. d \in E /\ Cardinality(Below(E, d)) < K
    BY <1>3
  <2>2. Cardinality(Below(A, d)) < K /\ Cardinality(Below(D, d)) < K
    BY <1>4, <1>5, <2>1
  <2>3. d \in D
    BY <1>2, <2>1, <2>2 DEF D, E
  <2>4. QED
    BY <1>3, <2>2, <2>3
<1>7. ASSUME NEW d \in Smallest(D) PROVE d \in Smallest(E)
  <2>1. d \in D /\ Cardinality(Below(D, d)) < K /\ d \in Nat
    BY <1>1, <1>3
  <2> DEFINE L == {e \in A : e \notin D /\ e < d}
  <2>2. CASE L = {}
    <3>1. Below(E, d) = Below(D, d)
      BY <1>1, <2>2 DEF Below, D, E
    <3>2. QED
      BY <1>1, <1>3, <2>1, <3>1
  <2>3. CASE L # {}
    <3>1. L \in SUBSET Nat
      OBVIOUS
    <3>2. PICK e \in L : \A k \in L : e <= k
      <4> HIDE DEF L
      <4>1. QED
        BY <2>3, <3>1, LeastNumber
    <3>3. e \in A /\ e \notin D /\ e < d /\ e \notin C /\ e \in Nat
      BY DEF D
    <3>4. ~(Cardinality(Below(A, e)) < K)
      BY <1>2, <3>3
    <3>5. Below(A, e) \subseteq Below(D, d)
      <4>1. ASSUME NEW x \in A, x < e PROVE x \in D /\ x < d
        <5>1. x \in Nat /\ x < d
          BY <2>1, <3>3, <4>1
        <5>2. x \notin L
          BY <3>2, <3>3, <4>1, <5>1
        <5>3. QED
          BY <4>1, <5>1, <5>2
      <4>2. QED
        BY <4>1 DEF Below
    <3>6. Cardinality(Below(A, e)) <= Cardinality(Below(D, d))
      BY <1>5, <3>5, FS_Subset
    <3>7. Cardinality(Below(A, e)) \in Nat /\ Cardinality(Below(D, d)) \in Nat
      BY <1>5
    <3>8. QED
      BY <1>4, <2>1, <3>4, <3>6, <3>7
  <2>4. QED
    BY <2>2, <2>3
<1>8. Smallest(D) = Smallest(E)
  BY <1>6, <1>7
<1>9. QED
  BY <1>8 DEF C, D

-----------------------------------------------------------------------------
(* Statistics of rows xs by their values.                                  *)
Valued(values, xs) == IsFiniteSet(xs) /\ \A x \in xs : values[x] \in Values
ValuesOf(values, xs) == {values[x] : x \in xs}

LEMMA ValuesAre ==
  ASSUME NEW values, NEW xs, Valued(values, xs)
  PROVE  /\ ValuesOf(values, xs) \in SUBSET Values /\ ValuesOf(values, xs) \in SUBSET Nat
         /\ IsFiniteSet(ValuesOf(values, xs)) /\ Cardinality(ValuesOf(values, xs)) \in Nat
<1>1. ValuesOf(values, xs) \in SUBSET Values /\ Values \in SUBSET Nat
  BY DEF ValuesOf, Valued, Values
<1>2. IsFiniteSet(ValuesOf(values, xs))
  BY ImageIsFinite DEF ValuesOf, Valued
<1>3. QED
  BY <1>1, <1>2, FS_CardinalityType

LEMMA StatsAre ==
  ASSUME NEW values, NEW xs
  PROVE  /\ StatsOf(values, xs).sampled = Cardinality(xs)
         /\ StatsOf(values, xs).counts = [v \in Values |-> Cardinality({x \in xs : values[x] = v})]
         /\ StatsOf(values, xs).sketch = Smallest(ValuesOf(values, xs))
         /\ StatsOf(values, xs).saturated = (Cardinality(ValuesOf(values, xs)) > plan.sketchSize)
         /\ StatsOf(values, xs) =
              [sampled |-> Cardinality(xs), counts |-> [v \in Values |-> Cardinality({x \in xs : values[x] = v})],
               sketch |-> Smallest(ValuesOf(values, xs)),
               saturated |-> Cardinality(ValuesOf(values, xs)) > plan.sketchSize]
BY DEF StatsOf, ValuesOf

LEMMA StatsOfNone ==
  ASSUME plan \in Plans, NEW values
  PROVE  StatsOf(values, {}) = EmptyStats
<1>1. Cardinality({}) = 0 /\ plan.sketchSize \in Nat
  BY FS_EmptySet, PlanIs
<1>2. ValuesOf(values, {}) = {} /\ Smallest({}) = {} /\ \A v : {x \in {} : values[x] = v} = {}
  BY DEF ValuesOf, Smallest
<1>3. (Cardinality(ValuesOf(values, {})) > plan.sketchSize) = FALSE
  BY <1>1, <1>2
<1>4. [v \in Values |-> Cardinality({x \in {} : values[x] = v})] = [v \in Values |-> 0]
  BY <1>1, <1>2
<1>5. StatsOf(values, {}) =
              [sampled |-> Cardinality({}), counts |-> [v \in Values |-> Cardinality({x \in {} : values[x] = v})],
               sketch |-> Smallest(ValuesOf(values, {})),
               saturated |-> Cardinality(ValuesOf(values, {})) > plan.sketchSize]
  BY StatsAre
<1>6. QED
  BY <1>1, <1>2, <1>3, <1>4, <1>5 DEF EmptyStats

LEMMA StatsAgree ==
  ASSUME NEW f, NEW g, NEW xs, \A x \in xs : f[x] = g[x]
  PROVE  StatsOf(f, xs) = StatsOf(g, xs)
<1>1. {f[x] : x \in xs} = {g[x] : x \in xs}
  OBVIOUS
<1>2. \A v : {x \in xs : f[x] = v} = {x \in xs : g[x] = v}
  OBVIOUS
<1>3. QED
  BY <1>1, <1>2 DEF StatsOf

LEMMA ObserveAdds ==
  ASSUME plan \in Plans, NEW values, NEW xs, Valued(values, xs), NEW x, x \notin xs, values[x] \in Values
  PROVE  Observe(StatsOf(values, xs), values[x]) = StatsOf(values, xs \cup {x})
<1> DEFINE X == ValuesOf(values, xs)
           w == values[x]
           K == plan.sketchSize
           ys == xs \cup {x}
           Y == ValuesOf(values, ys)
<1>1. X \in SUBSET Nat /\ IsFiniteSet(X) /\ Cardinality(X) \in Nat /\ w \in Nat /\ Y = X \cup {w} /\ K \in Nat
  <2>1. X \in SUBSET Nat /\ IsFiniteSet(X) /\ Cardinality(X) \in Nat
    BY ValuesAre
  <2>2. Y = X \cup {w}
    BY DEF ValuesOf
  <2>3. w \in Nat /\ K \in Nat
    BY PlanIs DEF Values
  <2>4. QED
    BY <2>1, <2>2, <2>3
<1>2. IsFiniteSet(xs) /\ Cardinality(xs) \in Nat /\ Cardinality(ys) = Cardinality(xs) + 1
  BY FS_CardinalityType, FS_AddElement DEF Valued
<1>3. ASSUME NEW v \in Values
      PROVE  Cardinality({y \in ys : values[y] = v})
               = IF v = w THEN Cardinality({y \in xs : values[y] = v}) + 1 ELSE Cardinality({y \in xs : values[y] = v})
  <2> DEFINE F == {y \in xs : values[y] = v}
  <2>1. IsFiniteSet(F) /\ x \notin F
    BY <1>2, FS_Subset
  <2>2. CASE v = w
    <3>1. {y \in ys : values[y] = v} = F \cup {x}
      BY <2>2
    <3>2. QED
      BY <2>1, <2>2, <3>1, FS_AddElement
  <2>3. CASE v # w
    <3>1. {y \in ys : values[y] = v} = F
      BY <2>3
    <3>2. QED
      BY <2>3, <3>1
  <2>4. QED
    BY <2>2, <2>3
<1>4. Smallest(Smallest(X) \cup {w}) = Smallest(Y)
  <2>1. {w} \in SUBSET Nat /\ IsFiniteSet({w})
    BY <1>1, FS_Singleton
  <2> HIDE DEF X, Y, w
  <2>2. QED
    BY <1>1, <2>1, SmallestTwice
<1>5. (Cardinality(Y) > K) = (Cardinality(X) > K \/ (w \notin Smallest(X) /\ Cardinality(Smallest(X)) >= K))
  <2>1. w \in X => Cardinality(Y) = Cardinality(X)
    BY <1>1
  <2>2. w \notin X => Cardinality(Y) = Cardinality(X) + 1
    BY <1>1, FS_AddElement
  <2>3. CASE Cardinality(X) <= K
    <3>1. Smallest(X) = X
      BY <1>1, <2>3, SmallestOfFew
    <3>2. QED
      BY <1>1, <2>1, <2>2, <2>3, <3>1
  <2>4. CASE Cardinality(X) > K
    BY <1>1, <2>1, <2>2, <2>4
  <2>5. QED
    BY <1>1, <2>3, <2>4
<1> DEFINE s == StatsOf(values, xs)
           cnt == [v \in Values |-> Cardinality({y \in xs : values[y] = v})]
<1>6. /\ s.sampled = Cardinality(xs) /\ s.counts = cnt /\ s.sketch = Smallest(X)
      /\ s.saturated = (Cardinality(X) > K)
  BY StatsAre
<1>7. [s.counts EXCEPT ![w] = @ + 1] = [v \in Values |-> Cardinality({y \in ys : values[y] = v})]
  <2> DEFINE N(v) == Cardinality({y \in ys : values[y] = v})
  <2>1. w \in Values
    OBVIOUS
  <2>2. \A v \in Values : N(v) = IF v = w THEN cnt[w] + 1 ELSE cnt[v]
    BY <1>3
  <2>3. s.counts = cnt
    BY <1>6
  <2>4. DOMAIN cnt = Values
    OBVIOUS
  <2> HIDE DEF s, cnt, N, w
  <2>5. [cnt EXCEPT ![w] = cnt[w] + 1] = [v \in Values |-> N(v)]
    BY <2>1, <2>2, <2>4
  <2>6. [s.counts EXCEPT ![w] = s.counts[w] + 1] = [v \in Values |-> N(v)]
    BY <2>3, <2>5
  <2>7. QED
    BY <2>6 DEF N
<1>8. Observe(s, w) = [sampled |-> s.sampled + 1, counts |-> [s.counts EXCEPT ![w] = @ + 1],
                       sketch |-> Smallest(s.sketch \cup {w}),
                       saturated |-> s.saturated \/ (w \notin s.sketch /\ Cardinality(s.sketch) >= K)]
  BY DEF Observe
<1>9. StatsOf(values, ys) = [sampled |-> Cardinality(ys), counts |-> [v \in Values |-> Cardinality({y \in ys : values[y] = v})],
                             sketch |-> Smallest(Y), saturated |-> Cardinality(Y) > K]
  BY StatsAre
<1> HIDE DEF s, X, Y, K, ys, w
<1>10. (s.saturated \/ (w \notin s.sketch /\ Cardinality(s.sketch) >= K)) = (Cardinality(Y) > K)
  BY <1>5, <1>6
<1>11. Observe(s, w) = StatsOf(values, ys)
  BY <1>2, <1>4, <1>6, <1>7, <1>8, <1>9, <1>10
<1>12. QED
  BY <1>11 DEF s, w, ys

LEMMA MergeAdds ==
  ASSUME plan \in Plans, NEW values, NEW xs, NEW ys, Valued(values, xs), Valued(values, ys), xs \cap ys = {}
  PROVE  MergeStats(StatsOf(values, xs), StatsOf(values, ys)) = StatsOf(values, xs \cup ys)
<1> DEFINE X == ValuesOf(values, xs)
           Y == ValuesOf(values, ys)
           zs == xs \cup ys
           Z == ValuesOf(values, zs)
           K == plan.sketchSize
           N(v, as) == Cardinality({x \in as : values[x] = v})
<1>1. X \in SUBSET Nat /\ IsFiniteSet(X) /\ Cardinality(X) \in Nat
  BY ValuesAre
<1>2. Y \in SUBSET Nat /\ IsFiniteSet(Y) /\ Cardinality(Y) \in Nat
  BY ValuesAre
<1>3. Z = X \cup Y /\ K \in Nat
  BY PlanIs DEF ValuesOf
<1>4. IsFiniteSet(xs) /\ IsFiniteSet(ys)
  BY DEF Valued
<1>5. ASSUME NEW as \in SUBSET xs, NEW bs \in SUBSET ys
      PROVE  Cardinality(as \cup bs) = Cardinality(as) + Cardinality(bs)
  <2>1. IsFiniteSet(as) /\ IsFiniteSet(bs) /\ as \cap bs = {}
    BY <1>4, FS_Subset
  <2>2. Cardinality(as \cup bs) = Cardinality(as) + Cardinality(bs) - Cardinality(as \cap bs)
    BY <2>1, FS_Union
  <2>3. Cardinality(as \cap bs) = 0 /\ Cardinality(as) \in Nat /\ Cardinality(bs) \in Nat
    BY <2>1, FS_EmptySet, FS_CardinalityType
  <2> DEFINE m == Cardinality(as)
             n == Cardinality(bs)
             c == Cardinality(as \cap bs)
  <2>4. Cardinality(as \cup bs) = m + n - c /\ c = 0 /\ m \in Nat /\ n \in Nat
    BY <2>2, <2>3
  <2> HIDE DEF m, n, c
  <2>5. Cardinality(as \cup bs) = m + n
    BY <2>4
  <2>6. QED
    BY <2>5 DEF m, n
<1>6. ASSUME NEW v \in Values PROVE N(v, zs) = N(v, xs) + N(v, ys)
  <2>1. {x \in zs : values[x] = v} = {x \in xs : values[x] = v} \cup {x \in ys : values[x] = v}
    OBVIOUS
  <2>2. QED
    BY <1>5, <2>1
<1>7. Smallest(Smallest(X) \cup Smallest(Y)) = Smallest(Z)
  <2>1. Smallest(Y) \in SUBSET Nat /\ IsFiniteSet(Smallest(Y))
    BY <1>2, SmallestAre, FS_Subset
  <2>2. Smallest(Smallest(X) \cup Smallest(Y)) = Smallest(X \cup Smallest(Y))
    BY <1>1, <2>1, SmallestTwice
  <2>3. Smallest(Smallest(Y) \cup X) = Smallest(Y \cup X)
    BY <1>1, <1>2, SmallestTwice
  <2>4. X \cup Smallest(Y) = Smallest(Y) \cup X /\ Y \cup X = Z
    BY <1>3
  <2>5. QED
    BY <2>2, <2>3, <2>4
<1>8. (Cardinality(Z) > K)
        = (Cardinality(X) > K \/ Cardinality(Y) > K \/ Cardinality(Smallest(X) \cup Smallest(Y)) > K)
  <2>1. IsFiniteSet(Z)
    BY <1>1, <1>2, <1>3, FS_Union
  <2>2. X \subseteq Z /\ Y \subseteq Z /\ Smallest(X) \cup Smallest(Y) \subseteq Z
    BY <1>1, <1>2, <1>3, SmallestAre
  <2>3. /\ Cardinality(X) <= Cardinality(Z) /\ Cardinality(Y) <= Cardinality(Z)
        /\ Cardinality(Smallest(X) \cup Smallest(Y)) <= Cardinality(Z)
        /\ Cardinality(Z) \in Nat
    BY <2>1, <2>2, FS_Subset, FS_CardinalityType
  <2>4. Cardinality(Smallest(X) \cup Smallest(Y)) \in Nat
    BY <2>1, <2>2, FS_Subset, FS_CardinalityType
  <2>5. CASE Cardinality(X) <= K /\ Cardinality(Y) <= K
    <3>1. Smallest(X) = X /\ Smallest(Y) = Y
      BY <1>1, <1>2, <2>5, SmallestOfFew
    <3>2. QED
      BY <1>1, <1>2, <1>3, <2>5, <3>1
  <2>6. QED
    BY <1>1, <1>2, <1>3, <2>3, <2>4, <2>5
<1> DEFINE s == StatsOf(values, xs)
           t == StatsOf(values, ys)
<1>9. /\ s.sampled = Cardinality(xs) /\ s.counts = [v \in Values |-> N(v, xs)] /\ s.sketch = Smallest(X)
      /\ s.saturated = (Cardinality(X) > K)
  BY StatsAre
<1>10. /\ t.sampled = Cardinality(ys) /\ t.counts = [v \in Values |-> N(v, ys)] /\ t.sketch = Smallest(Y)
       /\ t.saturated = (Cardinality(Y) > K)
  BY StatsAre
<1>11. StatsOf(values, zs) = [sampled |-> Cardinality(zs), counts |-> [v \in Values |-> N(v, zs)],
                              sketch |-> Smallest(Z), saturated |-> Cardinality(Z) > K]
  BY StatsAre
<1>12. MergeStats(s, t) = [sampled |-> s.sampled + t.sampled, counts |-> [v \in Values |-> s.counts[v] + t.counts[v]],
                           sketch |-> Smallest(s.sketch \cup t.sketch),
                           saturated |-> s.saturated \/ t.saturated \/ Cardinality(s.sketch \cup t.sketch) > K]
  BY DEF MergeStats
<1>13. Cardinality(zs) = Cardinality(xs) + Cardinality(ys)
  BY <1>5
<1> HIDE DEF s, t, X, Y, Z, K, zs, N
<1>14. [v \in Values |-> s.counts[v] + t.counts[v]] = [v \in Values |-> N(v, zs)]
  BY <1>6, <1>9, <1>10
<1>15. (s.saturated \/ t.saturated \/ Cardinality(s.sketch \cup t.sketch) > K) = (Cardinality(Z) > K)
  BY <1>8, <1>9, <1>10
<1>16. MergeStats(s, t) = StatsOf(values, zs)
  BY <1>7, <1>9, <1>10, <1>11, <1>12, <1>13, <1>14, <1>15
<1>17. QED
  BY <1>16 DEF s, t, zs

(* A fold over a sequence is given by its values on shorter ones.          *)
LEMMA FoldsAgree ==
  ASSUME NEW N \in Nat, NEW g, NEW w, g[{}] = w[{}],
         \A s \in SUBSET (1 .. N) : s # {} /\ g[s \ {Max(s)}] = w[s \ {Max(s)}] => g[s] = w[s]
  PROVE  g[1 .. N] = w[1 .. N]
<1> DEFINE S == 1 .. N
           T == {s \in SUBSET S : g[s] = w[s]}
<1>1. ASSUME NEW A \in SUBSET S, \A B \in SUBSET A : B # A => B \in T PROVE A \in T
  <2>1. CASE A # {}
    <3>1. Max(A) \in A
      BY <2>1, GreatestIsMember
    <3>2. A \ {Max(A)} \in T
      BY <1>1, <3>1
    <3>3. QED
      BY <2>1, <3>2
  <2>2. QED
    BY <2>1
<1>2. T \in SUBSET SUBSET S /\ IsFiniteSet(S) /\ S \in SUBSET S
  BY FS_Interval
<1> HIDE DEF T, S
<1>3. T = SUBSET S
  BY <1>1, <1>2, SubsetInduction
<1>4. g[S] = w[S]
  BY <1>2, <1>3 DEF T
<1>5. QED
  BY <1>4 DEF S

(* observe_block adds the sampled rows of a block to the sample.           *)
ObserveRow(stats, block, start, i) == IF i \in SampledRows(start) THEN Observe(stats, block[i].value) ELSE stats
ObservedOver(g, stats, block, start) ==
  LET seq == [i \in 1 .. plan.rowBlock |-> i] IN
  g = [s \in SUBSET DOMAIN seq |->
        IF s = {} THEN stats ELSE ObserveRow(g[s \ {Max(s)}], block, start, seq[Max(s)])]

LEMMA ObserveFoldIsChosen ==
  ASSUME NEW stats, NEW block, NEW start
  PROVE  LET seq == [i \in 1 .. plan.rowBlock |-> i] IN
         ObserveBlock(stats, block, start) = (CHOOSE g : ObservedOver(g, stats, block, start))[DOMAIN seq]
BY DEF ObserveBlock, FoldLeft, MapThenFoldSet, ObservedOver, ObserveRow

LEMMA BlockObserved ==
  ASSUME plan \in Plans, NEW values, NEW xs, Valued(values, xs), NEW block, NEW start, NEW at,
         \A i \in 1 .. plan.rowBlock : at[i] \notin xs /\ values[at[i]] = block[i].value /\ block[i].value \in Values,
         \A i, j \in 1 .. plan.rowBlock : at[i] = at[j] => i = j
  PROVE  ObserveBlock(StatsOf(values, xs), block, start) = StatsOf(values, xs \cup {at[i] : i \in SampledRows(start)})
<1> DEFINE N == plan.rowBlock
           S == 1 .. N
           seq == [i \in S |-> i]
           R == SampledRows(start)
           stats == StatsOf(values, xs)
           Seen(s) == xs \cup {at[i] : i \in R \cap s}
           w == [s \in SUBSET S |-> StatsOf(values, Seen(s))]
<1>1. N \in Nat /\ R \subseteq S /\ IsFiniteSet(S)
  <2>1. N \in Nat /\ R \subseteq S
    BY PlanIs DEF SampledRows
  <2>2. N \in Int /\ 1 \in Int
    BY <2>1
  <2> HIDE DEF N
  <2>3. IsFiniteSet(S)
    BY <2>2, FS_Interval
  <2>4. QED
    BY <2>1, <2>3
<1>2. DOMAIN seq = S /\ \A i \in S : seq[i] = i
  OBVIOUS
<1>3. Seen({}) = xs /\ w[{}] = stats
  <2>1. Seen({}) = xs
    OBVIOUS
  <2>2. {} \in SUBSET S
    OBVIOUS
  <2>3. QED
    BY <2>1, <2>2
<1>4. ASSUME NEW s \in SUBSET S, s # {}
      PROVE  /\ Max(s) \in s /\ s \ {Max(s)} \in SUBSET S
             /\ w[s] = ObserveRow(w[s \ {Max(s)}], block, start, Max(s))
  <2>1. Max(s) \in s
    BY <1>1, <1>4, GreatestIsMember
  <2> DEFINE m == Max(s)
             c == s \ {m}
  <2>2. m \in s /\ m \in S /\ c \in SUBSET S /\ s = c \cup {m} /\ m \notin c
    BY <2>1
  <2> HIDE DEF m, c
  <2>3. w[s] = StatsOf(values, Seen(s)) /\ w[c] = StatsOf(values, Seen(c))
    BY <2>2
  <2>4. CASE m \notin R
    <3>1. R \cap s = R \cap c
      BY <2>2, <2>4
    <3>2. Seen(s) = Seen(c)
      BY <3>1
    <3>3. w[s] = ObserveRow(w[c], block, start, m)
      BY <2>3, <2>4, <3>2 DEF ObserveRow
    <3>4. QED
      BY <2>1, <2>2, <3>3 DEF m, c
  <2>5. CASE m \in R
    <3>1. R \cap s = (R \cap c) \cup {m}
      BY <2>2, <2>5
    <3>2. Seen(s) = Seen(c) \cup {at[m]}
      BY <3>1
    <3>3. at[m] \notin Seen(c)
      BY <2>2
    <3>4. Valued(values, Seen(c))
      <4>1. IsFiniteSet(R \cap c)
        BY <1>1, FS_Subset
      <4>2. IsFiniteSet({at[i] : i \in R \cap c})
        <5> DEFINE U == R \cap c
        <5>1. IsFiniteSet(U)
          BY <4>1
        <5> HIDE DEF U
        <5>2. IsFiniteSet({at[i] : i \in U})
          BY <5>1, ImageIsFinite
        <5>3. QED
          BY <5>2 DEF U
      <4>3. \A i \in R \cap c : values[at[i]] \in Values
        BY <1>1
      <4>4. QED
        BY <4>2, <4>3, FS_Union DEF Valued
    <3>5. values[at[m]] = block[m].value /\ block[m].value \in Values
      BY <2>2
    <3> DEFINE x == at[m]
               ys == Seen(c)
    <3>6. x \notin ys /\ Valued(values, ys) /\ values[x] \in Values /\ Seen(s) = ys \cup {x}
      BY <3>2, <3>3, <3>4, <3>5
    <3> HIDE DEF x, ys, Seen, w
    <3>7. Observe(StatsOf(values, ys), values[x]) = StatsOf(values, ys \cup {x})
      BY <3>6, ObserveAdds
    <3>8. Observe(w[c], block[m].value) = w[s]
      BY <2>3, <3>5, <3>6, <3>7 DEF x, ys
    <3>9. w[s] = ObserveRow(w[c], block, start, m)
      BY <2>5, <3>8 DEF ObserveRow
    <3>10. QED
      BY <2>1, <2>2, <3>9 DEF m, c
  <2>6. QED
    BY <2>4, <2>5
<1> HIDE DEF Seen
<1>5. \A s \in SUBSET S : w[s] = IF s = {} THEN stats ELSE ObserveRow(w[s \ {Max(s)}], block, start, seq[Max(s)])
  <2> TAKE s \in SUBSET S
  <2>1. CASE s = {}
    BY <1>3, <2>1
  <2>2. CASE s # {}
    <3>1. Max(s) \in S
      BY <1>4, <2>2
    <3> HIDE DEF w
    <3>2. QED
      BY <1>2, <1>4, <2>2, <3>1
  <2>3. QED
    BY <2>1, <2>2
<1>6. w = [s \in SUBSET S |-> w[s]]
  OBVIOUS
<1> HIDE DEF w, stats
<1>7. w = [s \in SUBSET S |-> IF s = {} THEN stats ELSE ObserveRow(w[s \ {Max(s)}], block, start, seq[Max(s)])]
  BY <1>5, <1>6
<1>8. ObservedOver(w, stats, block, start)
  BY <1>2, <1>7 DEF ObservedOver
<1>9. PICK g : ObservedOver(g, stats, block, start) /\ ObserveBlock(stats, block, start) = g[S]
  BY <1>2, <1>8, ObserveFoldIsChosen
<1>10. \A s \in SUBSET S : g[s] = IF s = {} THEN stats ELSE ObserveRow(g[s \ {Max(s)}], block, start, seq[Max(s)])
  BY <1>2, <1>9 DEF ObservedOver
<1>11. g[{}] = w[{}] /\ \A s \in SUBSET S : s # {} /\ g[s \ {Max(s)}] = w[s \ {Max(s)}] => g[s] = w[s]
  <2>1. {} \in SUBSET S
    OBVIOUS
  <2>2. g[{}] = stats /\ w[{}] = stats
    BY <1>5, <1>10, <2>1
  <2> HIDE DEF S, seq
  <2>3. QED
    BY <1>5, <1>10, <2>2
<1>12. g[S] = w[S]
  BY <1>1, <1>11, FoldsAgree
<1>13. w[S] = StatsOf(values, Seen(S)) /\ R \cap S = R
  BY <1>1 DEF w
<1>14. Seen(S) = xs \cup {at[i] : i \in R}
  BY <1>13 DEF Seen
<1>15. QED
  BY <1>9, <1>12, <1>13, <1>14 DEF stats

(* The rows of a block at multiples of the stride.                         *)
LEMMA SampledAre ==
  ASSUME plan \in Plans, NEW start \in Nat, NEW i \in 1 .. plan.rowBlock
  PROVE  i \in SampledRows(start) <=> (start + i - 1) % plan.stride = 0
<1> DEFINE m == plan.stride
           o == Offset(start)
           q == (-start) \div m
<1>1. m \in Nat \ {0} /\ i \in Nat \ {0} /\ plan.rowBlock \in Nat
  BY PlanIs
<1> HIDE DEF m
<1>2. -start = m * q + o /\ q \in Int /\ o \in Nat /\ o < m
  <2> DEFINE n == -start
  <2>1. n \in Int
    OBVIOUS
  <2> HIDE DEF n
  <2>2. n = m * (n \div m) + (n % m) /\ n \div m \in Int /\ n % m \in Nat /\ n % m < m
    BY ONLY <1>1, <2>1
  <2>3. QED
    BY <2>2 DEF n, Offset, m
<1> HIDE DEF o, q
<1> DEFINE d == i - 1 - o
           e == start + i - 1
           u == d \div m
           c == d % m
<1>3. d \in Int /\ e \in Int /\ d = e + m * q
  BY <1>1, <1>2
<1>4. i \in SampledRows(start) <=> d >= 0 /\ c = 0
  BY <1>1, <1>2 DEF SampledRows, o, m
<1> HIDE DEF d, e
<1>5. d = m * u + c /\ u \in Int /\ c \in Nat /\ c < m
  BY ONLY <1>1, <1>3
<1> HIDE DEF u, c
<1>6. e % m = c
  <2> DEFINE v == u - q
  <2>1. v \in Int
    BY <1>2, <1>5
  <2>2. v * m = m * u - m * q
    BY ONLY <1>1, <1>2, <1>5
  <2>3. m * u \in Int /\ m * q \in Int
    BY <1>1, <1>2, <1>5
  <2>4. e = v * m + c
    BY ONLY <1>3, <1>5, <2>2, <2>3
  <2> HIDE DEF v
  <2>5. v \in Int /\ e \in Int /\ e = v * m + c /\ c \in Nat /\ c < m /\ m \in Nat \ {0}
    BY <1>1, <1>3, <1>5, <2>1, <2>4
  <2>6. QED
    BY <2>5, DividedBy
<1>7. c = 0 => d >= 0
  <2>1. d > -m
    BY <1>1, <1>2 DEF d
  <2> DEFINE z == m * u
  <2>2. z \in Int /\ (u >= 0 => z >= 0) /\ (u <= -1 => z <= -m)
    BY ONLY <1>1, <1>5
  <2>3. d = z + c
    BY <1>5
  <2> HIDE DEF z
  <2>4. QED
    BY <1>1, <1>3, <1>5, <2>1, <2>2, <2>3
<1>8. QED
  BY <1>4, <1>6, <1>7 DEF e, m

-----------------------------------------------------------------------------
-----------------------------------------------------------------------------
(* The truth of some batches.                                              *)
TruthType == [Keys -> [rows : Nat, sum : 0 .. plan.modulus - 1, encoded : Nat]]
Truths(truths, bs) == IsFiniteSet(bs) /\ \A b \in bs : truths[b] \in TruthType

RowsBy(truths, bs, k)    == [b \in bs |-> truths[b][k].rows]
SumBy(truths, bs, k)     == [b \in bs |-> truths[b][k].sum]
EncodedBy(truths, bs, k) == [b \in bs |-> truths[b][k].encoded]

LEMMA TruthIs ==
  ASSUME plan \in Plans, NEW truths, NEW bs, Truths(truths, bs), NEW cs \in SUBSET bs, NEW k \in Keys
  PROVE  /\ TruthOf(truths, cs)[k].rows = SumFunctionOnSet(RowsBy(truths, bs, k), cs)
         /\ TruthOf(truths, cs)[k].sum = SumFunctionOnSet(SumBy(truths, bs, k), cs) % plan.modulus
         /\ TruthOf(truths, cs)[k].encoded = SumFunctionOnSet(EncodedBy(truths, bs, k), cs)
         /\ \A b \in bs : /\ RowsBy(truths, bs, k)[b] \in Nat /\ SumBy(truths, bs, k)[b] \in Nat
                          /\ EncodedBy(truths, bs, k)[b] \in Nat
         /\ SumFunctionOnSet(RowsBy(truths, bs, k), cs) \in Nat
         /\ SumFunctionOnSet(SumBy(truths, bs, k), cs) \in Nat
         /\ SumFunctionOnSet(EncodedBy(truths, bs, k), cs) \in Nat
<1> DEFINE f == RowsBy(truths, bs, k)
           g == SumBy(truths, bs, k)
           h == EncodedBy(truths, bs, k)
           f1 == [b \in cs |-> truths[b][k].rows]
           g1 == [b \in cs |-> truths[b][k].sum]
           h1 == [b \in cs |-> truths[b][k].encoded]
<1>1. IsFiniteSet(cs)
  BY FS_Subset DEF Truths
<1>2. \A b \in cs : f1[b] = f[b] /\ g1[b] = g[b] /\ h1[b] = h[b]
  BY DEF RowsBy, SumBy, EncodedBy
<1>3. \A b \in bs : f[b] \in Nat /\ g[b] \in Nat /\ h[b] \in Nat
  <2> TAKE b \in bs
  <2>1. truths[b][k] \in [rows : Nat, sum : 0 .. plan.modulus - 1, encoded : Nat]
    BY DEF Truths, TruthType
  <2>2. plan.modulus \in Nat \ {0}
    BY PlanIs
  <2>3. QED
    BY <2>1, <2>2 DEF RowsBy, SumBy, EncodedBy
<1>4. DOMAIN f1 = cs /\ DOMAIN g1 = cs /\ DOMAIN h1 = cs
  OBVIOUS
<1>5. /\ TruthOf(truths, cs)[k].rows = SumFunctionOnSet(f1, cs)
      /\ TruthOf(truths, cs)[k].sum = SumFunctionOnSet(g1, cs) % plan.modulus
      /\ TruthOf(truths, cs)[k].encoded = SumFunctionOnSet(h1, cs)
  BY <1>4 DEF TruthOf, SumFunction
<1> HIDE DEF f, g, h, f1, g1, h1
<1>6. SumFunctionOnSet(f1, cs) = SumFunctionOnSet(f, cs)
  BY <1>1, <1>2, SumAgrees
<1>7. SumFunctionOnSet(g1, cs) = SumFunctionOnSet(g, cs)
  BY <1>1, <1>2, SumAgrees
<1>8. SumFunctionOnSet(h1, cs) = SumFunctionOnSet(h, cs)
  BY <1>1, <1>2, SumAgrees
<1>9. SumFunctionOnSet(f, cs) \in Nat /\ SumFunctionOnSet(g, cs) \in Nat /\ SumFunctionOnSet(h, cs) \in Nat
  BY <1>1, <1>3, SumIsNat
<1>10. QED
  BY <1>3, <1>5, <1>6, <1>7, <1>8, <1>9 DEF f, g, h

LEMMA TruthIsRecord ==
  ASSUME NEW truths, NEW bs
  PROVE  TruthOf(truths, bs) =
           [k \in Keys |-> [rows    |-> TruthOf(truths, bs)[k].rows, sum |-> TruthOf(truths, bs)[k].sum,
                            encoded |-> TruthOf(truths, bs)[k].encoded]]
BY DEF TruthOf

LEMMA TruthAgrees ==
  ASSUME NEW f, NEW g, NEW bs, \A b \in bs : f[b] = g[b]
  PROVE  TruthOf(f, bs) = TruthOf(g, bs)
<1>1. \A k \in Keys : /\ [b \in bs |-> f[b][k].rows] = [b \in bs |-> g[b][k].rows]
                      /\ [b \in bs |-> f[b][k].sum] = [b \in bs |-> g[b][k].sum]
                      /\ [b \in bs |-> f[b][k].encoded] = [b \in bs |-> g[b][k].encoded]
  OBVIOUS
<1>2. QED
  BY <1>1 DEF TruthOf

LEMMA TruthOfNone ==
  ASSUME plan \in Plans, NEW truths
  PROVE  TruthOf(truths, {}) = NoTruth
<1>1. Truths(truths, {}) /\ {} \in SUBSET {}
  BY FS_EmptySet DEF Truths
<1>2. plan.modulus \in Nat \ {0} /\ 0 % plan.modulus = 0
  <2>1. plan.modulus \in Nat \ {0}
    BY PlanIs
  <2>2. QED
    BY ONLY <2>1
<1>3. ASSUME NEW k \in Keys
      PROVE  /\ TruthOf(truths, {})[k].rows = 0 /\ TruthOf(truths, {})[k].sum = 0
             /\ TruthOf(truths, {})[k].encoded = 0
  <2>1. \A f : SumFunctionOnSet(f, {}) = 0
    BY SumOfNone
  <2>2. QED
    BY <1>1, <1>2, <2>1, TruthIs
<1>4. QED
  BY <1>3, TruthIsRecord DEF NoTruth

LEMMA TruthOfOne ==
  ASSUME plan \in Plans, NEW truths, NEW b, truths[b] \in TruthType
  PROVE  TruthOf(truths, {b}) = truths[b]
<1>1. Truths(truths, {b}) /\ {b} \in SUBSET {b} /\ IsFiniteSet({b})
  BY FS_Singleton DEF Truths
<1>2. plan.modulus \in Nat \ {0}
  BY PlanIs
<1>3. ASSUME NEW f, f[b] \in Nat PROVE SumFunctionOnSet(f, {b}) = f[b]
  <2>1. {b} \ {b} = {} /\ \A y \in {b} : f[y] \in Nat
    BY <1>3
  <2>2. SumFunctionOnSet(f, {b}) = f[b] + SumFunctionOnSet(f, {b} \ {b})
    BY <1>1, <2>1, SumPick
  <2>3. SumFunctionOnSet(f, {b}) = f[b] + 0
    BY <2>1, <2>2, SumOfNone
  <2>4. QED
    BY <1>3, <2>3
<1>4. ASSUME NEW k \in Keys
      PROVE  /\ TruthOf(truths, {b})[k].rows = truths[b][k].rows
             /\ TruthOf(truths, {b})[k].sum = truths[b][k].sum
             /\ TruthOf(truths, {b})[k].encoded = truths[b][k].encoded
  <2>1. truths[b][k] \in [rows : Nat, sum : 0 .. plan.modulus - 1, encoded : Nat]
    BY DEF TruthType
  <2>2. /\ RowsBy(truths, {b}, k)[b] = truths[b][k].rows /\ SumBy(truths, {b}, k)[b] = truths[b][k].sum
        /\ EncodedBy(truths, {b}, k)[b] = truths[b][k].encoded
    BY DEF RowsBy, SumBy, EncodedBy
  <2>3. truths[b][k].rows \in Nat /\ truths[b][k].sum \in Nat /\ truths[b][k].sum < plan.modulus /\ truths[b][k].encoded \in Nat
    BY <1>2, <2>1
  <2>4. /\ TruthOf(truths, {b})[k].rows = truths[b][k].rows
        /\ TruthOf(truths, {b})[k].sum = truths[b][k].sum % plan.modulus
        /\ TruthOf(truths, {b})[k].encoded = truths[b][k].encoded
    <3>1. /\ SumFunctionOnSet(RowsBy(truths, {b}, k), {b}) = truths[b][k].rows
          /\ SumFunctionOnSet(SumBy(truths, {b}, k), {b}) = truths[b][k].sum
          /\ SumFunctionOnSet(EncodedBy(truths, {b}, k), {b}) = truths[b][k].encoded
      BY <1>3, <2>2, <2>3
    <3>2. QED
      BY <1>1, <3>1, TruthIs
  <2>5. \A n \in Nat : n < plan.modulus => n % plan.modulus = n
    BY ONLY <1>2
  <2>6. QED
    BY <2>3, <2>4, <2>5
<1>5. truths[b] = [k \in Keys |-> [rows |-> truths[b][k].rows, sum |-> truths[b][k].sum, encoded |-> truths[b][k].encoded]]
  BY DEF TruthType
<1> DEFINE T == TruthOf(truths, {b})
<1>6. T = [k \in Keys |-> [rows |-> T[k].rows, sum |-> T[k].sum, encoded |-> T[k].encoded]]
  BY TruthIsRecord
<1>7. \A k \in Keys : /\ T[k].rows = truths[b][k].rows /\ T[k].sum = truths[b][k].sum
                      /\ T[k].encoded = truths[b][k].encoded
  BY <1>4
<1> HIDE DEF T
<1>8. T = truths[b]
  BY <1>5, <1>6, <1>7
<1>9. QED
  BY <1>8 DEF T

LEMMA TruthAdds ==
  ASSUME plan \in Plans, NEW truths, NEW bs, NEW cs, bs \cap cs = {}, Truths(truths, bs \cup cs)
  PROVE  AddTruth(TruthOf(truths, bs), TruthOf(truths, cs)) = TruthOf(truths, bs \cup cs)
<1> DEFINE U == bs \cup cs
           m == plan.modulus
<1>1. bs \in SUBSET U /\ cs \in SUBSET U /\ U \in SUBSET U /\ m \in Nat \ {0}
  BY PlanIs
<1>2. IsFiniteSet(bs) /\ IsFiniteSet(cs)
  <2>1. IsFiniteSet(U)
    BY DEF Truths
  <2>2. QED
    BY <1>1, <2>1, FS_Subset
<1>3. ASSUME NEW a \in Nat, NEW b \in Nat PROVE ((a % m) + (b % m)) % m = (a + b) % m
  <2>1. a % m \in Nat /\ b % m \in Nat
    BY ONLY <1>1, <1>3
  <2>2. ((a % m) + (b % m)) % m = (a + (b % m)) % m
    BY <1>1, <2>1, ResidueOfSum
  <2>3. ((b % m) + a) % m = (b + a) % m
    BY <1>1, ResidueOfSum
  <2>4. (b % m) + a = a + (b % m) /\ b + a = a + b
    BY <2>1
  <2>5. QED
    BY <2>2, <2>3, <2>4
<1>4. ASSUME NEW f, \A b \in U : f[b] \in Nat
      PROVE  SumFunctionOnSet(f, U) = SumFunctionOnSet(f, bs) + SumFunctionOnSet(f, cs)
  BY <1>2, <1>4, SumOfUnion
<1>5. ASSUME NEW k \in Keys
      PROVE  /\ TruthOf(truths, bs)[k].rows + TruthOf(truths, cs)[k].rows = TruthOf(truths, U)[k].rows
             /\ (TruthOf(truths, bs)[k].sum + TruthOf(truths, cs)[k].sum) % m = TruthOf(truths, U)[k].sum
             /\ TruthOf(truths, bs)[k].encoded + TruthOf(truths, cs)[k].encoded = TruthOf(truths, U)[k].encoded
  <2> DEFINE f == RowsBy(truths, U, k)
             g == SumBy(truths, U, k)
             h == EncodedBy(truths, U, k)
  <2>1. ASSUME NEW as \in SUBSET U
        PROVE  /\ TruthOf(truths, as)[k].rows = SumFunctionOnSet(f, as)
               /\ TruthOf(truths, as)[k].sum = SumFunctionOnSet(g, as) % m
               /\ TruthOf(truths, as)[k].encoded = SumFunctionOnSet(h, as)
               /\ \A b \in U : f[b] \in Nat /\ g[b] \in Nat /\ h[b] \in Nat
               /\ SumFunctionOnSet(g, as) \in Nat
    <3>1. Truths(truths, U)
      OBVIOUS
    <3> HIDE DEF U
    <3>2. plan \in Plans /\ as \in SUBSET U /\ k \in Keys
      BY <2>1
    <3>3. TruthOf(truths, as)[k].rows = SumFunctionOnSet(f, as)
      BY <3>1, <3>2, TruthIs
    <3>4. TruthOf(truths, as)[k].sum = SumFunctionOnSet(g, as) % plan.modulus
      BY <3>1, <3>2, TruthIs
    <3>5. TruthOf(truths, as)[k].encoded = SumFunctionOnSet(h, as)
      BY <3>1, <3>2, TruthIs
    <3>6. \A b \in U : f[b] \in Nat /\ g[b] \in Nat /\ h[b] \in Nat
      BY <3>1, <3>2, TruthIs
    <3>7. SumFunctionOnSet(g, as) \in Nat
      BY <3>1, <3>2, TruthIs
    <3> HIDE DEF f, g, h
    <3>8. QED
      BY <3>3, <3>4, <3>5, <3>6, <3>7
  <2> HIDE DEF f, g, h, m
  <2>2. /\ SumFunctionOnSet(f, U) = SumFunctionOnSet(f, bs) + SumFunctionOnSet(f, cs)
        /\ SumFunctionOnSet(g, U) = SumFunctionOnSet(g, bs) + SumFunctionOnSet(g, cs)
        /\ SumFunctionOnSet(h, U) = SumFunctionOnSet(h, bs) + SumFunctionOnSet(h, cs)
    BY <1>1, <1>4, <2>1
  <2>3. (TruthOf(truths, bs)[k].sum + TruthOf(truths, cs)[k].sum) % m
          = (SumFunctionOnSet(g, bs) + SumFunctionOnSet(g, cs)) % m
    BY <1>1, <1>3, <2>1
  <2>4. QED
    BY <1>1, <2>1, <2>2, <2>3
<1>6. AddTruth(TruthOf(truths, bs), TruthOf(truths, cs)) =
        [k \in Keys |-> [rows    |-> TruthOf(truths, bs)[k].rows + TruthOf(truths, cs)[k].rows,
                         sum     |-> (TruthOf(truths, bs)[k].sum + TruthOf(truths, cs)[k].sum) % m,
                         encoded |-> TruthOf(truths, bs)[k].encoded + TruthOf(truths, cs)[k].encoded]]
  BY DEF AddTruth
<1>7. TruthOf(truths, U) =
           [k \in Keys |-> [rows    |-> TruthOf(truths, U)[k].rows, sum |-> TruthOf(truths, U)[k].sum,
                            encoded |-> TruthOf(truths, U)[k].encoded]]
  <2> HIDE DEF U
  <2>1. QED
    BY TruthIsRecord
<1> HIDE DEF U, m
<1>8. AddTruth(TruthOf(truths, bs), TruthOf(truths, cs)) = TruthOf(truths, U)
  BY <1>5, <1>6, <1>7
<1>9. QED
  BY <1>8 DEF U

(* Figures of some batches bs and of the sampled rows xs.                  *)
FiguresOf(records, truths, values, bs, xs) ==
  [records |-> {records[b] : b \in bs}, truth |-> TruthOf(truths, bs), stats |-> StatsOf(values, xs)]

LEMMA FiguresOfNone ==
  ASSUME plan \in Plans, NEW records, NEW truths, NEW values
  PROVE  FiguresOf(records, truths, values, {}, {}) = EmptyFigures
<1>1. {records[b] : b \in {}} = {}
  OBVIOUS
<1>2. QED
  BY <1>1, StatsOfNone, TruthOfNone DEF FiguresOf, EmptyFigures

LEMMA ShardAdds ==
  ASSUME plan \in Plans, NEW records, NEW truths, NEW values, NEW bs, NEW cs, NEW xs, NEW ys,
         bs \cap cs = {}, Truths(truths, bs \cup cs), xs \cap ys = {}, Valued(values, xs), Valued(values, ys)
  PROVE  AddShard(FiguresOf(records, truths, values, bs, xs), FiguresOf(records, truths, values, cs, ys))
           = FiguresOf(records, truths, values, bs \cup cs, xs \cup ys)
<1>1. {records[b] : b \in bs} \cup {records[b] : b \in cs} = {records[b] : b \in bs \cup cs}
  OBVIOUS
<1>2. AddTruth(TruthOf(truths, bs), TruthOf(truths, cs)) = TruthOf(truths, bs \cup cs)
  BY TruthAdds
<1>3. MergeStats(StatsOf(values, xs), StatsOf(values, ys)) = StatsOf(values, xs \cup ys)
  BY MergeAdds
<1>4. QED
  BY <1>1, <1>2, <1>3 DEF FiguresOf, AddShard

MergedOver(g, seq) ==
  g = [s \in SUBSET DOMAIN seq |-> IF s = {} THEN EmptyFigures ELSE AddShard(g[s \ {Max(s)}], seq[Max(s)])]

LEMMA MergeFoldIsChosen ==
  ASSUME NEW fs
  PROVE  LET seq == [s \in 1 .. plan.shards |-> fs[s - 1]] IN
         MergedFigures(fs) = (CHOOSE g : MergedOver(g, seq))[DOMAIN seq]
BY DEF MergedFigures, FoldLeft, MapThenFoldSet, MergedOver

(* The merge of the figures of shards is the figures of all their batches. *)
LEMMA ShardsMerged ==
  ASSUME plan \in Plans, NEW records, NEW truths, NEW values, NEW fs, NEW bs, NEW xs,
         \A s \in ShardNumbers : /\ fs[s] = FiguresOf(records, truths, values, bs[s], xs[s])
                                 /\ Truths(truths, bs[s]) /\ Valued(values, xs[s]),
         \A s, t \in ShardNumbers : s # t => bs[s] \cap bs[t] = {} /\ xs[s] \cap xs[t] = {}
  PROVE  MergedFigures(fs) = FiguresOf(records, truths, values, UNION {bs[s] : s \in ShardNumbers},
                                       UNION {xs[s] : s \in ShardNumbers})
<1> DEFINE N == plan.shards
           S == 1 .. N
           seq == [s \in S |-> fs[s - 1]]
           B(t) == UNION {bs[s - 1] : s \in t}
           X(t) == UNION {xs[s - 1] : s \in t}
           w == [t \in SUBSET S |-> FiguresOf(records, truths, values, B(t), X(t))]
<1>1. N \in Nat \ {0} /\ \A s \in S : s - 1 \in ShardNumbers
  BY PlanIs DEF ShardNumbers
<1>2. IsFiniteSet(S)
  <2>1. N \in Int /\ 1 \in Int
    BY <1>1
  <2> HIDE DEF N
  <2>2. QED
    BY <2>1, FS_Interval
<1>3. DOMAIN seq = S /\ \A s \in S : seq[s] = FiguresOf(records, truths, values, bs[s - 1], xs[s - 1])
  BY <1>1
<1>4. w[{}] = EmptyFigures
  <2>1. B({}) = {} /\ X({}) = {} /\ {} \in SUBSET S
    OBVIOUS
  <2>2. QED
    BY <2>1, FiguresOfNone
<1>5. ASSUME NEW t \in SUBSET S PROVE Truths(truths, B(t)) /\ Valued(values, X(t))
  <2>1. IsFiniteSet(t)
    BY <1>2, FS_Subset
  <2>2. \A s \in t : s - 1 \in ShardNumbers
    BY <1>1
  <2>3. \A s \in t : Truths(truths, bs[s - 1]) /\ Valued(values, xs[s - 1])
    BY <2>2
  <2>4. IsFiniteSet(B(t)) /\ IsFiniteSet(X(t))
    <3> DEFINE f == [s \in t |-> bs[s - 1]]
               g == [s \in t |-> xs[s - 1]]
    <3>1. IsFiniteSet({f[s] : s \in t}) /\ IsFiniteSet({g[s] : s \in t})
      <4> HIDE DEF f, g
      <4>1. IsFiniteSet({f[s] : s \in t})
        BY <2>1, ImageIsFinite
      <4>2. IsFiniteSet({g[s] : s \in t})
        BY <2>1, ImageIsFinite
      <4>3. QED
        BY <4>1, <4>2
    <3>2. (\A y \in {f[s] : s \in t} : IsFiniteSet(y)) /\ \A y \in {g[s] : s \in t} : IsFiniteSet(y)
      BY <2>3 DEF Truths, Valued
    <3>3. IsFiniteSet(UNION {f[s] : s \in t}) /\ IsFiniteSet(UNION {g[s] : s \in t})
      BY <3>1, <3>2, FS_UNION
    <3>4. {f[s] : s \in t} = {bs[s - 1] : s \in t} /\ {g[s] : s \in t} = {xs[s - 1] : s \in t}
      OBVIOUS
    <3>5. QED
      BY <3>3, <3>4
  <2>5. QED
    BY <2>3, <2>4 DEF Truths, Valued
<1>6. ASSUME NEW t \in SUBSET S, t # {}
      PROVE  /\ Max(t) \in t /\ t \ {Max(t)} \in SUBSET S
             /\ w[t] = AddShard(w[t \ {Max(t)}], seq[Max(t)])
  <2>1. Max(t) \in t
    BY <1>1, <1>6, GreatestIsMember
  <2> DEFINE m == Max(t)
             c == t \ {m}
  <2>2. m \in t /\ m \in S /\ c \in SUBSET S /\ t = c \cup {m} /\ m \notin c
    BY <2>1
  <2> HIDE DEF m, c
  <2>3. B(t) = B(c) \cup bs[m - 1] /\ X(t) = X(c) \cup xs[m - 1]
    BY <2>2
  <2>4. B(c) \cap bs[m - 1] = {} /\ X(c) \cap xs[m - 1] = {}
    <3>1. \A s \in c : s - 1 \in ShardNumbers /\ m - 1 \in ShardNumbers /\ s - 1 # m - 1
      BY <1>1, <2>2
    <3>2. \A s \in c : bs[s - 1] \cap bs[m - 1] = {} /\ xs[s - 1] \cap xs[m - 1] = {}
      BY <3>1
    <3>3. QED
      BY <3>2
  <2>5. Truths(truths, B(t)) /\ Valued(values, X(c)) /\ Valued(values, xs[m - 1])
    BY <1>1, <1>5, <2>2
  <2>6. w[t] = FiguresOf(records, truths, values, B(t), X(t)) /\ w[c] = FiguresOf(records, truths, values, B(c), X(c))
    BY <2>2
  <2>7. seq[m] = FiguresOf(records, truths, values, bs[m - 1], xs[m - 1])
    BY <1>3, <2>2
  <2> HIDE DEF B, X, w, seq
  <2>8. w[t] = AddShard(w[c], seq[m])
    BY <2>3, <2>4, <2>5, <2>6, <2>7, ShardAdds
  <2>9. QED
    BY <2>1, <2>2, <2>8 DEF m, c
<1> HIDE DEF B, X
<1>7. \A t \in SUBSET S : w[t] = IF t = {} THEN EmptyFigures ELSE AddShard(w[t \ {Max(t)}], seq[Max(t)])
  <2> HIDE DEF w, seq
  <2>1. QED
    BY <1>4, <1>6
<1>8. w = [t \in SUBSET S |-> w[t]]
  OBVIOUS
<1> HIDE DEF w, seq
<1>9. w = [t \in SUBSET S |-> IF t = {} THEN EmptyFigures ELSE AddShard(w[t \ {Max(t)}], seq[Max(t)])]
  BY <1>7, <1>8
<1>10. MergedOver(w, seq)
  BY <1>3, <1>9 DEF MergedOver
<1>11. PICK g : MergedOver(g, seq) /\ MergedFigures(fs) = g[S]
  <2>1. MergedFigures(fs) = (CHOOSE g : MergedOver(g, seq))[DOMAIN seq]
    BY MergeFoldIsChosen DEF seq
  <2>2. QED
    BY <1>3, <1>10, <2>1
<1>12. \A t \in SUBSET S : g[t] = IF t = {} THEN EmptyFigures ELSE AddShard(g[t \ {Max(t)}], seq[Max(t)])
  BY <1>3, <1>11 DEF MergedOver
<1>13. g[{}] = w[{}] /\ \A t \in SUBSET S : t # {} /\ g[t \ {Max(t)}] = w[t \ {Max(t)}] => g[t] = w[t]
  <2>1. {} \in SUBSET S
    OBVIOUS
  <2>2. g[{}] = EmptyFigures
    BY <1>12, <2>1
  <2> HIDE DEF S
  <2>3. QED
    BY <1>4, <1>7, <1>12, <2>2
<1>14. g[S] = w[S]
  BY <1>1, <1>13, FoldsAgree
<1>15. w[S] = FiguresOf(records, truths, values, B(S), X(S))
  BY DEF w
<1>16. B(S) = UNION {bs[s] : s \in ShardNumbers} /\ X(S) = UNION {xs[s] : s \in ShardNumbers}
  <2>1. \A s \in ShardNumbers : s + 1 \in S /\ (s + 1) - 1 = s
    BY <1>1 DEF ShardNumbers
  <2>2. {bs[s - 1] : s \in S} = {bs[s] : s \in ShardNumbers} /\ {xs[s - 1] : s \in S} = {xs[s] : s \in ShardNumbers}
    BY <1>1, <2>1
  <2>3. QED
    BY <2>2 DEF B, X
<1>17. QED
  BY <1>11, <1>14, <1>15, <1>16

(* The rows of a batch.                                                    *)
LEMMA RowIsRow ==
  ASSUME plan \in Plans, NEW rows \in Seq(Row)
  PROVE  /\ Len(rows) \in Nat /\ DOMAIN rows = 1 .. Len(rows) /\ IsFiniteSet(DOMAIN rows)
         /\ Cardinality(DOMAIN rows) = Len(rows)
         /\ \A i \in DOMAIN rows : rows[i].key \in Keys /\ rows[i].value \in Values /\ rows[i].value \in Nat /\ i \in Nat \ {0}
<1>1. Len(rows) \in Nat /\ DOMAIN rows = 1 .. Len(rows) /\ \A i \in 1 .. Len(rows) : rows[i] \in Row
  OBVIOUS
<1>2. IsFiniteSet(1 .. Len(rows)) /\ Cardinality(1 .. Len(rows)) = Len(rows)
  <2> DEFINE n == Len(rows)
  <2>1. n \in Nat /\ n \in Int /\ 1 \in Int
    BY <1>1
  <2> HIDE DEF n
  <2>2. IsFiniteSet(1 .. n) /\ Cardinality(1 .. n) = n
    BY <2>1, FS_Interval
  <2>3. QED
    BY <2>2 DEF n
<1>3. \A r \in Row : r.key \in Keys /\ r.value \in Values /\ r.value \in Nat
  BY DEF Row, Values
<1>4. QED
  BY <1>1, <1>2, <1>3

(* fill_batch's truth of a batch by key, summed over the keys.             *)
LEMMA BatchTruthIs ==
  ASSUME plan \in Plans, NEW b \in Nat, NEW rows \in Seq(Row)
  PROVE  /\ BatchTruth(b, rows) \in TruthType
         /\ SumFunctionOnSet([k \in Keys |-> BatchTruth(b, rows)[k].rows], Keys) = Len(rows)
         /\ SumFunctionOnSet([k \in Keys |-> BatchTruth(b, rows)[k].encoded], Keys) = SumFunction(RowSizes(rows))
         /\ SumFunctionOnSet([k \in Keys |-> BatchTruth(b, rows)[k].sum], Keys) % plan.modulus
              = BatchRecord(b, rows).checksum % plan.modulus
         /\ BatchRecord(b, rows).checksum \in Nat /\ SumFunction(RowSizes(rows)) \in Nat
         /\ BatchRecord(b, rows).checksum % plan.modulus = BatchRecord(b, rows).checksum
<1> DEFINE n == Len(rows)
           D == DOMAIN rows
           m == plan.modulus
           h == [i \in D |-> rows[i].key]
           one == [i \in D |-> 1]
           res == RowResidues(b, rows)
           size == RowSizes(rows)
           Of(f) == [k \in Keys |-> SumFunctionOnSet(f, Fiber(D, h, k))]
<1>1. /\ n \in Nat /\ D = 1 .. n /\ IsFiniteSet(D) /\ Cardinality(D) = n
      /\ \A i \in D : rows[i].key \in Keys /\ rows[i].value \in Nat /\ i \in Nat \ {0}
  BY RowIsRow
<1>2. m \in Nat \ {0} /\ IsFiniteSet(Keys) /\ b * plan.idBlock \in Nat
  <2>1. m \in Nat \ {0} /\ IsFiniteSet(Keys) /\ plan.idBlock \in Nat
    BY PlanIs
  <2>2. b * plan.idBlock \in Nat
    BY <2>1
  <2>3. QED
    BY <2>1, <2>2
<1>3. \A i \in D : RowId(b, i) = b * plan.idBlock + i - 1 /\ RowId(b, i) \in Nat
  <2> DEFINE c == b * plan.idBlock
  <2>1. c \in Nat
    BY <1>2
  <2>2. \A i \in D : RowId(b, i) = c + i - 1
    BY DEF RowId
  <2> HIDE DEF c
  <2>3. \A i \in D : c + i - 1 \in Nat
    BY <1>1, <2>1
  <2>4. QED
    BY <2>2, <2>3 DEF c
<1>4. \A i \in D : /\ res[i] = RowId(b, i) % m /\ res[i] \in Nat /\ size[i] = rows[i].value /\ size[i] \in Nat
                   /\ one[i] = 1 /\ one[i] \in Nat /\ h[i] \in Keys
  <2>1. \A x \in Nat : x % m \in Nat
    BY ONLY <1>2
  <2>2. QED
    BY <1>1, <1>3, <2>1 DEF RowResidues, RowSizes
<1>5. \A k \in Keys : KeyRows(rows, k) = Fiber(D, h, k) /\ Fiber(D, h, k) \subseteq D /\ IsFiniteSet(Fiber(D, h, k))
  <2>1. \A k \in Keys : KeyRows(rows, k) = Fiber(D, h, k) /\ Fiber(D, h, k) \subseteq D
    BY DEF KeyRows, Fiber
  <2>2. QED
    BY <1>1, <2>1, FS_Subset
<1>6. BatchTruth(b, rows) =
        [k \in Keys |-> [rows |-> Cardinality(Fiber(D, h, k)), sum |-> SumFunctionOnSet(res, Fiber(D, h, k)) % m,
                         encoded |-> SumFunctionOnSet(size, Fiber(D, h, k))]]
  BY <1>5 DEF BatchTruth
<1> HIDE DEF n, D, m, h, one, res, size
<1>7. ASSUME NEW f, \A i \in D : f[i] \in Nat
      PROVE  /\ SumFunctionOnSet(f, D) = SumFunctionOnSet(Of(f), Keys)
             /\ \A k \in Keys : SumFunctionOnSet(f, Fiber(D, h, k)) \in Nat
  <2>0. \A i \in D : f[i] \in Nat /\ h[i] \in Keys
    BY <1>4, <1>7
  <2>1. SumFunctionOnSet(f, D) = SumFunctionOnSet([k \in Keys |-> SumFunctionOnSet(f, Fiber(D, h, k))], Keys)
    <3>1. IsFiniteSet(D) /\ IsFiniteSet(Keys)
      BY <1>1, <1>2
    <3> DEFINE T == Keys
    <3>2. IsFiniteSet(D) /\ IsFiniteSet(T) /\ \A i \in D : f[i] \in Nat /\ h[i] \in T
      BY <2>0, <3>1
    <3> HIDE DEF T
    <3>3. SumFunctionOnSet(f, D) = SumFunctionOnSet([k \in T |-> SumFunctionOnSet(f, Fiber(D, h, k))], T)
      BY ONLY <3>2, SumByFibers
    <3>4. QED
      BY <3>3 DEF T
  <2>2. \A k \in Keys : \A i \in Fiber(D, h, k) : f[i] \in Nat
    BY <1>5, <1>7
  <2>3. QED
    BY <1>5, <2>1, <2>2, SumIsNat
<1>8. \A k \in Keys : /\ BatchTruth(b, rows)[k].rows = Cardinality(Fiber(D, h, k))
                      /\ BatchTruth(b, rows)[k].sum = SumFunctionOnSet(res, Fiber(D, h, k)) % m
                      /\ BatchTruth(b, rows)[k].encoded = SumFunctionOnSet(size, Fiber(D, h, k))
  BY <1>6
<1>9. BatchTruth(b, rows) \in TruthType
  <2>1. \A k \in Keys : Cardinality(Fiber(D, h, k)) \in Nat
    BY <1>5, FS_CardinalityType
  <2>2. \A k \in Keys : SumFunctionOnSet(res, Fiber(D, h, k)) \in Nat /\ SumFunctionOnSet(size, Fiber(D, h, k)) \in Nat
    BY <1>4, <1>7
  <2>3. \A x \in Nat : x % m \in 0 .. m - 1
    BY ONLY <1>2
  <2>4. QED
    BY <1>6, <2>1, <2>2, <2>3 DEF TruthType, m
<1>10. SumFunctionOnSet([k \in Keys |-> BatchTruth(b, rows)[k].rows], Keys) = n
  <2>1. SumFunctionOnSet(one, D) = n
    BY <1>1, <1>4, SumOfOnes
  <2>2. \A k \in Keys : SumFunctionOnSet(one, Fiber(D, h, k)) = Cardinality(Fiber(D, h, k))
    BY <1>4, <1>5, SumOfOnes
  <2>3. [k \in Keys |-> BatchTruth(b, rows)[k].rows] = Of(one)
    BY <1>8, <2>2
  <2>4. SumFunctionOnSet(one, D) = SumFunctionOnSet(Of(one), Keys)
    BY <1>4, <1>7
  <2>5. QED
    BY <2>1, <2>3, <2>4
<1>11. SumFunction(RowSizes(rows)) = SumFunctionOnSet(size, D) /\ SumFunctionOnSet(size, D) \in Nat
  <2>1. SumFunction(RowSizes(rows)) = SumFunctionOnSet(size, D)
    BY DEF SumFunction, size, RowSizes, D
  <2>2. SumFunctionOnSet(size, D) \in Nat
    BY <1>1, <1>4, SumIsNat
  <2>3. QED
    BY <2>1, <2>2
<1>12. SumFunctionOnSet([k \in Keys |-> BatchTruth(b, rows)[k].encoded], Keys) = SumFunctionOnSet(size, D)
  <2>1. [k \in Keys |-> BatchTruth(b, rows)[k].encoded] = Of(size)
    BY <1>8
  <2>2. SumFunctionOnSet(size, D) = SumFunctionOnSet(Of(size), Keys)
    BY <1>4, <1>7
  <2>3. QED
    BY <2>1, <2>2
<1> DEFINE ids == [i \in D |-> RowId(b, i)]
           s == [k \in Keys |-> BatchTruth(b, rows)[k].sum]
           total == SumFunctionOnSet(ids, D)
<1>13. SumFunctionOnSet(s, Keys) % m = total % m
  <2>1. \A x \in Nat : x % m \in Nat /\ (x % m) % m = x % m
    <3>1. ASSUME NEW x \in Nat PROVE x % m \in Nat /\ x % m < m
      BY ONLY <1>2
    <3>2. \A y \in Nat : y < m => y % m = y
      BY ONLY <1>2
    <3>3. QED
      BY <3>1, <3>2
  <2>2. \A k \in Keys : SumFunctionOnSet(res, Fiber(D, h, k)) \in Nat
    BY <1>4, <1>7
  <2>3. \A k \in Keys : s[k] \in Nat /\ Of(res)[k] \in Nat /\ s[k] % m = Of(res)[k] % m
    BY <1>8, <2>1, <2>2
  <2> DEFINE o == Of(res)
  <2>4. SumFunctionOnSet(res, D) = SumFunctionOnSet(o, Keys)
    BY <1>4, <1>7
  <2>5. \A k \in Keys : s[k] \in Nat /\ o[k] \in Nat /\ s[k] % m = o[k] % m
    BY <2>3
  <2>6. \A i \in D : ids[i] \in Nat /\ res[i] \in Nat /\ res[i] % m = ids[i] % m
    BY <1>3, <1>4, <2>1
  <2> HIDE DEF o, s, ids
  <2>7. SumFunctionOnSet(s, Keys) % m = SumFunctionOnSet(o, Keys) % m
    BY <1>2, <2>5, SumResidue
  <2>8. SumFunctionOnSet(res, D) % m = SumFunctionOnSet(ids, D) % m
    BY <1>1, <1>2, <2>6, SumResidue
  <2>9. QED
    BY <2>4, <2>7, <2>8
<1>14. BatchRecord(b, rows).checksum = total % m /\ total \in Nat
  <2> DEFINE c == b * plan.idBlock
             e == (2 * c + n - 1) * n
  <2>1. c \in Nat
    BY <1>2
  <2>2. \A i \in 1 .. n : ids[i] = c + i - 1
    BY <1>1, <1>3
  <2>3. BatchRecord(b, rows).checksum = ClosedForm(RowId(b, 1), RowId(b, n), n)
    BY DEF BatchRecord, n
  <2>4. RowId(b, 1) = c + 1 - 1 /\ RowId(b, n) = c + n - 1
    BY DEF RowId
  <2> HIDE DEF c, ids
  <2>5. 2 * SumFunctionOnSet(ids, 1 .. n) = (2 * c + n - 1) * n /\ SumFunctionOnSet(ids, 1 .. n) \in Nat
    BY <1>1, <2>1, <2>2, SeriesIs
  <2>6. 2 * total = e /\ total \in Nat
    BY <1>1, <2>5
  <2>7. RowId(b, 1) + RowId(b, n) = 2 * c + n - 1
    BY <1>1, <2>1, <2>4
  <2>8. ClosedForm(RowId(b, 1), RowId(b, n), n) = (e \div 2) % m
    BY <2>7 DEF ClosedForm, m
  <2> HIDE DEF total, e
  <2>9. e \div 2 = total
    <3>1. 2 \in Nat \ {0} /\ total \in Int /\ 0 \in Nat /\ 0 < 2 /\ e \in Int /\ e = total * 2 + 0
      BY <2>6
    <3>2. QED
      BY <3>1, DividedBy
  <2>10. QED
    BY <2>3, <2>6, <2>8, <2>9
<1>15. /\ BatchRecord(b, rows).checksum \in Nat /\ BatchRecord(b, rows).checksum % m = total % m
       /\ BatchRecord(b, rows).checksum % m = BatchRecord(b, rows).checksum
  <2> HIDE DEF total
  <2>1. \A x \in Nat : x % m \in Nat /\ (x % m) % m = x % m
    <3>1. ASSUME NEW x \in Nat PROVE x % m \in Nat /\ x % m < m
      BY ONLY <1>2
    <3>2. \A y \in Nat : y < m => y % m = y
      BY ONLY <1>2
    <3>3. QED
      BY <3>1, <3>2
  <2>2. QED
    BY <1>14, <2>1
<1>16. QED
  BY <1>9, <1>10, <1>11, <1>12, <1>13, <1>15 DEF n, m

-----------------------------------------------------------------------------
(* What fill_batch accumulates by key and closed_form_checksum agree on    *)
(* every batch, of any rows and identifiers: generate's assertion that     *)
(* compares them never fails.                                              *)
THEOREM BatchChecksumsAgree ==
  ASSUME plan \in Plans, NEW b \in Nat, NEW rows \in Seq(Row)
  PROVE  SumFunction([k \in Keys |-> BatchTruth(b, rows)[k].sum]) % plan.modulus = BatchRecord(b, rows).checksum
<1>1. SumFunctionOnSet([k \in Keys |-> BatchTruth(b, rows)[k].sum], Keys) % plan.modulus = BatchRecord(b, rows).checksum
  BY BatchTruthIs
<1>2. QED
  BY <1>1 DEF SumFunction

(* Truth and manifest of any batches agree.                                *)
DrawnIn(given)   == given \in [BatchNumbers -> Seq(Row)]
RecordsIn(given) == [b \in BatchNumbers |-> BatchRecord(b, given[b])]
TruthsIn(given)  == [b \in BatchNumbers |-> BatchTruth(b, given[b])]

LEMMA TruthsAre ==
  ASSUME plan \in Plans, NEW given, DrawnIn(given), NEW bs \in SUBSET BatchNumbers
  PROVE  Truths(TruthsIn(given), bs)
<1>1. IsFiniteSet(bs)
  BY PlanIs, FS_Subset
<1>2. \A b \in bs : b \in Nat /\ given[b] \in Seq(Row) /\ TruthsIn(given)[b] = BatchTruth(b, given[b])
  BY DEF DrawnIn, TruthsIn, BatchNumbers
<1>3. \A b \in bs : TruthsIn(given)[b] \in TruthType
  BY <1>2, BatchTruthIs
<1>4. QED
  BY <1>1, <1>3 DEF Truths

LEMMA TruthIsTheManifest ==
  ASSUME plan \in Plans, NEW given, DrawnIn(given), NEW bs \in SUBSET BatchNumbers, NEW values, NEW xs
  PROVE  TruthIsManifest(FiguresOf(RecordsIn(given), TruthsIn(given), values, bs, xs))
<1> DEFINE f == FiguresOf(RecordsIn(given), TruthsIn(given), values, bs, xs)
           t == TruthsIn(given)
           R == {RecordsIn(given)[b] : b \in bs}
           m == plan.modulus
<1>1. f.records = R /\ f.truth = TruthOf(t, bs)
  BY DEF FiguresOf
<1>2. /\ IsFiniteSet(bs) /\ IsFiniteSet(Keys) /\ Truths(t, bs) /\ m \in Nat \ {0}
  BY TruthsAre, PlanIs, FS_Subset
<1>3. ASSUME NEW b \in bs
      PROVE  /\ SumFunctionOnSet([k \in Keys |-> t[b][k].rows], Keys) = RecordsIn(given)[b].rows
             /\ SumFunctionOnSet([k \in Keys |-> t[b][k].encoded], Keys) = RecordsIn(given)[b].encoded
             /\ SumFunctionOnSet([k \in Keys |-> t[b][k].sum], Keys) % m = RecordsIn(given)[b].checksum % m
             /\ RecordsIn(given)[b].rows \in Nat /\ RecordsIn(given)[b].encoded \in Nat /\ RecordsIn(given)[b].checksum \in Nat
             /\ RecordsIn(given)[b].batch = b
             /\ \A k \in Keys : t[b][k].rows \in Nat /\ t[b][k].encoded \in Nat /\ t[b][k].sum \in Nat
  <2>1. b \in Nat /\ given[b] \in Seq(Row) /\ t[b] = BatchTruth(b, given[b]) /\ RecordsIn(given)[b] = BatchRecord(b, given[b])
    BY DEF DrawnIn, TruthsIn, BatchNumbers, RecordsIn
  <2>2. /\ BatchRecord(b, given[b]).rows = Len(given[b]) /\ BatchRecord(b, given[b]).batch = b
        /\ BatchRecord(b, given[b]).encoded = SumFunction(RowSizes(given[b]))
    BY DEF BatchRecord
  <2>3. \A k \in Keys : t[b][k] \in [rows : Nat, sum : 0 .. m - 1, encoded : Nat]
    BY <1>2 DEF Truths, TruthType
  <2>4. \A k \in Keys : t[b][k].rows \in Nat /\ t[b][k].encoded \in Nat /\ t[b][k].sum \in Nat
    BY <1>2, <2>3
  <2>5. Len(given[b]) \in Nat
    BY <2>1
  <2> HIDE DEF t, m
  <2>6. /\ SumFunctionOnSet([k \in Keys |-> t[b][k].rows], Keys) = Len(given[b])
        /\ SumFunctionOnSet([k \in Keys |-> t[b][k].encoded], Keys) = SumFunction(RowSizes(given[b]))
        /\ SumFunctionOnSet([k \in Keys |-> t[b][k].sum], Keys) % m = BatchRecord(b, given[b]).checksum % m
        /\ BatchRecord(b, given[b]).checksum \in Nat /\ SumFunction(RowSizes(given[b])) \in Nat
    <3> DEFINE own == given[b]
    <3>1. b \in Nat /\ own \in Seq(Row) /\ t[b] = BatchTruth(b, own)
      BY <2>1
    <3> HIDE DEF own
    <3>2. /\ SumFunctionOnSet([k \in Keys |-> BatchTruth(b, own)[k].rows], Keys) = Len(own)
          /\ SumFunctionOnSet([k \in Keys |-> BatchTruth(b, own)[k].encoded], Keys) = SumFunction(RowSizes(own))
          /\ SumFunctionOnSet([k \in Keys |-> BatchTruth(b, own)[k].sum], Keys) % plan.modulus
               = BatchRecord(b, own).checksum % plan.modulus
          /\ BatchRecord(b, own).checksum \in Nat /\ SumFunction(RowSizes(own)) \in Nat
      BY <3>1, BatchTruthIs
    <3>3. QED
      BY <3>1, <3>2 DEF m, own
  <2>7. QED
    BY <2>1, <2>2, <2>4, <2>5, <2>6
<1>4. ASSUME NEW g, \A b \in bs : g[b] \in Nat, NEW q, \A b \in bs : q[RecordsIn(given)[b]] = g[b]
      PROVE  SumFunctionOnSet(q, R) = SumFunctionOnSet(g, bs)
  <2>1. \A a, b \in bs : RecordsIn(given)[a] = RecordsIn(given)[b] => a = b
    BY <1>3
  <2>2. \A b \in bs : g[b] \in Nat /\ g[b] = q[RecordsIn(given)[b]]
    BY <1>4
  <2>3. QED
    BY <1>2, <2>1, <2>2, SumOfImage
<1> DEFINE rows == [b \in bs |-> RecordsIn(given)[b].rows]
           encs == [b \in bs |-> RecordsIn(given)[b].encoded]
           sums == [b \in bs |-> RecordsIn(given)[b].checksum]
<1>5. /\ RowTotal(f) = SumFunctionOnSet([r \in R |-> r.rows], R)
      /\ Encoded(f) = SumFunctionOnSet([r \in R |-> r.encoded], R)
      /\ SumFunction([r \in f.records |-> r.checksum]) = SumFunctionOnSet([r \in R |-> r.checksum], R)
  BY <1>1 DEF RowTotal, Encoded, SumFunction
<1>6. SumFunctionOnSet([r \in R |-> r.rows], R) = SumFunctionOnSet(rows, bs)
  <2> DEFINE q == [r \in R |-> r.rows]
  <2>1. \A b \in bs : rows[b] \in Nat /\ q[RecordsIn(given)[b]] = rows[b]
    BY <1>3
  <2> HIDE DEF q, rows, R
  <2>2. SumFunctionOnSet(q, R) = SumFunctionOnSet(rows, bs)
    BY <1>4, <2>1
  <2>3. QED
    BY <2>2 DEF q
<1>7. SumFunctionOnSet([r \in R |-> r.encoded], R) = SumFunctionOnSet(encs, bs)
  <2> DEFINE q == [r \in R |-> r.encoded]
  <2>1. \A b \in bs : encs[b] \in Nat /\ q[RecordsIn(given)[b]] = encs[b]
    BY <1>3
  <2> HIDE DEF q, encs, R
  <2>2. SumFunctionOnSet(q, R) = SumFunctionOnSet(encs, bs)
    BY <1>4, <2>1
  <2>3. QED
    BY <2>2 DEF q
<1>8. SumFunctionOnSet([r \in R |-> r.checksum], R) = SumFunctionOnSet(sums, bs)
  <2> DEFINE q == [r \in R |-> r.checksum]
  <2>1. \A b \in bs : sums[b] \in Nat /\ q[RecordsIn(given)[b]] = sums[b]
    BY <1>3
  <2> HIDE DEF q, sums, R
  <2>2. SumFunctionOnSet(q, R) = SumFunctionOnSet(sums, bs)
    BY <1>4, <2>1
  <2>3. QED
    BY <2>2 DEF q
<1>9. ASSUME NEW k \in Keys
      PROVE  /\ TruthOf(t, bs)[k].rows = SumFunctionOnSet([b \in bs |-> t[b][k].rows], bs)
             /\ TruthOf(t, bs)[k].sum = SumFunctionOnSet([b \in bs |-> t[b][k].sum], bs) % m
             /\ TruthOf(t, bs)[k].encoded = SumFunctionOnSet([b \in bs |-> t[b][k].encoded], bs)
             /\ SumFunctionOnSet([b \in bs |-> t[b][k].sum], bs) \in Nat
  <2>1. /\ RowsBy(t, bs, k) = [b \in bs |-> t[b][k].rows] /\ SumBy(t, bs, k) = [b \in bs |-> t[b][k].sum]
        /\ EncodedBy(t, bs, k) = [b \in bs |-> t[b][k].encoded] /\ bs \in SUBSET bs
    BY DEF RowsBy, SumBy, EncodedBy
  <2> HIDE DEF t
  <2>2. /\ TruthOf(t, bs)[k].rows = SumFunctionOnSet(RowsBy(t, bs, k), bs)
        /\ TruthOf(t, bs)[k].sum = SumFunctionOnSet(SumBy(t, bs, k), bs) % plan.modulus
        /\ TruthOf(t, bs)[k].encoded = SumFunctionOnSet(EncodedBy(t, bs, k), bs)
        /\ SumFunctionOnSet(SumBy(t, bs, k), bs) \in Nat
    BY <1>2, <2>1, TruthIs
  <2>3. QED
    BY <2>1, <2>2
<1> HIDE DEF t, R, m
<1>10. SumFunctionOnSet([k \in Keys |-> TruthOf(t, bs)[k].rows], Keys) = SumFunctionOnSet(rows, bs)
  <2> DEFINE M == [b \in bs |-> [k \in Keys |-> t[b][k].rows]]
             c == [k \in Keys |-> TruthOf(t, bs)[k].rows]
  <2>1. \A b \in bs : \A k \in Keys : M[b][k] \in Nat
    BY <1>3
  <2>2. \A b \in bs : rows[b] = SumFunctionOnSet(M[b], Keys)
    BY <1>3
  <2>3. \A k \in Keys : [b \in bs |-> M[b][k]] = [b \in bs |-> t[b][k].rows]
    OBVIOUS
  <2>4. \A k \in Keys : c[k] = SumFunctionOnSet([b \in bs |-> M[b][k]], bs)
    BY <1>9, <2>3
  <2> HIDE DEF M, c, rows
  <2>5. SumFunctionOnSet(rows, bs) = SumFunctionOnSet(c, Keys)
    <3> DEFINE r1 == [b \in bs |-> SumFunctionOnSet(M[b], Keys)]
               c1 == [k \in Keys |-> SumFunctionOnSet([b \in bs |-> M[b][k]], bs)]
    <3>1. SumFunctionOnSet(r1, bs) = SumFunctionOnSet(c1, Keys)
      BY <1>2, <2>1, SumsSwap
    <3>2. (\A b \in bs : rows[b] = r1[b]) /\ \A k \in Keys : c[k] = c1[k]
      BY <2>1, <2>2, <2>4
    <3> HIDE DEF r1, c1
    <3>3. SumFunctionOnSet(rows, bs) = SumFunctionOnSet(r1, bs) /\ SumFunctionOnSet(c, Keys) = SumFunctionOnSet(c1, Keys)
      BY <1>2, <3>2, SumAgrees
    <3>4. QED
      BY <3>1, <3>3
  <2>6. QED
    BY <2>5 DEF c
<1>11. SumFunctionOnSet([k \in Keys |-> TruthOf(t, bs)[k].encoded], Keys) = SumFunctionOnSet(encs, bs)
  <2> DEFINE M == [b \in bs |-> [k \in Keys |-> t[b][k].encoded]]
             c == [k \in Keys |-> TruthOf(t, bs)[k].encoded]
  <2>1. \A b \in bs : \A k \in Keys : M[b][k] \in Nat
    BY <1>3
  <2>2. \A b \in bs : encs[b] = SumFunctionOnSet(M[b], Keys)
    BY <1>3
  <2>3. \A k \in Keys : [b \in bs |-> M[b][k]] = [b \in bs |-> t[b][k].encoded]
    OBVIOUS
  <2>4. \A k \in Keys : c[k] = SumFunctionOnSet([b \in bs |-> M[b][k]], bs)
    BY <1>9, <2>3
  <2> HIDE DEF M, c, encs
  <2>5. SumFunctionOnSet(encs, bs) = SumFunctionOnSet(c, Keys)
    <3> DEFINE r1 == [b \in bs |-> SumFunctionOnSet(M[b], Keys)]
               c1 == [k \in Keys |-> SumFunctionOnSet([b \in bs |-> M[b][k]], bs)]
    <3>1. SumFunctionOnSet(r1, bs) = SumFunctionOnSet(c1, Keys)
      BY <1>2, <2>1, SumsSwap
    <3>2. (\A b \in bs : encs[b] = r1[b]) /\ \A k \in Keys : c[k] = c1[k]
      BY <2>1, <2>2, <2>4
    <3> HIDE DEF r1, c1
    <3>3. SumFunctionOnSet(encs, bs) = SumFunctionOnSet(r1, bs) /\ SumFunctionOnSet(c, Keys) = SumFunctionOnSet(c1, Keys)
      BY <1>2, <3>2, SumAgrees
    <3>4. QED
      BY <3>1, <3>3
  <2>6. QED
    BY <2>5 DEF c
<1>12. SumFunctionOnSet([k \in Keys |-> TruthOf(t, bs)[k].sum], Keys) % m = SumFunctionOnSet(sums, bs) % m
  <2> DEFINE M == [b \in bs |-> [k \in Keys |-> t[b][k].sum]]
             c == [k \in Keys |-> TruthOf(t, bs)[k].sum]
             d == [k \in Keys |-> SumFunctionOnSet([b \in bs |-> M[b][k]], bs)]
             r == [b \in bs |-> SumFunctionOnSet(M[b], Keys)]
  <2>1. \A b \in bs : \A k \in Keys : M[b][k] \in Nat
    BY <1>3
  <2>2. \A b \in bs : M[b] = [k \in Keys |-> t[b][k].sum]
    OBVIOUS
  <2>3. \A k \in Keys : [b \in bs |-> M[b][k]] = [b \in bs |-> t[b][k].sum]
    OBVIOUS
  <2>4. \A k \in Keys : c[k] = d[k] % m /\ d[k] \in Nat
    BY <1>9, <2>3
  <2>5. \A b \in bs : r[b] % m = sums[b] % m /\ r[b] \in Nat /\ sums[b] \in Nat
    <3>1. \A b \in bs : \A k \in DOMAIN M[b] : M[b][k] \in Nat
      BY <2>1, <2>2
    <3>2. \A b \in bs : r[b] = SumFunctionOnSet(M[b], Keys) /\ sums[b] = RecordsIn(given)[b].checksum
      OBVIOUS
    <3>3. \A b \in bs : SumFunctionOnSet(M[b], Keys) % m = RecordsIn(given)[b].checksum % m /\ RecordsIn(given)[b].checksum \in Nat
      BY <1>3, <2>2
    <3> HIDE DEF M, r, sums
    <3>4. \A b \in bs : SumFunctionOnSet(M[b], Keys) \in Nat
      BY <1>2, <2>1, SumIsNat
    <3>5. QED
      BY <3>2, <3>3, <3>4
  <2>6. (\A b \in bs : r[b] = SumFunctionOnSet(M[b], Keys)) /\ \A k \in Keys : d[k] = SumFunctionOnSet([b \in bs |-> M[b][k]], bs)
    OBVIOUS
  <2>7. \A x \in Nat : x % m \in Nat /\ (x % m) % m = x % m
    <3>1. ASSUME NEW x \in Nat PROVE x % m \in Nat /\ x % m < m
      BY ONLY <1>2
    <3>2. \A y \in Nat : y < m => y % m = y
      BY ONLY <1>2
    <3>3. QED
      BY <3>1, <3>2
  <2> HIDE DEF M, c, d, r, sums
  <2>8. SumFunctionOnSet(r, bs) = SumFunctionOnSet(d, Keys)
    <3> DEFINE r1 == [b \in bs |-> SumFunctionOnSet(M[b], Keys)]
               c1 == [k \in Keys |-> SumFunctionOnSet([b \in bs |-> M[b][k]], bs)]
    <3>1. SumFunctionOnSet(r1, bs) = SumFunctionOnSet(c1, Keys)
      BY <1>2, <2>1, SumsSwap
    <3>2. (\A b \in bs : r[b] = r1[b]) /\ \A k \in Keys : d[k] = c1[k]
      BY <2>1, <2>6
    <3> HIDE DEF r1, c1
    <3>3. SumFunctionOnSet(r, bs) = SumFunctionOnSet(r1, bs) /\ SumFunctionOnSet(d, Keys) = SumFunctionOnSet(c1, Keys)
      BY <1>2, <3>2, SumAgrees
    <3>4. QED
      BY <3>1, <3>3
  <2>9. \A k \in Keys : c[k] \in Nat /\ d[k] \in Nat /\ c[k] % m = d[k] % m
    BY <2>4, <2>7
  <2>10. SumFunctionOnSet(c, Keys) % m = SumFunctionOnSet(d, Keys) % m
    BY <1>2, <2>9, SumResidue
  <2>11. SumFunctionOnSet(r, bs) % m = SumFunctionOnSet(sums, bs) % m
    BY <1>2, <2>5, SumResidue
  <2>12. SumFunctionOnSet(c, Keys) % m = SumFunctionOnSet(sums, bs) % m
    BY <2>8, <2>10, <2>11
  <2>13. QED
    BY <2>12 DEF c
<1>13. /\ SumFunction([k \in Keys |-> f.truth[k].rows]) = SumFunctionOnSet([k \in Keys |-> TruthOf(t, bs)[k].rows], Keys)
       /\ SumFunction([k \in Keys |-> f.truth[k].encoded]) = SumFunctionOnSet([k \in Keys |-> TruthOf(t, bs)[k].encoded], Keys)
       /\ SumFunction([k \in Keys |-> f.truth[k].sum]) = SumFunctionOnSet([k \in Keys |-> TruthOf(t, bs)[k].sum], Keys)
  BY <1>1 DEF SumFunction
<1> HIDE DEF f, rows, encs, sums
<1>14. TruthIsManifest(f)
  BY <1>5, <1>6, <1>7, <1>8, <1>10, <1>11, <1>12, <1>13 DEF TruthIsManifest, m
<1>15. QED
  BY <1>14 DEF f, t

-----------------------------------------------------------------------------
(* Batches are taken in turn: after batch f its shard takes f + shards.    *)
LEMMA Turns ==
  ASSUME plan \in Plans, NEW f \in Nat
  PROVE  /\ f % plan.shards \in ShardNumbers
         /\ f + plan.shards \in Nat /\ (f + plan.shards) % plan.shards = f % plan.shards
         /\ \A b \in Nat : b % plan.shards = f % plan.shards /\ f < b => f + plan.shards <= b
<1> DEFINE m == plan.shards
           r == f % m
           q == f \div m
<1>1. m \in Nat \ {0}
  BY PlanIs
<1> HIDE DEF m
<1>2. f = q * m + r /\ q \in Int /\ r \in Nat /\ r < m
  BY ONLY <1>1
<1> HIDE DEF r, q
<1>3. (f + m) % m = r
  <2> DEFINE p == q + 1
             n == f + m
  <2>1. p * m = q * m + m
    BY ONLY <1>1, <1>2
  <2>2. p \in Int /\ n \in Int /\ q * m \in Int
    BY <1>1, <1>2
  <2>3. n = p * m + r
    BY ONLY <1>1, <1>2, <2>1, <2>2
  <2> HIDE DEF p, n
  <2>4. n % m = r
    BY <1>1, <1>2, <2>2, <2>3, DividedBy
  <2>5. QED
    BY <2>4 DEF n
<1>4. ASSUME NEW b \in Nat, b % m = r, f < b PROVE f + m <= b
  <2> DEFINE p == b \div m
             z == (p - q) * m
  <2>1. b = p * m + r /\ p \in Int
    BY ONLY <1>1, <1>4
  <2> HIDE DEF p
  <2>2. z = p * m - q * m /\ p * m \in Int /\ q * m \in Int /\ (p - q <= 0 => z <= 0) /\ (p - q >= 1 => z >= m)
    BY ONLY <1>1, <1>2, <2>1
  <2> HIDE DEF z
  <2>3. QED
    BY <1>1, <1>2, <1>4, <2>1, <2>2
<1>5. r \in 0 .. m - 1
  BY <1>1, <1>2
<1>6. QED
  BY <1>1, <1>3, <1>4, <1>5 DEF r, m, ShardNumbers

(* The rows of a corpus, and those of a shard: what is sampled of them and *)
(* which of its batches are done.                                          *)
RowsIn(given)       == UNION {{b} \X DOMAIN given[b] : b \in BatchNumbers}
SampleIn(given)     == {x \in RowsIn(given) : (x[1] * plan.rowsEstimate + x[2] - 1) % plan.stride = 0}
ValuesIn(given)     == [x \in RowsIn(given) |-> given[x[1]][x[2]].value]
SampledBy(given, s) == {x \in SampleIn(given) : x[1] % plan.shards = s}
DoneBy(next, s)     == {b \in BatchNumbers : b % plan.shards = s /\ b < next[s]}

LEMMA RowsAre ==
  ASSUME plan \in Plans, NEW given, DrawnIn(given)
  PROVE  /\ IsFiniteSet(RowsIn(given))
         /\ \A x \in RowsIn(given) : /\ x = <<x[1], x[2]>> /\ x[1] \in BatchNumbers /\ x[1] \in Nat
                                     /\ x[2] \in Nat \ {0} /\ x[2] \in DOMAIN given[x[1]]
                                     /\ ValuesIn(given)[x] = given[x[1]][x[2]].value /\ ValuesIn(given)[x] \in Values
         /\ \A xs \in SUBSET RowsIn(given) : Valued(ValuesIn(given), xs)
<1>1. \A b \in BatchNumbers : /\ b \in Nat /\ IsFiniteSet(DOMAIN given[b])
                              /\ \A i \in DOMAIN given[b] : i \in Nat \ {0} /\ given[b][i].value \in Values
  <2>1. \A b \in BatchNumbers : b \in Nat /\ given[b] \in Seq(Row)
    BY DEF DrawnIn, BatchNumbers
  <2>2. QED
    BY <2>1, RowIsRow
<1>2. \A x \in RowsIn(given) : x = <<x[1], x[2]>> /\ x[1] \in BatchNumbers /\ x[2] \in DOMAIN given[x[1]]
  BY DEF RowsIn
<1>3. IsFiniteSet(RowsIn(given))
  <2> DEFINE g == [b \in BatchNumbers |-> {b} \X DOMAIN given[b]]
  <2>1. \A b \in BatchNumbers : IsFiniteSet(g[b])
    <3>1. ASSUME NEW b \in BatchNumbers PROVE IsFiniteSet({b} \X DOMAIN given[b])
      <4>1. IsFiniteSet({b}) /\ IsFiniteSet(DOMAIN given[b])
        BY <1>1, FS_Singleton
      <4>2. QED
        BY <4>1, FS_Product
    <3>2. QED
      BY <3>1
  <2>2. RowsIn(given) = UNION {g[b] : b \in BatchNumbers}
    BY DEF RowsIn
  <2> HIDE DEF g
  <2>3. IsFiniteSet({g[b] : b \in BatchNumbers})
    BY PlanIs, ImageIsFinite
  <2>4. \A y \in {g[b] : b \in BatchNumbers} : IsFiniteSet(y)
    BY <2>1
  <2>5. QED
    BY <2>2, <2>3, <2>4, FS_UNION
<1>4. \A x \in RowsIn(given) : ValuesIn(given)[x] = given[x[1]][x[2]].value /\ ValuesIn(given)[x] \in Values
  BY <1>1, <1>2 DEF ValuesIn
<1>5. \A xs \in SUBSET RowsIn(given) : Valued(ValuesIn(given), xs)
  BY <1>3, <1>4, FS_Subset DEF Valued
<1>6. QED
  BY <1>1, <1>2, <1>3, <1>4, <1>5

(* What a block adds to a batch.                                           *)
At(given, b) == [i \in 1 .. plan.rowBlock |-> <<b, Len(given[b]) + i>>]
Start(given, b) == b * plan.rowsEstimate + Len(given[b])
Drawn(given, b, block, more) ==
  /\ DrawnIn(given) /\ b \in BatchNumbers /\ block \in [1 .. plan.rowBlock -> Row]
  /\ more = [given EXCEPT ![b] = given[b] \o block]

LEMMA BlockDrawn ==
  ASSUME plan \in Plans, NEW given, NEW b, NEW block, NEW more, Drawn(given, b, block, more)
  PROVE  /\ DrawnIn(more) /\ more[b] = given[b] \o block /\ Len(given[b]) \in Nat /\ plan.rowBlock \in Nat
         /\ DOMAIN given[b] = 1 .. Len(given[b]) /\ DOMAIN more[b] = 1 .. Len(given[b]) + plan.rowBlock
         /\ \A c \in BatchNumbers : c # b => more[c] = given[c]
         /\ \A i \in DOMAIN given[b] : more[b][i] = given[b][i]
         /\ \A i \in 1 .. plan.rowBlock : more[b][Len(given[b]) + i] = block[i] /\ block[i].value \in Values
<1> DEFINE N == plan.rowBlock
           rows == given[b]
<1>1. N \in Nat \ {0} /\ given \in [BatchNumbers -> Seq(Row)] /\ b \in BatchNumbers /\ block \in [1 .. N -> Row]
  BY PlanIs DEF Drawn, DrawnIn
<1>2. rows \in Seq(Row)
  BY <1>1
<1> HIDE DEF rows, N
<1>3. block \in Seq(Row) /\ Len(block) = N
  <2>1. block \in Seq(Row)
    BY <1>1, SeqDef
  <2>2. DOMAIN block = 1 .. N
    BY <1>1
  <2>3. Len(block) \in Nat /\ DOMAIN block = 1 .. Len(block)
    BY <2>1, LenProperties
  <2>4. QED
    BY <1>1, <2>1, <2>2, <2>3
<1>4. /\ rows \o block \in Seq(Row) /\ Len(rows) \in Nat /\ DOMAIN rows = 1 .. Len(rows)
      /\ DOMAIN (rows \o block) = 1 .. Len(rows) + N
      /\ \A i \in 1 .. Len(rows) : (rows \o block)[i] = rows[i]
      /\ \A i \in 1 .. N : (rows \o block)[Len(rows) + i] = block[i]
  <2> DEFINE both == rows \o block
             n == Len(rows)
  <2>1. n \in Nat /\ DOMAIN rows = 1 .. n
    BY <1>2, LenProperties
  <2>2. /\ both \in Seq(Row) /\ Len(both) = n + N
        /\ \A i \in 1 .. n + N : both[i] = IF i <= n THEN rows[i] ELSE block[i - n]
    BY <1>2, <1>3, ConcatProperties
  <2>3. DOMAIN both = 1 .. n + N
    BY <2>2, LenProperties
  <2> HIDE DEF both, n
  <2>4. \A i \in 1 .. n : both[i] = rows[i]
    BY <1>1, <2>1, <2>2
  <2>5. \A i \in 1 .. N : both[n + i] = block[i]
    <3>1. \A i \in 1 .. N : n + i \in 1 .. n + N /\ ~(n + i <= n) /\ (n + i) - n = i
      BY <1>1, <2>1
    <3>2. QED
      BY <2>2, <3>1
  <2>6. QED
    BY <2>1, <2>2, <2>3, <2>4, <2>5 DEF both, n
<1>5. more[b] = rows \o block /\ (\A c \in BatchNumbers : c # b => more[c] = given[c])
      /\ more = [given EXCEPT ![b] = rows \o block]
  BY <1>1 DEF Drawn, rows
<1>6. more \in [BatchNumbers -> Seq(Row)]
  BY <1>1, <1>4, <1>5
<1>7. \A i \in 1 .. N : block[i].value \in Values
  BY <1>1 DEF Row
<1>8. QED
  BY <1>1, <1>4, <1>5, <1>6, <1>7 DEF DrawnIn, rows, N

LEMMA RowsAdded ==
  ASSUME plan \in Plans, NEW given, NEW b, NEW block, NEW more, Drawn(given, b, block, more)
  PROVE  /\ RowsIn(more) = RowsIn(given) \cup {At(given, b)[i] : i \in 1 .. plan.rowBlock}
         /\ \A i \in 1 .. plan.rowBlock : /\ At(given, b)[i] = <<b, Len(given[b]) + i>> /\ At(given, b)[i] \notin RowsIn(given)
                                          /\ ValuesIn(more)[At(given, b)[i]] = block[i].value
                                          /\ block[i].value \in Values
         /\ \A i, j \in 1 .. plan.rowBlock : At(given, b)[i] = At(given, b)[j] => i = j
         /\ \A x \in RowsIn(given) : x \in RowsIn(more) /\ ValuesIn(more)[x] = ValuesIn(given)[x]
<1> DEFINE N == plan.rowBlock
           n == Len(given[b])
           at == At(given, b)
<1>1. /\ N \in Nat /\ n \in Nat /\ b \in BatchNumbers
      /\ DOMAIN given[b] = 1 .. n /\ DOMAIN more[b] = 1 .. n + N
      /\ \A c \in BatchNumbers : c # b => more[c] = given[c]
      /\ \A i \in DOMAIN given[b] : more[b][i] = given[b][i]
      /\ \A i \in 1 .. N : more[b][n + i] = block[i] /\ block[i].value \in Values
  <2>1. b \in BatchNumbers
    BY DEF Drawn
  <2>2. QED
    BY <2>1, BlockDrawn
<1>2. \A i \in 1 .. N : at[i] = <<b, n + i>>
  BY DEF At
<1>3. DOMAIN more[b] = DOMAIN given[b] \cup {n + i : i \in 1 .. N}
  <2>1. \A i \in 1 .. n + N : i \in 1 .. n \/ (i - n \in 1 .. N /\ i = n + (i - n))
    BY <1>1
  <2>2. (\A i \in 1 .. n : i \in 1 .. n + N) /\ \A i \in 1 .. N : n + i \in 1 .. n + N
    BY <1>1
  <2> HIDE DEF n, N
  <2>3. QED
    BY <1>1, <2>1, <2>2
<1>4. \A i \in 1 .. N : n + i \notin DOMAIN given[b]
  BY <1>1
<1>5. \A i, j \in 1 .. N : n + i = n + j => i = j
  BY <1>1
<1> HIDE DEF N, n, at
<1>6. \A x : x \in RowsIn(given) <=> \E c \in BatchNumbers : \E i \in DOMAIN given[c] : x = <<c, i>>
  BY DEF RowsIn
<1>7. \A x : x \in RowsIn(more) <=> \E c \in BatchNumbers : \E i \in DOMAIN more[c] : x = <<c, i>>
  BY DEF RowsIn
<1>8. \A i \in 1 .. N : at[i] \notin RowsIn(given) /\ at[i] \in RowsIn(more)
  <2>1. ASSUME NEW i \in 1 .. N PROVE at[i] \notin RowsIn(given)
    BY <1>2, <1>4, <1>6
  <2>2. ASSUME NEW i \in 1 .. N PROVE at[i] \in RowsIn(more)
    BY <1>1, <1>2, <1>3, <1>7
  <2>3. QED
    BY <2>1, <2>2
<1>9. \A x \in RowsIn(given) : x \in RowsIn(more)
  <2>1. \A c \in BatchNumbers : \A i \in DOMAIN given[c] : i \in DOMAIN more[c]
    BY <1>1, <1>3
  <2>2. QED
    BY <1>6, <1>7, <2>1
<1>10. \A x \in RowsIn(more) : x \in RowsIn(given) \/ \E i \in 1 .. N : x = at[i]
  <2>1. ASSUME NEW c \in BatchNumbers, NEW i \in DOMAIN more[c], i \notin DOMAIN given[c]
        PROVE  \E j \in 1 .. N : <<c, i>> = at[j]
    <3>1. c = b
      BY <1>1, <2>1
    <3>2. PICK j \in 1 .. N : i = n + j
      BY <1>3, <2>1, <3>1
    <3>3. QED
      BY <1>2, <3>1, <3>2
  <2>2. QED
    BY <1>6, <1>7, <2>1
<1>11. \A x \in RowsIn(given) : more[x[1]][x[2]] = given[x[1]][x[2]]
  <2>1. \A c \in BatchNumbers : \A i \in DOMAIN given[c] : more[c][i] = given[c][i]
    BY <1>1
  <2>2. \A x \in RowsIn(given) : x[1] \in BatchNumbers /\ x[2] \in DOMAIN given[x[1]]
    BY <1>6
  <2>3. QED
    BY <2>1, <2>2
<1>12. \A x \in RowsIn(given) : ValuesIn(more)[x] = ValuesIn(given)[x]
  BY <1>9, <1>11 DEF ValuesIn
<1>13. \A i \in 1 .. N : ValuesIn(more)[at[i]] = block[i].value
  <2>1. ASSUME NEW i \in 1 .. N PROVE ValuesIn(more)[at[i]] = block[i].value
    <3>1. at[i][1] = b /\ at[i][2] = n + i
      BY <1>2
    <3>2. ValuesIn(more)[at[i]] = more[b][n + i].value
      BY <1>8, <3>1 DEF ValuesIn
    <3>3. QED
      BY <1>1, <3>2
  <2>2. QED
    BY <2>1
<1>14. RowsIn(more) = RowsIn(given) \cup {at[i] : i \in 1 .. N}
  BY <1>8, <1>9, <1>10
<1>15. \A i, j \in 1 .. N : at[i] = at[j] => i = j
  BY <1>2, <1>5
<1>16. QED
  BY <1>1, <1>2, <1>8, <1>9, <1>12, <1>13, <1>14, <1>15 DEF at, n, N

LEMMA SampleAdded ==
  ASSUME plan \in Plans, NEW given, NEW b, NEW block, NEW more, Drawn(given, b, block, more), NEW s
  PROVE  SampledBy(more, s) = SampledBy(given, s)
           \cup {x \in {At(given, b)[i] : i \in SampledRows(Start(given, b))} : b % plan.shards = s}
<1> DEFINE at == At(given, b)
           n == Len(given[b])
           R == SampledRows(Start(given, b))
           N == plan.rowBlock
<1>1. /\ RowsIn(more) = RowsIn(given) \cup {at[i] : i \in 1 .. N}
      /\ \A i \in 1 .. N : at[i] = <<b, n + i>>
  BY RowsAdded
<1>2. Start(given, b) = b * plan.rowsEstimate + n /\ Start(given, b) \in Nat /\ b * plan.rowsEstimate \in Nat /\ n \in Nat
  <2>1. b \in Nat /\ n \in Nat /\ plan.rowsEstimate \in Nat
    BY PlanIs, BlockDrawn DEF Drawn, BatchNumbers
  <2>2. b * plan.rowsEstimate \in Nat
    BY ONLY <2>1
  <2>3. QED
    BY <2>1, <2>2 DEF Start
<1>3. R \subseteq 1 .. N
  BY DEF SampledRows
<1>4. \A i \in 1 .. N : i \in R <=> (b * plan.rowsEstimate + (n + i) - 1) % plan.stride = 0
  <2>1. ASSUME NEW i \in 1 .. N PROVE i \in R <=> (Start(given, b) + i - 1) % plan.stride = 0
    BY <1>2, SampledAre
  <2>2. \A i \in 1 .. N : Start(given, b) + i - 1 = b * plan.rowsEstimate + (n + i) - 1
    <3> DEFINE c == b * plan.rowsEstimate
    <3>1. c \in Nat /\ Start(given, b) = c + n /\ N \in Nat
      BY <1>2, PlanIs
    <3> HIDE DEF c
    <3>2. \A i \in 1 .. N : Start(given, b) + i - 1 = c + (n + i) - 1
      BY <1>2, <3>1
    <3>3. QED
      BY <3>2 DEF c
  <2>3. QED
    BY <2>1, <2>2
<1> HIDE DEF at, n, R, N
<1> DEFINE new == {at[i] : i \in R}
<1>5. \A i \in 1 .. N : at[i] \in SampledBy(more, s) <=> i \in R /\ b % plan.shards = s
  <2>1. ASSUME NEW i \in 1 .. N PROVE at[i] \in SampledBy(more, s) <=> i \in R /\ b % plan.shards = s
    <3>1. at[i] \in RowsIn(more) /\ at[i][1] = b /\ at[i][2] = n + i
      BY <1>1
    <3>2. QED
      BY <1>4, <3>1 DEF SampledBy, SampleIn
  <2>2. QED
    BY <2>1
<1>6. \A x \in RowsIn(given) : x \in SampledBy(more, s) <=> x \in SampledBy(given, s)
  BY <1>1 DEF SampledBy, SampleIn
<1>7. SampledBy(more, s) \subseteq RowsIn(more) /\ SampledBy(given, s) \subseteq RowsIn(given)
  BY DEF SampledBy, SampleIn
<1>8. SampledBy(more, s) = SampledBy(given, s) \cup {x \in {at[i] : i \in R} : b % plan.shards = s}
  BY <1>1, <1>3, <1>5, <1>6, <1>7
<1>9. QED
  BY <1>8 DEF at, R

-----------------------------------------------------------------------------
(* The figures of a shard: of its batches done, and of what is sampled of  *)
(* its rows.                                                               *)
OfShard(given, next, s) ==
  FiguresOf(RecordsIn(given), TruthsIn(given), ValuesIn(given), DoneBy(next, s), SampledBy(given, s))

LEMMA StatsCounted ==
  ASSUME plan \in Plans, NEW given, NEW b, NEW block, NEW more, Drawn(given, b, block, more)
  PROVE  ObserveBlock(StatsOf(ValuesIn(given), SampledBy(given, b % plan.shards)), block, Start(given, b))
           = StatsOf(ValuesIn(more), SampledBy(more, b % plan.shards))
<1> DEFINE xs == SampledBy(given, b % plan.shards)
           at == At(given, b)
           start == Start(given, b)
           values == ValuesIn(more)
<1>1. DrawnIn(given) /\ DrawnIn(more)
  <2>1. DrawnIn(given)
    BY DEF Drawn
  <2>2. QED
    BY <2>1, BlockDrawn
<1>2. /\ RowsIn(more) = RowsIn(given) \cup {at[i] : i \in 1 .. plan.rowBlock}
      /\ \A i \in 1 .. plan.rowBlock : /\ at[i] \notin RowsIn(given) /\ values[at[i]] = block[i].value
                                       /\ block[i].value \in Values
      /\ \A i, j \in 1 .. plan.rowBlock : at[i] = at[j] => i = j
      /\ \A x \in RowsIn(given) : x \in RowsIn(more) /\ values[x] = ValuesIn(given)[x]
  BY RowsAdded
<1>3. xs \subseteq RowsIn(given) /\ xs \in SUBSET RowsIn(more)
  BY <1>2 DEF SampledBy, SampleIn
<1>4. SampledBy(more, b % plan.shards) = xs \cup {at[i] : i \in SampledRows(start)}
  <2> DEFINE s == b % plan.shards
  <2>1. s = b % plan.shards
    OBVIOUS
  <2>2. SampledBy(more, s) = SampledBy(given, s) \cup {x \in {at[i] : i \in SampledRows(start)} : b % plan.shards = s}
    BY SampleAdded
  <2>3. QED
    BY <2>2
<1>5. Valued(values, xs)
  BY <1>1, <1>3, RowsAre
<1> HIDE DEF xs, at, start, values
<1>6. StatsOf(ValuesIn(given), xs) = StatsOf(values, xs)
  <2>1. \A x \in xs : ValuesIn(given)[x] = values[x]
    BY <1>2, <1>3
  <2>2. QED
    BY <2>1, StatsAgree
<1>7. \A i \in 1 .. plan.rowBlock : at[i] \notin xs /\ values[at[i]] = block[i].value /\ block[i].value \in Values
  BY <1>2, <1>3
<1>8. ObserveBlock(StatsOf(values, xs), block, start) = StatsOf(values, xs \cup {at[i] : i \in SampledRows(start)})
  BY <1>2, <1>5, <1>7, BlockObserved
<1>9. QED
  BY <1>4, <1>6, <1>8 DEF xs, start, values

(* Records and truth of batches that a block leaves alone.                 *)
LEMMA BatchesKeep ==
  ASSUME NEW given, NEW more, NEW bs \in SUBSET BatchNumbers, \A c \in bs : more[c] = given[c]
  PROVE  /\ {RecordsIn(more)[c] : c \in bs} = {RecordsIn(given)[c] : c \in bs}
         /\ TruthOf(TruthsIn(more), bs) = TruthOf(TruthsIn(given), bs)
<1>2. \A c \in bs : RecordsIn(more)[c] = RecordsIn(given)[c] /\ TruthsIn(more)[c] = TruthsIn(given)[c]
  BY DEF RecordsIn, TruthsIn
<1>3. {RecordsIn(more)[c] : c \in bs} = {RecordsIn(given)[c] : c \in bs}
  BY <1>2
<1>4. TruthOf(TruthsIn(more), bs) = TruthOf(TruthsIn(given), bs)
  BY <1>2, TruthAgrees
<1>5. QED
  BY <1>3, <1>4

LEMMA OtherShardKeeps ==
  ASSUME plan \in Plans, NEW given, NEW b, NEW block, NEW more, Drawn(given, b, block, more),
         NEW next, NEW later, NEW s, s # b % plan.shards, later[s] = next[s]
  PROVE  OfShard(more, later, s) = OfShard(given, next, s)
<1> DEFINE bs == DoneBy(next, s)
           xs == SampledBy(given, s)
<1>1. DoneBy(later, s) = bs /\ bs \in SUBSET BatchNumbers /\ b \notin bs
  BY DEF DoneBy
<1>2. SampledBy(more, s) = xs /\ xs \subseteq RowsIn(given)
  <2>1. SampledBy(more, s) = xs
    <3>1. SampledBy(more, s) = xs \cup {x \in {At(given, b)[i] : i \in SampledRows(Start(given, b))} : b % plan.shards = s}
      BY SampleAdded
    <3>2. {x \in {At(given, b)[i] : i \in SampledRows(Start(given, b))} : b % plan.shards = s} = {}
      OBVIOUS
    <3>3. QED
      BY <3>1, <3>2
  <2>2. QED
    BY <2>1 DEF SampledBy, SampleIn
<1> HIDE DEF bs, xs
<1>3. {RecordsIn(more)[c] : c \in bs} = {RecordsIn(given)[c] : c \in bs} /\ TruthOf(TruthsIn(more), bs) = TruthOf(TruthsIn(given), bs)
  <2>1. \A c \in BatchNumbers : c # b => more[c] = given[c]
    BY BlockDrawn
  <2>2. bs \in SUBSET BatchNumbers /\ \A c \in bs : more[c] = given[c]
    BY <1>1, <2>1
  <2>3. {RecordsIn(more)[c] : c \in bs} = {RecordsIn(given)[c] : c \in bs} /\ TruthOf(TruthsIn(more), bs) = TruthOf(TruthsIn(given), bs)
    BY <2>2, BatchesKeep
  <2>4. QED
    BY <2>3
<1>4. StatsOf(ValuesIn(more), xs) = StatsOf(ValuesIn(given), xs)
  <2>1. \A x \in xs : ValuesIn(more)[x] = ValuesIn(given)[x]
    BY <1>2, RowsAdded
  <2>2. QED
    BY <2>1, StatsAgree
<1>5. QED
  BY <1>1, <1>2, <1>3, <1>4 DEF OfShard, FiguresOf, bs, xs

(* A block that does not fill its batch, and one that does.                *)
LEMMA BlockCounted ==
  ASSUME plan \in Plans, NEW given, NEW b, NEW block, NEW more, Drawn(given, b, block, more),
         NEW next, NEW later, NEW s, s = b % plan.shards, next[s] = b, later[s] = b
  PROVE  [OfShard(given, next, s) EXCEPT !.stats = ObserveBlock(@, block, Start(given, b))] = OfShard(more, later, s)
<1> DEFINE bs == DoneBy(next, s)
<1>1. DoneBy(later, s) = bs /\ bs \in SUBSET BatchNumbers /\ b \notin bs
  <2>1. ~(b < b)
    <3>1. b \in Nat
      BY DEF Drawn, BatchNumbers
    <3>2. QED
      BY <3>1
  <2>2. QED
    BY <2>1 DEF DoneBy
<1> HIDE DEF bs
<1>2. {RecordsIn(more)[c] : c \in bs} = {RecordsIn(given)[c] : c \in bs} /\ TruthOf(TruthsIn(more), bs) = TruthOf(TruthsIn(given), bs)
  <2>1. \A c \in BatchNumbers : c # b => more[c] = given[c]
    BY BlockDrawn
  <2>2. bs \in SUBSET BatchNumbers /\ \A c \in bs : more[c] = given[c]
    BY <1>1, <2>1
  <2>3. {RecordsIn(more)[c] : c \in bs} = {RecordsIn(given)[c] : c \in bs} /\ TruthOf(TruthsIn(more), bs) = TruthOf(TruthsIn(given), bs)
    BY <2>2, BatchesKeep
  <2>4. QED
    BY <2>3
<1>3. ObserveBlock(StatsOf(ValuesIn(given), SampledBy(given, s)), block, Start(given, b)) = StatsOf(ValuesIn(more), SampledBy(more, s))
  BY StatsCounted
<1> DEFINE r == {RecordsIn(given)[c] : c \in bs}
           t == TruthOf(TruthsIn(given), bs)
           old == StatsOf(ValuesIn(given), SampledBy(given, s))
           new == StatsOf(ValuesIn(more), SampledBy(more, s))
<1>4. OfShard(given, next, s) = [records |-> r, truth |-> t, stats |-> old]
  BY DEF OfShard, FiguresOf, bs
<1>5. OfShard(more, later, s) = [records |-> r, truth |-> t, stats |-> new]
  BY <1>1, <1>2 DEF OfShard, FiguresOf
<1>6. ObserveBlock(old, block, Start(given, b)) = new
  BY <1>3
<1> HIDE DEF r, t, old, new
<1>7. QED
  BY <1>4, <1>5, <1>6

LEMMA AddBatchIs ==
  ASSUME NEW r, NEW t, NEW st, NEW b, NEW rows
  PROVE  AddBatch([records |-> r, truth |-> t, stats |-> st], b, rows) =
           [records |-> r \cup {BatchRecord(b, rows)}, truth |-> AddTruth(t, BatchTruth(b, rows)), stats |-> st]
<1> DEFINE f == [records |-> r, truth |-> t, stats |-> st]
           p == r \cup {BatchRecord(b, rows)}
           q == AddTruth(t, BatchTruth(b, rows))
           g == [f EXCEPT !.records = p, !.truth = q]
<1>1. AddBatch(f, b, rows) = g
  BY DEF AddBatch
<1> HIDE DEF p, q
<1>2. DOMAIN g = {"records", "truth", "stats"} /\ g.records = p /\ g.truth = q /\ g.stats = st
  OBVIOUS
<1>3. g = [i \in {"records", "truth", "stats"} |-> g[i]]
  OBVIOUS
<1> HIDE DEF g
<1>4. g = [records |-> g.records, truth |-> g.truth, stats |-> g.stats]
  BY <1>2, <1>3
<1>5. QED
  BY <1>1, <1>2, <1>4 DEF p, q

LEMMA BatchCounted ==
  ASSUME plan \in Plans, NEW given, NEW b, NEW block, NEW more, Drawn(given, b, block, more),
         NEW next, NEW later, NEW s, s = b % plan.shards, next[s] = b, later[s] = b + plan.shards
  PROVE  AddBatch([OfShard(given, next, s) EXCEPT !.stats = ObserveBlock(@, block, Start(given, b))], b, more[b])
           = OfShard(more, later, s)
<1> DEFINE bs == DoneBy(next, s)
           t == TruthsIn(more)
           rest == [OfShard(given, next, s) EXCEPT !.stats = ObserveBlock(@, block, Start(given, b))]
<1>1. b \in Nat /\ b \in BatchNumbers /\ DrawnIn(more) /\ plan.shards \in Nat \ {0}
  <2>1. b \in Nat /\ b \in BatchNumbers
    BY DEF Drawn, BatchNumbers
  <2>2. QED
    BY <2>1, BlockDrawn, PlanIs
<1>2. DoneBy(later, s) = bs \cup {b} /\ bs \in SUBSET BatchNumbers /\ b \notin bs
  <2>1. b \notin bs /\ bs \in SUBSET BatchNumbers
    BY <1>1 DEF DoneBy
  <2>2. ASSUME NEW c \in BatchNumbers, c % plan.shards = s PROVE c < later[s] <=> c < b \/ c = b
    <3>1. c \in Nat
      BY DEF BatchNumbers
    <3>2. b < c => b + plan.shards <= c
      BY <1>1, <2>2, <3>1, Turns
    <3>3. QED
      BY <1>1, <3>1, <3>2
  <2>3. QED
    BY <1>1, <2>1, <2>2 DEF DoneBy
<1> HIDE DEF bs
<1>3. {RecordsIn(more)[c] : c \in bs} = {RecordsIn(given)[c] : c \in bs} /\ TruthOf(t, bs) = TruthOf(TruthsIn(given), bs)
  <2>1. \A c \in BatchNumbers : c # b => more[c] = given[c]
    BY BlockDrawn
  <2>2. bs \in SUBSET BatchNumbers /\ \A c \in bs : more[c] = given[c]
    BY <1>2, <2>1
  <2>3. {RecordsIn(more)[c] : c \in bs} = {RecordsIn(given)[c] : c \in bs} /\ TruthOf(TruthsIn(more), bs) = TruthOf(TruthsIn(given), bs)
    BY <2>2, BatchesKeep
  <2>4. QED
    BY <2>3
<1>4. rest.records = {RecordsIn(more)[c] : c \in bs} /\ rest.truth = TruthOf(t, bs)
      /\ rest = [records |-> rest.records, truth |-> rest.truth, stats |-> StatsOf(ValuesIn(more), SampledBy(more, s))]
  <2>1. ObserveBlock(StatsOf(ValuesIn(given), SampledBy(given, s)), block, Start(given, b)) = StatsOf(ValuesIn(more), SampledBy(more, s))
    BY StatsCounted
  <2> DEFINE r == {RecordsIn(given)[c] : c \in bs}
             u == TruthOf(TruthsIn(given), bs)
             old == StatsOf(ValuesIn(given), SampledBy(given, s))
             new == StatsOf(ValuesIn(more), SampledBy(more, s))
  <2>2. OfShard(given, next, s) = [records |-> r, truth |-> u, stats |-> old]
    BY DEF OfShard, FiguresOf, bs
  <2>3. {RecordsIn(more)[c] : c \in bs} = r /\ TruthOf(t, bs) = u
    BY <1>3
  <2>4. ObserveBlock(old, block, Start(given, b)) = new
    BY <2>1
  <2> HIDE DEF r, u, old, new, t
  <2>5. rest = [records |-> r, truth |-> u, stats |-> new]
    BY <2>2, <2>4
  <2>6. QED
    BY <2>3, <2>5 DEF new
<1>5. RecordsIn(more)[b] = BatchRecord(b, more[b]) /\ t[b] = BatchTruth(b, more[b])
  BY <1>1 DEF RecordsIn, TruthsIn
<1> HIDE DEF t, rest
<1>6. AddTruth(TruthOf(t, bs), t[b]) = TruthOf(t, bs \cup {b})
  <2>1. bs \cup {b} \in SUBSET BatchNumbers /\ bs \cap {b} = {}
    BY <1>1, <1>2
  <2>2. Truths(t, bs \cup {b})
    BY <1>1, <2>1, TruthsAre DEF t
  <2>3. TruthOf(t, {b}) = t[b]
    <3>1. t[b] \in TruthType
      BY <2>2 DEF Truths
    <3>2. QED
      BY <3>1, TruthOfOne
  <2>4. AddTruth(TruthOf(t, bs), TruthOf(t, {b})) = TruthOf(t, bs \cup {b})
    BY <2>1, <2>2, TruthAdds
  <2>5. QED
    BY <2>3, <2>4
<1>7. AddBatch(rest, b, more[b]) =
        [records |-> rest.records \cup {RecordsIn(more)[b]}, truth |-> AddTruth(rest.truth, t[b]),
         stats |-> StatsOf(ValuesIn(more), SampledBy(more, s))]
  <2> DEFINE new == StatsOf(ValuesIn(more), SampledBy(more, s))
             r == rest.records
             u == rest.truth
  <2>1. rest = [records |-> r, truth |-> u, stats |-> new]
    BY <1>4
  <2> HIDE DEF r, u, new
  <2>2. AddBatch(rest, b, more[b]) =
          [records |-> r \cup {BatchRecord(b, more[b])}, truth |-> AddTruth(u, BatchTruth(b, more[b])), stats |-> new]
    BY <2>1, AddBatchIs
  <2>3. QED
    BY <1>5, <2>2 DEF r, u, new
<1>8. rest.records \cup {RecordsIn(more)[b]} = {RecordsIn(more)[c] : c \in bs \cup {b}}
  BY <1>4
<1>9. AddBatch(rest, b, more[b]) = OfShard(more, later, s)
  BY <1>2, <1>4, <1>6, <1>7, <1>8 DEF OfShard, FiguresOf, t
<1>10. QED
  BY <1>9 DEF rest

(* The figures of all batches are those of the shards that did them.       *)
WholeIn(given) == FiguresOf(RecordsIn(given), TruthsIn(given), ValuesIn(given), BatchNumbers, SampleIn(given))

LEMMA WholeOfShards ==
  ASSUME plan \in Plans, NEW given, DrawnIn(given), NEW next, NEW fs,
         \A s \in ShardNumbers : next[s] \in Nat /\ next[s] >= plan.batches /\ fs[s] = OfShard(given, next, s)
  PROVE  MergedFigures(fs) = WholeIn(given)
<1> DEFINE bs == [s \in ShardNumbers |-> DoneBy(next, s)]
           xs == [s \in ShardNumbers |-> SampledBy(given, s)]
           r == RecordsIn(given)
           t == TruthsIn(given)
           v == ValuesIn(given)
<1>1. \A b \in BatchNumbers : b \in Nat /\ b < plan.batches
  BY PlanIs DEF BatchNumbers
<1>2. \A b \in Nat : b % plan.shards \in ShardNumbers
  BY Turns
<1>3. \A s \in ShardNumbers : bs[s] = {b \in BatchNumbers : b % plan.shards = s}
  <2>1. ASSUME NEW s \in ShardNumbers, NEW b \in BatchNumbers PROVE b < next[s]
    BY <1>1, PlanIs
  <2>2. QED
    BY <2>1 DEF DoneBy
<1>4. UNION {bs[s] : s \in ShardNumbers} = BatchNumbers
  <2>1. \A b \in BatchNumbers : b % plan.shards \in ShardNumbers /\ b \in bs[b % plan.shards]
    BY <1>1, <1>2, <1>3
  <2>2. \A s \in ShardNumbers : bs[s] \subseteq BatchNumbers
    BY <1>3
  <2> HIDE DEF bs
  <2>3. QED
    BY <2>1, <2>2
<1>5. /\ UNION {xs[s] : s \in ShardNumbers} = SampleIn(given)
      /\ \A s \in ShardNumbers : Valued(v, xs[s])
  <2>1. \A x \in SampleIn(given) : x \in RowsIn(given) /\ x[1] \in Nat
    BY RowsAre DEF SampleIn
  <2>2. \A x \in SampleIn(given) : x[1] % plan.shards \in ShardNumbers /\ x \in xs[x[1] % plan.shards]
    BY <1>2, <2>1 DEF SampledBy
  <2>3. \A s \in ShardNumbers : xs[s] \subseteq SampleIn(given)
    BY DEF SampledBy
  <2> HIDE DEF xs
  <2>4. UNION {xs[s] : s \in ShardNumbers} = SampleIn(given)
    BY <2>2, <2>3
  <2>5. \A s \in ShardNumbers : xs[s] \in SUBSET RowsIn(given)
    BY <2>1, <2>3
  <2>6. QED
    BY <2>4, <2>5, RowsAre
<1>6. \A s \in ShardNumbers : Truths(t, bs[s])
  <2>1. \A s \in ShardNumbers : bs[s] \in SUBSET BatchNumbers
    BY <1>3
  <2> HIDE DEF bs, t
  <2>2. ASSUME NEW cs \in SUBSET BatchNumbers PROVE Truths(t, cs)
    BY TruthsAre DEF t
  <2>3. QED
    BY <2>1, <2>2
<1>7. \A s, u \in ShardNumbers : s # u => bs[s] \cap bs[u] = {} /\ xs[s] \cap xs[u] = {}
  <2>1. \A s \in ShardNumbers : /\ \A b \in bs[s] : b % plan.shards = s
                                /\ \A x \in xs[s] : x[1] % plan.shards = s
    BY <1>3 DEF SampledBy
  <2> HIDE DEF bs, xs
  <2>2. QED
    BY <2>1
<1>8. \A s \in ShardNumbers : fs[s] = FiguresOf(r, t, v, bs[s], xs[s])
  BY DEF OfShard
<1> HIDE DEF bs, xs, r, t, v
<1>9. \A s \in ShardNumbers : /\ fs[s] = FiguresOf(r, t, v, bs[s], xs[s])
                              /\ Truths(t, bs[s]) /\ Valued(v, xs[s])
  BY <1>5, <1>6, <1>8
<1>10. MergedFigures(fs) = FiguresOf(r, t, v, UNION {bs[s] : s \in ShardNumbers}, UNION {xs[s] : s \in ShardNumbers})
  BY <1>7, <1>9, ShardsMerged
<1>11. QED
  BY <1>4, <1>5, <1>10 DEF WholeIn, r, t, v

LEMMA OnlyShardIsWhole ==
  ASSUME plan \in Plans, NEW given, DrawnIn(given), NEW next, NEW s \in ShardNumbers,
         plan.shards = 1, next[s] \in Nat, next[s] >= plan.batches
  PROVE  OfShard(given, next, s) = WholeIn(given)
<1>1. \A b \in Nat : b % plan.shards = s
  <2>1. \A b \in Nat : b % plan.shards \in ShardNumbers
    BY Turns
  <2>2. ShardNumbers = {0}
    BY DEF ShardNumbers
  <2>3. QED
    BY <2>1, <2>2
<1>2. \A b \in BatchNumbers : b \in Nat /\ b < next[s]
  BY PlanIs DEF BatchNumbers
<1>3. DoneBy(next, s) = BatchNumbers
  BY <1>1, <1>2 DEF DoneBy
<1>4. SampledBy(given, s) = SampleIn(given)
  <2>1. \A x \in SampleIn(given) : x[1] \in Nat
    BY RowsAre DEF SampleIn
  <2>2. QED
    BY <1>1, <2>1 DEF SampledBy
<1>5. QED
  BY <1>3, <1>4 DEF OfShard, WholeIn

-----------------------------------------------------------------------------
(* The inductive invariant. A shard has the figures of its batches done    *)
(* and of its rows sampled; one is refused for a batch too long or, alone, *)
(* by the gates on the whole corpus; a merge has the figures of the whole. *)
TooLong(given, s) == \E b \in BatchNumbers : b % plan.shards = s /\ Len(given[b]) >= plan.idBlock
Verdict(f) == IF CorpusWide(f) THEN "rejected" ELSE "published"

PlanIsDrawn == plan \in Plans /\ DrawnIn(drawn)
FillsInTurn == filling \in [ShardNumbers -> Nat] /\ \A s \in ShardNumbers : filling[s] % plan.shards = s
ShardsCount == figures = [s \in ShardNumbers |-> OfShard(drawn, filling, s)]
OutcomesAre ==
  /\ outcome \in [ShardNumbers -> {"generating", "published", "rejected"}]
  /\ \A s \in ShardNumbers : outcome[s] = "published" => filling[s] >= plan.batches
  /\ \A s \in ShardNumbers : outcome[s] = "rejected" =>
       TooLong(drawn, s) \/ (filling[s] >= plan.batches /\ plan.shards = 1 /\ CorpusWide(figures[s]))
MergedIsWhole ==
  \/ merged = [figures |-> EmptyFigures, outcome |-> "none"]
  \/ /\ \A s \in ShardNumbers : outcome[s] = "published"
     /\ merged = [figures |-> WholeIn(drawn), outcome |-> Verdict(WholeIn(drawn))]

FiguresInv == PlanIsDrawn /\ FillsInTurn /\ ShardsCount /\ OutcomesAre /\ MergedIsWhole

LEMMA FiguresBegin == FiguresInit => FiguresInv
<1> SUFFICES ASSUME FiguresInit PROVE FiguresInv
  OBVIOUS
<1>1. /\ plan \in Plans /\ drawn = [b \in BatchNumbers |-> <<>>] /\ filling = [s \in ShardNumbers |-> s]
      /\ figures = [s \in ShardNumbers |-> EmptyFigures] /\ outcome = [s \in ShardNumbers |-> "generating"]
      /\ merged = [figures |-> EmptyFigures, outcome |-> "none"]
  BY DEF FiguresInit
<1>2. DrawnIn(drawn)
  <2>1. <<>> \in Seq(Row)
    OBVIOUS
  <2>2. QED
    BY <1>1, <2>1 DEF DrawnIn
<1>3. \A s \in ShardNumbers : s \in Nat /\ s < plan.shards
  BY <1>1, PlanIs DEF ShardNumbers
<1>4. FillsInTurn
  <2>1. \A s \in ShardNumbers : s % plan.shards = s
    <3> DEFINE m == plan.shards
    <3>1. m \in Nat \ {0}
      BY <1>1, PlanIs
    <3> HIDE DEF m
    <3>2. \A s \in Nat : s < m => s % m = s
      BY ONLY <3>1
    <3>3. QED
      BY <1>3, <3>2 DEF m
  <2>2. QED
    BY <1>1, <1>3, <2>1 DEF FillsInTurn
<1>5. RowsIn(drawn) = {}
  BY <1>1 DEF RowsIn
<1>6. \A s \in ShardNumbers : DoneBy(filling, s) = {} /\ SampledBy(drawn, s) = {}
  <2>1. ASSUME NEW s \in ShardNumbers PROVE SampledBy(drawn, s) = {}
    BY <1>5 DEF SampledBy, SampleIn
  <2>2. ASSUME NEW s \in ShardNumbers, NEW b \in BatchNumbers, b % plan.shards = s PROVE ~(b < filling[s])
    <3> DEFINE m == plan.shards
               q == b \div m
    <3>1. m \in Nat \ {0} /\ b \in Nat /\ filling[s] = s /\ b % m = s
      BY <1>1, <2>2, PlanIs DEF BatchNumbers
    <3> HIDE DEF m
    <3>2. b = q * m + s /\ q \in Int /\ s \in Nat
      BY ONLY <3>1
    <3>3. q >= 0
      BY ONLY <3>1
    <3> HIDE DEF q
    <3>4. q * m >= 0 /\ q * m \in Int
      BY ONLY <3>1, <3>2, <3>3
    <3>5. QED
      BY <3>1, <3>2, <3>4
  <2>3. QED
    BY <2>1, <2>2 DEF DoneBy
<1>7. \A s \in ShardNumbers : OfShard(drawn, filling, s) = EmptyFigures
  <2>1. \A x, y, z : FiguresOf(x, y, z, {}, {}) = EmptyFigures
    BY <1>1, FiguresOfNone
  <2>2. QED
    BY <1>6, <2>1 DEF OfShard
<1>8. ShardsCount
  BY <1>1, <1>7 DEF ShardsCount
<1>9. OutcomesAre /\ MergedIsWhole
  BY <1>1 DEF OutcomesAre, MergedIsWhole
<1>10. QED
  BY <1>1, <1>2, <1>4, <1>8, <1>9 DEF FiguresInv, PlanIsDrawn

(* The plan of a generation stays, and with it what is defined by it.      *)
LEMMA PlanStays ==
  ASSUME plan' = plan
  PROVE  /\ ShardNumbers' = ShardNumbers /\ BatchNumbers' = BatchNumbers /\ Row' = Row
         /\ EmptyFigures' = EmptyFigures
         /\ RecordsIn(drawn)' = RecordsIn(drawn')
<1>1. ShardNumbers' = ShardNumbers /\ BatchNumbers' = BatchNumbers /\ Row' = Row
  BY DEF ShardNumbers, BatchNumbers, Row, Keys, Values
<1>2. EmptyFigures' = EmptyFigures
  BY DEF EmptyFigures, NoTruth, EmptyStats, Keys, Values
<1>3. RecordsIn(drawn)' = RecordsIn(drawn')
  BY DEF RecordsIn, BatchNumbers, BatchRecord, ClosedForm, RowSizes, RowId
<1>4. QED
  BY <1>1, <1>2, <1>3

LEMMA WholeStays ==
  ASSUME plan' = plan
  PROVE  WholeIn(drawn)' = WholeIn(drawn') /\ Verdict(WholeIn(drawn))' = Verdict(WholeIn(drawn'))
<1>1. WholeIn(drawn)' = WholeIn(drawn')
  BY DEF WholeIn, FiguresOf, RecordsIn, TruthsIn, ValuesIn, SampleIn, RowsIn, BatchNumbers, StatsOf, Smallest,
         Values, BatchTruth, RowResidues, KeyRows, RowSizes, RowId, Keys, TruthOf, BatchRecord, ClosedForm
<1>2. Verdict(WholeIn(drawn))' = Verdict(WholeIn(drawn'))
  BY <1>1 DEF Verdict, CorpusWide, MeanDeviates, ShareDeviates, KeyWithoutRows, RowTotal, Encoded, KeyWeight, TotalWeight,
              Keys, FoldFunction, FoldFunctionOnSet, MapThenFoldSet
<1>3. QED
  BY <1>1, <1>2

LEMMA ShardStays ==
  ASSUME plan' = plan, NEW s
  PROVE  /\ OfShard(drawn, filling, s)' = OfShard(drawn', filling', s)
         /\ TooLong(drawn, s)' <=> TooLong(drawn', s)
         /\ CorpusWide(figures[s])' <=> CorpusWide(figures'[s])
<1>1. OfShard(drawn, filling, s)' = OfShard(drawn', filling', s)
  BY DEF OfShard, DoneBy, SampledBy, FiguresOf, RecordsIn, TruthsIn, ValuesIn, SampleIn, RowsIn, BatchNumbers, StatsOf,
         Smallest, Values, BatchTruth, RowResidues, KeyRows, RowSizes, RowId, Keys, TruthOf, BatchRecord, ClosedForm
<1>2. TooLong(drawn, s)' <=> TooLong(drawn', s)
  BY DEF TooLong, BatchNumbers
<1>3. CorpusWide(figures[s])' <=> CorpusWide(figures'[s])
  BY DEF CorpusWide, MeanDeviates, ShareDeviates, KeyWithoutRows, RowTotal, Encoded, KeyWeight, TotalWeight, Keys,
         FoldFunction, FoldFunctionOnSet, MapThenFoldSet
<1>4. QED
  BY <1>1, <1>2, <1>3

(* The invariant of the next state, with the plan of this one.             *)
LEMMA NextHolds ==
  ASSUME plan' = plan, plan \in Plans, DrawnIn(drawn'),
         filling' \in [ShardNumbers -> Nat], \A s \in ShardNumbers : filling'[s] % plan.shards = s,
         figures' = [s \in ShardNumbers |-> OfShard(drawn', filling', s)],
         outcome' \in [ShardNumbers -> {"generating", "published", "rejected"}],
         \A s \in ShardNumbers : outcome'[s] = "published" => filling'[s] >= plan.batches,
         \A s \in ShardNumbers : outcome'[s] = "rejected" =>
           TooLong(drawn', s) \/ (filling'[s] >= plan.batches /\ plan.shards = 1 /\ CorpusWide(figures'[s])),
         \/ merged' = [figures |-> EmptyFigures, outcome |-> "none"]
         \/ /\ \A s \in ShardNumbers : outcome'[s] = "published"
            /\ merged' = [figures |-> WholeIn(drawn'), outcome |-> Verdict(WholeIn(drawn'))]
  PROVE  FiguresInv'
<1>1. PlanIsDrawn'
  BY PlanStays DEF PlanIsDrawn, DrawnIn
<1>2. FillsInTurn'
  BY PlanStays DEF FillsInTurn
<1>3. ShardsCount'
  <2>1. ASSUME NEW s \in ShardNumbers PROVE OfShard(drawn, filling, s)' = OfShard(drawn', filling', s)
    BY ShardStays
  <2>2. ShardNumbers' = ShardNumbers
    BY PlanStays
  <2>3. QED
    BY <2>1, <2>2 DEF ShardsCount
<1>4. OutcomesAre'
  <2>1. ASSUME NEW s \in ShardNumbers
        PROVE  (TooLong(drawn, s)' <=> TooLong(drawn', s)) /\ (CorpusWide(figures[s])' <=> CorpusWide(figures'[s]))
    BY ShardStays
  <2>2. ShardNumbers' = ShardNumbers
    BY PlanStays
  <2>3. QED
    BY <2>1, <2>2 DEF OutcomesAre
<1>5. MergedIsWhole'
  BY PlanStays, WholeStays DEF MergedIsWhole
<1>6. QED
  BY <1>1, <1>2, <1>3, <1>4, <1>5 DEF FiguresInv

(* The steps: a block, the end of a shard and the merge.                   *)
LEMMA FillKeeps ==
  ASSUME FiguresInv, NEW s \in ShardNumbers, FillBlock(s)
  PROVE  FiguresInv'
<1> DEFINE b == filling[s]
<1>1. /\ plan \in Plans /\ DrawnIn(drawn) /\ filling \in [ShardNumbers -> Nat] /\ b \in Nat
      /\ \A t \in ShardNumbers : filling[t] % plan.shards = t
      /\ figures = [t \in ShardNumbers |-> OfShard(drawn, filling, t)]
      /\ outcome \in [ShardNumbers -> {"generating", "published", "rejected"}]
      /\ \A t \in ShardNumbers : outcome[t] = "published" => filling[t] >= plan.batches
      /\ \A t \in ShardNumbers : outcome[t] = "rejected" =>
           TooLong(drawn, t) \/ (filling[t] >= plan.batches /\ plan.shards = 1 /\ CorpusWide(figures[t]))
  BY DEF FiguresInv, PlanIsDrawn, FillsInTurn, ShardsCount, OutcomesAre
<1>2. outcome[s] = "generating" /\ b < plan.batches /\ plan' = plan /\ merged' = merged
  BY DEF FillBlock
<1> DEFINE Counted(block) == [figures[s] EXCEPT !.stats = ObserveBlock(@, block, Start(drawn, b))]
<1>3. PICK block \in [1 .. plan.rowBlock -> Row] :
        /\ drawn' = [drawn EXCEPT ![b] = drawn[b] \o block]
        /\ outcome' = [outcome EXCEPT ![s] = IF Len(drawn[b] \o block) >= plan.idBlock THEN "rejected" ELSE @]
        /\ \E full \in BOOLEAN :
             /\ figures' = [figures EXCEPT ![s] = IF full THEN AddBatch(Counted(block), b, drawn[b] \o block) ELSE Counted(block)]
             /\ filling' = [filling EXCEPT ![s] = IF full THEN b + plan.shards ELSE b]
  BY DEF FillBlock, Start
<1>4. PICK full \in BOOLEAN :
        /\ figures' = [figures EXCEPT ![s] = IF full THEN AddBatch(Counted(block), b, drawn[b] \o block) ELSE Counted(block)]
        /\ filling' = [filling EXCEPT ![s] = IF full THEN b + plan.shards ELSE b]
  BY <1>3
<1>5. Drawn(drawn, b, block, drawn')
  <2>1. b \in BatchNumbers
    BY <1>1, <1>2, PlanIs DEF BatchNumbers
  <2>2. QED
    BY <1>1, <1>3, <2>1 DEF Drawn
<1>6. DrawnIn(drawn') /\ drawn'[b] = drawn[b] \o block /\ \A c \in BatchNumbers : c # b => drawn'[c] = drawn[c]
  BY <1>1, <1>5, BlockDrawn
<1>7. b % plan.shards = s /\ b + plan.shards \in Nat /\ (b + plan.shards) % plan.shards = s
  BY <1>1, Turns
<1> HIDE DEF b
<1>8. /\ filling' \in [ShardNumbers -> Nat]
      /\ filling'[s] = IF full THEN b + plan.shards ELSE b
      /\ \A t \in ShardNumbers : t # s => filling'[t] = filling[t]
  BY <1>1, <1>4, <1>7
<1>9. \A t \in ShardNumbers : filling'[t] % plan.shards = t
  BY <1>1, <1>7, <1>8
<1>10. ASSUME NEW t \in ShardNumbers, t # s
       PROVE  figures'[t] = OfShard(drawn', filling', t) /\ figures'[t] = figures[t]
  <2>1. figures'[t] = figures[t] /\ figures[t] = OfShard(drawn, filling, t)
    BY <1>1, <1>4, <1>10
  <2>2. OfShard(drawn', filling', t) = OfShard(drawn, filling, t)
    BY <1>1, <1>5, <1>7, <1>8, <1>10, OtherShardKeeps
  <2>3. QED
    BY <2>1, <2>2
<1>11. figures'[s] = OfShard(drawn', filling', s)
  <2>1. figures[s] = OfShard(drawn, filling, s) /\ filling[s] = b
    BY <1>1 DEF b
  <2>2. Counted(block) = [OfShard(drawn, filling, s) EXCEPT !.stats = ObserveBlock(@, block, Start(drawn, b))]
    BY <2>1
  <2>3. figures'[s] = IF full THEN AddBatch(Counted(block), b, drawn'[b]) ELSE Counted(block)
    BY <1>1, <1>4, <1>6
  <2>4. CASE full
    <3>1. AddBatch([OfShard(drawn, filling, s) EXCEPT !.stats = ObserveBlock(@, block, Start(drawn, b))], b, drawn'[b])
            = OfShard(drawn', filling', s)
      BY <1>1, <1>5, <1>7, <1>8, <2>1, <2>4, BatchCounted
    <3>2. QED
      BY <2>2, <2>3, <2>4, <3>1
  <2>5. CASE ~full
    <3>1. [OfShard(drawn, filling, s) EXCEPT !.stats = ObserveBlock(@, block, Start(drawn, b))] = OfShard(drawn', filling', s)
      BY <1>1, <1>5, <1>7, <1>8, <2>1, <2>5, BlockCounted
    <3>2. QED
      BY <2>2, <2>3, <2>5, <3>1
  <2>6. QED
    BY <2>4, <2>5
<1>12. figures' = [t \in ShardNumbers |-> OfShard(drawn', filling', t)]
  <2>1. figures' = [t \in ShardNumbers |-> figures'[t]]
    BY <1>1, <1>4
  <2>2. \A t \in ShardNumbers : figures'[t] = OfShard(drawn', filling', t)
    BY <1>10, <1>11
  <2>3. QED
    BY <2>1, <2>2
<1>13. /\ outcome' \in [ShardNumbers -> {"generating", "published", "rejected"}]
       /\ outcome'[s] = (IF Len(drawn'[b]) >= plan.idBlock THEN "rejected" ELSE "generating")
       /\ \A t \in ShardNumbers : t # s => outcome'[t] = outcome[t]
  BY <1>1, <1>2, <1>3, <1>6
<1>14. \A t \in ShardNumbers : outcome'[t] = "published" => filling'[t] >= plan.batches
  BY <1>1, <1>8, <1>13
<1>15. ASSUME NEW t \in ShardNumbers, outcome'[t] = "rejected"
       PROVE  TooLong(drawn', t) \/ (filling'[t] >= plan.batches /\ plan.shards = 1 /\ CorpusWide(figures'[t]))
  <2>1. CASE t = s
    <3>1. Len(drawn'[b]) >= plan.idBlock
      BY <1>13, <1>15, <2>1
    <3>2. b \in BatchNumbers
      BY <1>5 DEF Drawn
    <3>3. QED
      BY <1>7, <2>1, <3>1, <3>2 DEF TooLong
  <2>2. CASE t # s
    <3>1. outcome[t] = "rejected" /\ filling'[t] = filling[t] /\ figures'[t] = figures[t]
      BY <1>8, <1>10, <1>13, <1>15, <2>2
    <3>2. TooLong(drawn, t) => TooLong(drawn', t)
      BY <1>6, <1>7, <2>2 DEF TooLong
    <3>3. QED
      BY <1>1, <3>1, <3>2
  <2>3. QED
    BY <2>1, <2>2
<1>16. merged' = [figures |-> EmptyFigures, outcome |-> "none"]
  BY <1>2 DEF FiguresInv, MergedIsWhole
<1>17. QED
  BY <1>1, <1>2, <1>6, <1>8, <1>9, <1>12, <1>13, <1>14, <1>15, <1>16, NextHolds

LEMMA PublishKeeps ==
  ASSUME FiguresInv, NEW s \in ShardNumbers, PublishShard(s)
  PROVE  FiguresInv'
<1>1. /\ plan \in Plans /\ DrawnIn(drawn) /\ filling \in [ShardNumbers -> Nat]
      /\ \A t \in ShardNumbers : filling[t] % plan.shards = t
      /\ figures = [t \in ShardNumbers |-> OfShard(drawn, filling, t)]
      /\ outcome \in [ShardNumbers -> {"generating", "published", "rejected"}]
      /\ \A t \in ShardNumbers : outcome[t] = "published" => filling[t] >= plan.batches
      /\ \A t \in ShardNumbers : outcome[t] = "rejected" =>
           TooLong(drawn, t) \/ (filling[t] >= plan.batches /\ plan.shards = 1 /\ CorpusWide(figures[t]))
  BY DEF FiguresInv, PlanIsDrawn, FillsInTurn, ShardsCount, OutcomesAre
<1>2. /\ outcome[s] = "generating" /\ filling[s] >= plan.batches /\ plan' = plan /\ merged' = merged
      /\ drawn' = drawn /\ filling' = filling /\ figures' = figures
      /\ outcome' = [outcome EXCEPT ![s] = IF Rejected(figures[s], plan.shards) THEN "rejected" ELSE "published"]
  BY DEF PublishShard
<1>3. /\ outcome' \in [ShardNumbers -> {"generating", "published", "rejected"}]
      /\ outcome'[s] = "rejected" => plan.shards = 1 /\ CorpusWide(figures[s])
      /\ \A t \in ShardNumbers : t # s => outcome'[t] = outcome[t]
  BY <1>1, <1>2 DEF Rejected
<1>4. merged' = [figures |-> EmptyFigures, outcome |-> "none"]
  BY <1>2 DEF FiguresInv, MergedIsWhole
<1>5. \A t \in ShardNumbers : outcome'[t] = "published" => filling'[t] >= plan.batches
  BY <1>1, <1>2, <1>3
<1>6. \A t \in ShardNumbers : outcome'[t] = "rejected" =>
        TooLong(drawn', t) \/ (filling'[t] >= plan.batches /\ plan.shards = 1 /\ CorpusWide(figures'[t]))
  BY <1>1, <1>2, <1>3
<1>7. /\ DrawnIn(drawn') /\ filling' \in [ShardNumbers -> Nat] /\ \A t \in ShardNumbers : filling'[t] % plan.shards = t
      /\ figures' = [t \in ShardNumbers |-> OfShard(drawn', filling', t)]
  BY <1>1, <1>2
<1>8. QED
  BY <1>1, <1>2, <1>3, <1>4, <1>5, <1>6, <1>7, NextHolds

LEMMA MergeKeeps ==
  ASSUME FiguresInv, MergeShards
  PROVE  FiguresInv'
<1>1. /\ plan \in Plans /\ DrawnIn(drawn) /\ filling \in [ShardNumbers -> Nat]
      /\ \A t \in ShardNumbers : filling[t] % plan.shards = t
      /\ figures = [t \in ShardNumbers |-> OfShard(drawn, filling, t)]
      /\ outcome \in [ShardNumbers -> {"generating", "published", "rejected"}]
      /\ \A t \in ShardNumbers : outcome[t] = "published" => filling[t] >= plan.batches
      /\ \A t \in ShardNumbers : outcome[t] = "rejected" =>
           TooLong(drawn, t) \/ (filling[t] >= plan.batches /\ plan.shards = 1 /\ CorpusWide(figures[t]))
  BY DEF FiguresInv, PlanIsDrawn, FillsInTurn, ShardsCount, OutcomesAre
<1>2. /\ \A t \in ShardNumbers : outcome[t] = "published"
      /\ plan' = plan /\ drawn' = drawn /\ filling' = filling /\ figures' = figures /\ outcome' = outcome
      /\ merged' = [figures |-> MergedFigures(figures),
                    outcome |-> IF Rejected(MergedFigures(figures), 1) THEN "rejected" ELSE "published"]
  BY DEF MergeShards
<1>3. MergedFigures(figures) = WholeIn(drawn)
  <2>1. \A t \in ShardNumbers : filling[t] \in Nat /\ filling[t] >= plan.batches /\ figures[t] = OfShard(drawn, filling, t)
    BY <1>1, <1>2
  <2>2. QED
    BY <1>1, <2>1, WholeOfShards
<1>4. merged' = [figures |-> WholeIn(drawn'), outcome |-> Verdict(WholeIn(drawn'))]
  BY <1>2, <1>3 DEF Rejected, Verdict
<1>5. /\ DrawnIn(drawn') /\ filling' \in [ShardNumbers -> Nat] /\ \A t \in ShardNumbers : filling'[t] % plan.shards = t
      /\ figures' = [t \in ShardNumbers |-> OfShard(drawn', filling', t)]
      /\ outcome' \in [ShardNumbers -> {"generating", "published", "rejected"}]
      /\ \A t \in ShardNumbers : outcome'[t] = "published"
  BY <1>1, <1>2
<1>6. \A t \in ShardNumbers : outcome'[t] = "published" => filling'[t] >= plan.batches
  BY <1>1, <1>2
<1>7. \A t \in ShardNumbers : outcome'[t] = "rejected" =>
        TooLong(drawn', t) \/ (filling'[t] >= plan.batches /\ plan.shards = 1 /\ CorpusWide(figures'[t]))
  BY <1>5
<1>8. QED
  BY <1>1, <1>2, <1>4, <1>5, <1>6, <1>7, NextHolds

LEMMA FiguresInductive == FiguresInv /\ [FiguresNext]_figuresVars => FiguresInv'
<1> SUFFICES ASSUME FiguresInv, [FiguresNext]_figuresVars PROVE FiguresInv'
  OBVIOUS
<1>1. CASE MergeShards
  BY <1>1, MergeKeeps
<1>2. ASSUME NEW s \in ShardNumbers, FillBlock(s) PROVE FiguresInv'
  BY <1>2, FillKeeps
<1>3. ASSUME NEW s \in ShardNumbers, PublishShard(s) PROVE FiguresInv'
  BY <1>3, PublishKeeps
<1>4. CASE UNCHANGED figuresVars
  <2>1. /\ plan' = plan /\ drawn' = drawn /\ filling' = filling /\ figures' = figures /\ outcome' = outcome
        /\ merged' = merged
    BY <1>4 DEF figuresVars
  <2>2. /\ plan \in Plans /\ DrawnIn(drawn') /\ filling' \in [ShardNumbers -> Nat]
        /\ \A t \in ShardNumbers : filling'[t] % plan.shards = t
        /\ figures' = [t \in ShardNumbers |-> OfShard(drawn', filling', t)]
        /\ outcome' \in [ShardNumbers -> {"generating", "published", "rejected"}]
        /\ \A t \in ShardNumbers : outcome'[t] = "published" => filling'[t] >= plan.batches
        /\ \A t \in ShardNumbers : outcome'[t] = "rejected" =>
             TooLong(drawn', t) \/ (filling'[t] >= plan.batches /\ plan.shards = 1 /\ CorpusWide(figures'[t]))
    BY <2>1 DEF FiguresInv, PlanIsDrawn, FillsInTurn, ShardsCount, OutcomesAre
  <2>3. \/ merged' = [figures |-> EmptyFigures, outcome |-> "none"]
        \/ /\ \A s \in ShardNumbers : outcome'[s] = "published"
           /\ merged' = [figures |-> WholeIn(drawn'), outcome |-> Verdict(WholeIn(drawn'))]
    BY <2>1 DEF FiguresInv, MergedIsWhole
  <2>4. QED
    BY <2>1, <2>2, <2>3, NextHolds
<1>5. QED
  BY <1>1, <1>2, <1>3, <1>4 DEF FiguresNext

(* In a state of the invariant the figures are those of the rows.          *)
LEMMA WholeIsTheRows == WholeIn(drawn) = WholeFigures /\ WholeFigures.stats = StatsOf(ValueAt, Sample)
<1>1. RowsIn(drawn) = DrawnRows
  BY DEF RowsIn, DrawnRows
<1>2. SampleIn(drawn) = Sample /\ ValuesIn(drawn) = ValueAt /\ TruthsIn(drawn) = BatchTruths
  BY <1>1 DEF SampleIn, Sample, ValuesIn, ValueAt, TruthsIn, BatchTruths
<1>3. {RecordsIn(drawn)[b] : b \in BatchNumbers} = {BatchRecord(b, drawn[b]) : b \in BatchNumbers}
  BY DEF RecordsIn
<1>4. WholeIn(drawn) = WholeFigures
  BY <1>2, <1>3 DEF WholeIn, FiguresOf, WholeFigures
<1>5. WholeFigures.stats = StatsOf(ValueAt, Sample)
  BY DEF WholeFigures
<1>6. QED
  BY <1>4, <1>5

LEMMA MergedIs ==
  ASSUME FiguresInv
  PROVE  \/ merged.figures = EmptyFigures /\ merged.outcome = "none"
         \/ /\ merged.figures = WholeFigures /\ merged.outcome = Verdict(WholeFigures)
            /\ \A s \in ShardNumbers : outcome[s] = "published"
BY WholeIsTheRows DEF FiguresInv, MergedIsWhole

LEMMA InvariantIsTheSample == FiguresInv => MergedStatsAreTheSample
BY MergedIs, WholeIsTheRows DEF MergedStatsAreTheSample

LEMMA InvariantIsTheManifest == FiguresInv => TruthMatchesManifest
<1> SUFFICES ASSUME FiguresInv PROVE TruthMatchesManifest
  OBVIOUS
<1> DEFINE r == RecordsIn(drawn)
           t == TruthsIn(drawn)
           v == ValuesIn(drawn)
<1>1. plan \in Plans /\ DrawnIn(drawn) /\ \A s \in ShardNumbers : figures[s] = OfShard(drawn, filling, s)
  BY DEF FiguresInv, PlanIsDrawn, ShardsCount
<1>2. ASSUME NEW bs \in SUBSET BatchNumbers, NEW xs PROVE TruthIsManifest(FiguresOf(r, t, v, bs, xs))
  BY <1>1, TruthIsTheManifest
<1>3. ASSUME NEW s \in ShardNumbers PROVE TruthIsManifest(figures[s])
  <2>1. figures[s] = FiguresOf(r, t, v, DoneBy(filling, s), SampledBy(drawn, s))
    BY <1>1 DEF OfShard
  <2>2. DoneBy(filling, s) \in SUBSET BatchNumbers
    BY DEF DoneBy
  <2> HIDE DEF r, t, v
  <2>3. QED
    BY <1>2, <2>1, <2>2
<1>4. TruthIsManifest(merged.figures)
  <2>1. EmptyFigures = FiguresOf(r, t, v, {}, {})
    BY <1>1, FiguresOfNone
  <2>2. WholeFigures = FiguresOf(r, t, v, BatchNumbers, SampleIn(drawn))
    BY WholeIsTheRows DEF WholeIn
  <2> HIDE DEF r, t, v
  <2>3. {} \in SUBSET BatchNumbers /\ BatchNumbers \in SUBSET BatchNumbers
    OBVIOUS
  <2>4. TruthIsManifest(EmptyFigures) /\ TruthIsManifest(WholeFigures)
    BY <1>2, <2>1, <2>2, <2>3
  <2>5. QED
    BY <2>4, MergedIs
<1>5. QED
  BY <1>3, <1>4 DEF TruthMatchesManifest

LEMMA InvariantDecides == FiguresInv => ShardingDoesNotDecide
<1> SUFFICES ASSUME FiguresInv, \A b \in BatchNumbers : Len(drawn[b]) < plan.idBlock
             PROVE  /\ ~CorpusWide(WholeFigures) => merged.outcome # "rejected" /\ \A s \in ShardNumbers : outcome[s] # "rejected"
                    /\ CorpusWide(WholeFigures) => merged.outcome # "published"
  BY DEF ShardingDoesNotDecide
<1>1. /\ plan \in Plans /\ DrawnIn(drawn) /\ filling \in [ShardNumbers -> Nat]
      /\ \A s \in ShardNumbers : figures[s] = OfShard(drawn, filling, s)
      /\ \A t \in ShardNumbers : outcome[t] = "rejected" =>
           TooLong(drawn, t) \/ (filling[t] >= plan.batches /\ plan.shards = 1 /\ CorpusWide(figures[t]))
  BY DEF FiguresInv, PlanIsDrawn, FillsInTurn, ShardsCount, OutcomesAre
<1>2. ASSUME NEW s \in ShardNumbers, outcome[s] = "rejected" PROVE CorpusWide(WholeFigures)
  <2>1. ~TooLong(drawn, s)
    <3>1. \A b \in BatchNumbers : Len(drawn[b]) \in Nat
      BY <1>1 DEF DrawnIn
    <3>2. plan.idBlock \in Nat
      BY <1>1, PlanIs
    <3>3. QED
      BY <3>1, <3>2 DEF TooLong
  <2>2. filling[s] \in Nat /\ filling[s] >= plan.batches /\ plan.shards = 1 /\ CorpusWide(figures[s])
    BY <1>1, <1>2, <2>1
  <2>3. OfShard(drawn, filling, s) = WholeIn(drawn)
    BY <1>1, <2>2, OnlyShardIsWhole
  <2>4. QED
    BY <1>1, <2>2, <2>3, WholeIsTheRows
<1>3. ~CorpusWide(WholeFigures) => merged.outcome # "rejected"
  BY MergedIs DEF Verdict
<1>4. CorpusWide(WholeFigures) => merged.outcome # "published"
  BY MergedIs DEF Verdict
<1>5. QED
  BY <1>2, <1>3, <1>4

-----------------------------------------------------------------------------
(* Truth, statistics and gates of a corpus are those of its rows, for any  *)
(* plan: any number of batches, shards, keys and values, blocks of any size,*)
(* any budget, modulus, stride, sketch and tolerance. The shards' statistics*)
(* merge to those of one pass, the truth by key and the manifest agree, and*)
(* the gates decide for all shards what they decide for the whole corpus.  *)
THEOREM FiguresAreOfTheRows == FiguresSpec => []FiguresAreTheRows
<1>1. FiguresInit => FiguresInv
  BY FiguresBegin
<1>2. FiguresInv /\ [FiguresNext]_figuresVars => FiguresInv'
  BY FiguresInductive
<1>3. FiguresInv => FiguresAreTheRows
  BY InvariantIsTheSample, InvariantIsTheManifest, InvariantDecides DEF FiguresAreTheRows
<1>4. QED
  BY <1>1, <1>2, <1>3, PTL DEF FiguresSpec
=============================================================================
