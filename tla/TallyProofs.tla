----------------------------- MODULE TallyProofs -----------------------------
(***************************************************************************)
(* Lemmas about the sums of Tally, and what they say of a ledger. The sums *)
(* are folds over finite sets; each fact about them is proved by induction *)
(* on the subsets of a finite set, which is well-founded.                  *)
(***************************************************************************)
EXTENDS Tally, FiniteSetTheorems, TLAPS

(* A set of subsets of S that contains each set whose proper subsets it    *)
(* contains has them all.                                                  *)
LEMMA SubsetInduction ==
  ASSUME NEW S, IsFiniteSet(S), NEW T \in SUBSET SUBSET S,
         \A A \in SUBSET S : (\A B \in SUBSET A : B # A => B \in T) => A \in T
  PROVE  T = SUBSET S
<1>1. IsWellFoundedOn(StrictSubsetOrdering(S), SUBSET S)
  BY FS_StrictSubsetOrderingWellFounded, FS_FiniteSubsetsOfFinite
<1>2. SUFFICES ASSUME (SUBSET S) \ T # {} PROVE FALSE
  OBVIOUS
<1>3. PICK A \in (SUBSET S) \ T : \A B \in (SUBSET S) \ T : ~(<<B, A>> \in StrictSubsetOrdering(S))
  <2> DEFINE R == StrictSubsetOrdering(S)
             U == SUBSET S
             M == (SUBSET S) \ T
  <2>1. IsWellFoundedOn(R, U) /\ M \subseteq U /\ M # {}
    BY <1>1, <1>2
  <2> HIDE DEF R, U, M
  <2>2. \E x \in M : \A y \in M : ~(<<y, x>> \in R)
    BY ONLY <2>1, WFMin, SMT
  <2>3. QED
    BY <2>2 DEF M, R
<1>4. \A B \in SUBSET A : B # A => B \in T
  BY <1>3 DEF StrictSubsetOrdering
<1>5. QED
  BY <1>3, <1>4

-----------------------------------------------------------------------------
(* The sums of f over the subsets of S, as the fold computes them.         *)
Some(s) == CHOOSE x \in s : TRUE
SumsOf(g, f, S) == g = [s \in SUBSET S |-> IF s = {} THEN 0 ELSE f[Some(s)] + g[s \ {Some(s)}]]

LEMMA SumIsChosen ==
  ASSUME NEW f, NEW S
  PROVE  SumFunctionOnSet(f, S) = (CHOOSE g : SumsOf(g, f, S))[S]
BY DEF SumFunctionOnSet, FoldFunctionOnSet, MapThenFoldSet, SumsOf, Some

LEMMA SumsUnique ==
  ASSUME NEW S, IsFiniteSet(S), NEW f, NEW g, NEW h, SumsOf(g, f, S), SumsOf(h, f, S)
  PROVE  g = h
<1> DEFINE T == {s \in SUBSET S : g[s] = h[s]}
<1>1. ASSUME NEW A \in SUBSET S, \A B \in SUBSET A : B # A => B \in T PROVE A \in T
  <2>1. CASE A = {}
    BY <2>1 DEF SumsOf
  <2>2. CASE A # {}
    <3>1. Some(A) \in A
      BY <2>2 DEF Some
    <3>2. A \ {Some(A)} \in T
      BY <1>1, <3>1
    <3> DEFINE x == Some(A)
    <3> HIDE DEF x
    <3>3. g[A] = f[x] + g[A \ {x}] /\ h[A] = f[x] + h[A \ {x}]
      BY <2>2 DEF SumsOf, x
    <3>4. QED
      BY <3>2, <3>3 DEF x
  <2>3. QED
    BY <2>1, <2>2
<1>2. T = SUBSET S
  <2> HIDE DEF T
  <2>1. T \in SUBSET SUBSET S
    BY DEF T
  <2>2. QED
    BY <1>1, <2>1, SubsetInduction
<1>3. QED
  <2> DEFINE G(k, s) == IF s = {} THEN 0 ELSE f[Some(s)] + k[s \ {Some(s)}]
  <2>1. g = [s \in SUBSET S |-> G(g, s)] /\ h = [s \in SUBSET S |-> G(h, s)]
    BY DEF SumsOf
  <2> HIDE DEF G
  <2>2. \A s \in SUBSET S : g[s] = G(g, s) /\ h[s] = G(h, s) /\ g[s] = h[s]
    BY <1>2, <2>1
  <2>3. [s \in SUBSET S |-> G(g, s)] = [s \in SUBSET S |-> G(h, s)]
    BY <2>2
  <2>4. QED
    BY <2>1, <2>3

(* The sums over a subset are some of those over the set.                  *)
LEMMA SumsRestrict ==
  ASSUME NEW S, NEW A \in SUBSET S, NEW f, NEW g, SumsOf(g, f, S)
  PROVE  SumsOf([s \in SUBSET A |-> g[s]], f, A)
<1> DEFINE k == [s \in SUBSET A |-> g[s]]
           G(m, s) == IF s = {} THEN 0 ELSE f[Some(s)] + m[s \ {Some(s)}]
<1>1. g = [s \in SUBSET S |-> G(g, s)]
  BY DEF SumsOf
<1>2. \A s \in SUBSET A : G(g, s) = G(k, s)
  OBVIOUS
<1>3. k = [s \in SUBSET A |-> G(g, s)]
  <2> HIDE DEF G
  <2>1. \A s \in SUBSET A : g[s] = G(g, s)
    BY <1>1
  <2>2. QED
    BY <2>1
<1>4. k = [s \in SUBSET A |-> G(k, s)]
  <2> HIDE DEF G
  <2>1. QED
    BY <1>2, <1>3
<1>5. QED
  BY <1>4 DEF SumsOf

LEMMA SumsExist ==
  ASSUME NEW S, IsFiniteSet(S), NEW f
  PROVE  \E g : SumsOf(g, f, S)
<1> DEFINE T == {A \in SUBSET S : \E g : SumsOf(g, f, A)}
<1>1. ASSUME NEW A \in SUBSET S, \A B \in SUBSET A : B # A => B \in T PROVE A \in T
  <2> DEFINE sums(B) == CHOOSE g : SumsOf(g, f, B)
             G(m, s) == IF s = {} THEN 0 ELSE f[Some(s)] + m[s \ {Some(s)}]
             part  == [B \in SUBSET A |-> IF B = A THEN 0 ELSE sums(B)[B]]
             whole == [B \in SUBSET A |-> IF B = A THEN G(part, A) ELSE part[B]]
  <2>1. \A B \in SUBSET A : B # A => SumsOf(sums(B), f, B)
    BY <1>1
  <2>2. ASSUME NEW B \in SUBSET A, B # A, B # {}
        PROVE  part[B] = G(part, B)
    <3> DEFINE x == Some(B)
               C == B \ {x}
    <3>1. x \in B /\ C \in SUBSET B /\ C # A /\ C \in SUBSET A
      BY <2>2 DEF Some
    <3>2. SumsOf(sums(B), f, B) /\ SumsOf(sums(C), f, C)
      BY <2>1, <2>2, <3>1
    <3>3. sums(B)[B] = f[x] + sums(B)[C]
      <4> HIDE DEF sums
      <4>1. QED
        BY <3>1, <3>2, <2>2 DEF SumsOf
    <3>4. IsFiniteSet(C)
      <4>1. C \in SUBSET S
        BY <3>1
      <4>2. QED
        BY <4>1, FS_Subset
    <3>5. sums(C)[C] = sums(B)[C]
      <4> HIDE DEF sums, C
      <4> DEFINE k == [s \in SUBSET C |-> sums(B)[s]]
      <4>1. SumsOf(k, f, C)
        BY <3>1, <3>2, SumsRestrict
      <4> HIDE DEF k
      <4>2. k = sums(C)
        BY <3>2, <3>4, <4>1, SumsUnique
      <4>3. k[C] = sums(B)[C]
        BY DEF k
      <4>4. QED
        BY <4>2, <4>3
    <3>6. part[B] = sums(B)[B] /\ part[C] = sums(C)[C]
      <4> HIDE DEF sums, C
      <4>1. QED
        BY <2>2, <3>1
    <3> HIDE DEF part, sums
    <3>7. QED
      BY <2>2, <3>3, <3>5, <3>6
  <2>3. \A B \in SUBSET A : B # A => part[B] = G(part, B)
    <3>1. ASSUME {} # A PROVE part[{}] = 0
      <4>1. SumsOf(sums({}), f, {})
        BY <2>1, <3>1
      <4>2. sums({})[{}] = 0
        <5> HIDE DEF sums
        <5>1. QED
          BY <4>1 DEF SumsOf
      <4> HIDE DEF sums
      <4>3. QED
        BY <3>1, <4>2
    <3> HIDE DEF part
    <3>2. QED
      BY <2>2, <3>1
  <2>4. \A B \in SUBSET A : G(whole, B) = G(part, B)
    <3> SUFFICES ASSUME NEW B \in SUBSET A, B # {}
                 PROVE  whole[B \ {Some(B)}] = part[B \ {Some(B)}]
      <4> HIDE DEF whole, part
      <4>1. QED
        OBVIOUS
    <3>1. B \ {Some(B)} # A /\ B \ {Some(B)} \in SUBSET A
      BY DEF Some
    <3> HIDE DEF part, G
    <3>2. QED
      BY <3>1
  <2>5. whole = [B \in SUBSET A |-> G(part, B)]
    <3> HIDE DEF part, G
    <3>1. QED
      BY <2>3
  <2>6. whole = [B \in SUBSET A |-> G(whole, B)]
    <3> HIDE DEF whole, part, G
    <3>1. QED
      BY <2>4, <2>5
  <2>7. SumsOf(whole, f, A)
    BY <2>6 DEF SumsOf
  <2>8. QED
    BY <2>7
<1>2. T = SUBSET S
  <2> HIDE DEF T
  <2>1. T \in SUBSET SUBSET S
    BY DEF T
  <2>2. QED
    BY <1>1, <2>1, SubsetInduction
<1>3. QED
  BY <1>2

-----------------------------------------------------------------------------
LEMMA SumOfNone ==
  ASSUME NEW f
  PROVE  SumFunctionOnSet(f, {}) = 0
<1>1. \E g : SumsOf(g, f, {})
  BY SumsExist, FS_EmptySet
<1>2. PICK g : SumsOf(g, f, {}) /\ SumFunctionOnSet(f, {}) = g[{}]
  BY <1>1, SumIsChosen
<1>3. QED
  BY <1>2 DEF SumsOf

LEMMA SumStep ==
  ASSUME NEW S, IsFiniteSet(S), S # {}, NEW f
  PROVE  /\ Some(S) \in S
         /\ SumFunctionOnSet(f, S) = f[Some(S)] + SumFunctionOnSet(f, S \ {Some(S)})
<1> DEFINE x == Some(S)
           C == S \ {x}
<1>1. x \in S /\ C \in SUBSET S
  BY DEF Some
<1>2. IsFiniteSet(C)
  BY <1>1, FS_Subset
<1> HIDE DEF C
<1>3. PICK g : SumsOf(g, f, S) /\ SumFunctionOnSet(f, S) = g[S]
  BY SumsExist, SumIsChosen
<1>4. PICK h : SumsOf(h, f, C) /\ SumFunctionOnSet(f, C) = h[C]
  BY <1>2, SumsExist, SumIsChosen
<1>5. g[C] = h[C]
  <2> DEFINE k == [s \in SUBSET C |-> g[s]]
  <2>1. SumsOf(k, f, C)
    BY <1>1, <1>3, SumsRestrict
  <2> HIDE DEF k
  <2>2. k = h
    BY <1>2, <1>4, <2>1, SumsUnique
  <2>3. k[C] = g[C]
    BY DEF k
  <2>4. QED
    BY <2>2, <2>3
<1>6. g[S] = f[x] + g[C]
  BY <1>3 DEF SumsOf, C
<1>7. QED
  BY <1>1, <1>3, <1>4, <1>5, <1>6 DEF C

(* A sum of natural numbers is one.                                        *)
LEMMA SumIsNat ==
  ASSUME NEW S, IsFiniteSet(S), NEW f, \A x \in S : f[x] \in Nat
  PROVE  SumFunctionOnSet(f, S) \in Nat
<1> DEFINE T == {A \in SUBSET S : SumFunctionOnSet(f, A) \in Nat}
<1>1. ASSUME NEW A \in SUBSET S, \A B \in SUBSET A : B # A => B \in T PROVE A \in T
  <2>1. CASE A = {}
    BY <2>1, SumOfNone
  <2>2. CASE A # {}
    <3>1. IsFiniteSet(A)
      BY FS_Subset
    <3>2. Some(A) \in A /\ SumFunctionOnSet(f, A) = f[Some(A)] + SumFunctionOnSet(f, A \ {Some(A)})
      BY <2>2, <3>1, SumStep
    <3>3. A \ {Some(A)} \in T
      BY <1>1, <3>2
    <3>4. QED
      BY <3>2, <3>3
  <2>3. QED
    BY <2>1, <2>2
<1>2. T = SUBSET S
  <2> HIDE DEF T
  <2>1. T \in SUBSET SUBSET S
    BY DEF T
  <2>2. QED
    BY <1>1, <2>1, SubsetInduction
<1>3. QED
  BY <1>2

(* Any element can be taken out of a sum first.                            *)
LEMMA SumPick ==
  ASSUME NEW S, IsFiniteSet(S), NEW f, \A x \in S : f[x] \in Nat, NEW x \in S
  PROVE  SumFunctionOnSet(f, S) = f[x] + SumFunctionOnSet(f, S \ {x})
<1> DEFINE Sum(A) == SumFunctionOnSet(f, A)
           T == {A \in SUBSET S : \A y \in A : Sum(A) = f[y] + Sum(A \ {y})}
<1>0. \A A \in SUBSET S : IsFiniteSet(A) /\ Sum(A) \in Nat
  BY FS_Subset, SumIsNat
<1>1. ASSUME NEW A \in SUBSET S, \A B \in SUBSET A : B # A => B \in T PROVE A \in T
  <2> SUFFICES ASSUME NEW y \in A PROVE Sum(A) = f[y] + Sum(A \ {y})
    OBVIOUS
  <2> DEFINE c == Some(A)
  <2>1. c \in A /\ Sum(A) = f[c] + Sum(A \ {c})
    BY <1>0, SumStep
  <2> HIDE DEF c
  <2>2. CASE y = c
    BY <2>1, <2>2
  <2>3. CASE y # c
    <3> HIDE DEF Sum
    <3>1. Sum(A \ {c}) = f[y] + Sum((A \ {c}) \ {y})
      BY <1>1, <2>1, <2>3
    <3>2. Sum(A \ {y}) = f[c] + Sum((A \ {y}) \ {c})
      BY <1>1, <2>1, <2>3
    <3>3. (A \ {c}) \ {y} = (A \ {y}) \ {c}
      OBVIOUS
    <3>4. Sum((A \ {c}) \ {y}) \in Nat /\ f[y] \in Nat /\ f[c] \in Nat
      BY <1>0, <2>1
    <3>5. QED
      BY <2>1, <3>1, <3>2, <3>3, <3>4
  <2>4. QED
    BY <2>2, <2>3
<1>2. T = SUBSET S
  <2> HIDE DEF T
  <2>1. T \in SUBSET SUBSET S
    BY DEF T
  <2>2. QED
    BY <1>1, <2>1, SubsetInduction
<1>3. QED
  BY <1>2

(* Sums of functions that agree on the set are equal.                      *)
LEMMA SumAgrees ==
  ASSUME NEW S, IsFiniteSet(S), NEW f, NEW g, \A x \in S : f[x] = g[x]
  PROVE  SumFunctionOnSet(f, S) = SumFunctionOnSet(g, S)
<1> DEFINE T == {A \in SUBSET S : SumFunctionOnSet(f, A) = SumFunctionOnSet(g, A)}
<1>1. ASSUME NEW A \in SUBSET S, \A B \in SUBSET A : B # A => B \in T PROVE A \in T
  <2>1. CASE A = {}
    BY <2>1, SumOfNone
  <2>2. CASE A # {}
    <3>1. IsFiniteSet(A)
      BY FS_Subset
    <3>2. /\ Some(A) \in A
          /\ SumFunctionOnSet(f, A) = f[Some(A)] + SumFunctionOnSet(f, A \ {Some(A)})
          /\ SumFunctionOnSet(g, A) = g[Some(A)] + SumFunctionOnSet(g, A \ {Some(A)})
      BY <2>2, <3>1, SumStep
    <3>3. A \ {Some(A)} \in T
      BY <1>1, <3>2
    <3>4. QED
      BY <3>2, <3>3
  <2>3. QED
    BY <2>1, <2>2
<1>2. T = SUBSET S
  <2> HIDE DEF T
  <2>1. T \in SUBSET SUBSET S
    BY DEF T
  <2>2. QED
    BY <1>1, <2>1, SubsetInduction
<1>3. QED
  BY <1>2

(* Summing is monotonic, and strictly so.                                  *)
LEMMA SumMonotonic ==
  ASSUME NEW S, IsFiniteSet(S), NEW f, NEW g, \A x \in S : f[x] \in Nat /\ g[x] \in Nat /\ f[x] <= g[x]
  PROVE  SumFunctionOnSet(f, S) <= SumFunctionOnSet(g, S)
<1> DEFINE T == {A \in SUBSET S : SumFunctionOnSet(f, A) <= SumFunctionOnSet(g, A)}
<1>1. ASSUME NEW A \in SUBSET S, \A B \in SUBSET A : B # A => B \in T PROVE A \in T
  <2>1. CASE A = {}
    BY <2>1, SumOfNone
  <2>2. CASE A # {}
    <3>1. IsFiniteSet(A)
      BY FS_Subset
    <3>2. /\ Some(A) \in A
          /\ SumFunctionOnSet(f, A) = f[Some(A)] + SumFunctionOnSet(f, A \ {Some(A)})
          /\ SumFunctionOnSet(g, A) = g[Some(A)] + SumFunctionOnSet(g, A \ {Some(A)})
      BY <2>2, <3>1, SumStep
    <3>3. A \ {Some(A)} \in T /\ A \ {Some(A)} \in SUBSET S
      BY <1>1, <3>2
    <3>4. SumFunctionOnSet(f, A \ {Some(A)}) \in Nat /\ SumFunctionOnSet(g, A \ {Some(A)}) \in Nat
      BY <3>3, FS_Subset, SumIsNat
    <3>5. QED
      BY <3>2, <3>3, <3>4
  <2>3. QED
    BY <2>1, <2>2
<1>2. T = SUBSET S
  <2> HIDE DEF T
  <2>1. T \in SUBSET SUBSET S
    BY DEF T
  <2>2. QED
    BY <1>1, <2>1, SubsetInduction
<1>3. QED
  BY <1>2

LEMMA SumEqualMeansAgree ==
  ASSUME NEW S, IsFiniteSet(S), NEW f, NEW g, \A x \in S : f[x] \in Nat /\ g[x] \in Nat /\ f[x] <= g[x],
         SumFunctionOnSet(f, S) = SumFunctionOnSet(g, S), NEW x \in S
  PROVE  f[x] = g[x]
<1> DEFINE C == S \ {x}
<1>1. IsFiniteSet(C) /\ C \subseteq S
  BY FS_RemoveElement
<1>2. /\ SumFunctionOnSet(f, S) = f[x] + SumFunctionOnSet(f, C)
      /\ SumFunctionOnSet(g, S) = g[x] + SumFunctionOnSet(g, C)
  BY SumPick
<1> HIDE DEF C
<1>3. SumFunctionOnSet(f, C) <= SumFunctionOnSet(g, C)
  BY <1>1, SumMonotonic
<1>4. SumFunctionOnSet(f, C) \in Nat /\ SumFunctionOnSet(g, C) \in Nat
  BY <1>1, SumIsNat
<1>5. f[x] \in Nat /\ g[x] \in Nat /\ f[x] <= g[x]
  OBVIOUS
<1>6. f[x] + SumFunctionOnSet(f, C) = g[x] + SumFunctionOnSet(g, C)
  BY <1>2
<1>7. QED
  BY ONLY <1>3, <1>4, <1>5, <1>6

(* The sum of ones counts.                                                 *)
LEMMA SumOfOnes ==
  ASSUME NEW S, IsFiniteSet(S), NEW f, \A x \in S : f[x] = 1
  PROVE  SumFunctionOnSet(f, S) = Cardinality(S)
<1> DEFINE T == {A \in SUBSET S : SumFunctionOnSet(f, A) = Cardinality(A)}
<1>1. ASSUME NEW A \in SUBSET S, \A B \in SUBSET A : B # A => B \in T PROVE A \in T
  <2>1. CASE A = {}
    BY <2>1, SumOfNone, FS_EmptySet
  <2>2. CASE A # {}
    <3>1. IsFiniteSet(A)
      BY FS_Subset
    <3>2. Some(A) \in A /\ SumFunctionOnSet(f, A) = f[Some(A)] + SumFunctionOnSet(f, A \ {Some(A)})
      BY <2>2, <3>1, SumStep
    <3>3. A \ {Some(A)} \in T
      BY <1>1, <3>2
    <3>4. Cardinality(A \ {Some(A)}) = Cardinality(A) - 1 /\ Cardinality(A) \in Nat
      BY <3>1, <3>2, FS_RemoveElement, FS_CardinalityType
    <3>5. QED
      BY <3>2, <3>3, <3>4
  <2>3. QED
    BY <2>1, <2>2
<1>2. T = SUBSET S
  <2> HIDE DEF T
  <2>1. T \in SUBSET SUBSET S
    BY DEF T
  <2>2. QED
    BY <1>1, <2>1, SubsetInduction
<1>3. QED
  BY <1>2

(* Sums that differ by one differ in one place.                            *)
LEMMA SumsOffByOne ==
  ASSUME NEW S, IsFiniteSet(S), NEW f, NEW g, \A x \in S : f[x] \in Nat /\ g[x] \in Nat /\ f[x] <= g[x],
         SumFunctionOnSet(g, S) = SumFunctionOnSet(f, S) + 1
  PROVE  \E y \in S : g[y] = f[y] + 1 /\ \A x \in S \ {y} : g[x] = f[x]
<1>1. SumFunctionOnSet(f, S) \in Nat /\ SumFunctionOnSet(g, S) \in Nat
  BY SumIsNat
<1>2. PICK y \in S : g[y] # f[y]
  <2>1. CASE \A y \in S : g[y] = f[y]
    BY <1>1, <2>1, SumAgrees
  <2>2. QED
    BY <2>1
<1> DEFINE C == S \ {y}
<1>3. IsFiniteSet(C) /\ C \subseteq S
  BY FS_RemoveElement
<1>4. /\ SumFunctionOnSet(f, S) = f[y] + SumFunctionOnSet(f, C)
      /\ SumFunctionOnSet(g, S) = g[y] + SumFunctionOnSet(g, C)
  BY SumPick
<1> HIDE DEF C
<1>5. SumFunctionOnSet(f, C) <= SumFunctionOnSet(g, C)
  BY <1>3, SumMonotonic
<1>6. SumFunctionOnSet(f, C) \in Nat /\ SumFunctionOnSet(g, C) \in Nat
  BY <1>3, SumIsNat
<1>7. f[y] \in Nat /\ g[y] \in Nat /\ f[y] <= g[y] /\ g[y] # f[y]
  BY <1>2
<1>8. f[y] + SumFunctionOnSet(f, C) + 1 = g[y] + SumFunctionOnSet(g, C)
  BY <1>4
<1>9. g[y] = f[y] + 1 /\ SumFunctionOnSet(f, C) = SumFunctionOnSet(g, C)
  BY ONLY <1>5, <1>6, <1>7, <1>8
<1>10. \A x \in C : g[x] = f[x]
  BY <1>3, <1>9, SumEqualMeansAgree
<1>11. QED
  BY <1>9, <1>10 DEF C

-----------------------------------------------------------------------------
(* A set of numbers has a least one.                                       *)
LEMMA LeastNumber ==
  ASSUME NEW M \in SUBSET Nat, M # {}
  PROVE  \E m \in M : \A k \in M : m <= k
<1>1. PICK n \in M : TRUE
  OBVIOUS
<1> DEFINE S == 0 .. n
           R == StrictSubsetOrdering(S)
           U == SUBSET S
           F == {0 .. k : k \in {j \in M : j <= n}}
<1>2. IsFiniteSet(S)
  BY FS_Interval
<1>3. IsWellFoundedOn(R, U)
  BY <1>2, FS_StrictSubsetOrderingWellFounded, FS_FiniteSubsetsOfFinite
<1>4. F \subseteq U /\ F # {}
  OBVIOUS
<1> HIDE DEF S, R, U, F
<1>5. PICK A \in F : \A B \in F : ~(<<B, A>> \in R)
  BY ONLY <1>3, <1>4, WFMin, SMT
<1>6. PICK m \in M : m <= n /\ A = 0 .. m
  BY DEF F
<1>7. ASSUME NEW k \in M, k < m PROVE FALSE
  <2>1. 0 .. k \in F
    BY <1>6, <1>7 DEF F
  <2>2. 0 .. k \subseteq 0 .. m /\ m \in 0 .. m /\ m \notin 0 .. k
    BY <1>7
  <2>3. <<0 .. k, 0 .. m>> \in R
    BY <2>1, <2>2, <1>4, <1>6 DEF R, StrictSubsetOrdering, U
  <2>4. QED
    BY <1>5, <1>6, <2>1, <2>3
<1>8. QED
  BY <1>7

(* A bounded set of integers has a greatest one.                           *)
LEMMA GreatestNumber ==
  ASSUME NEW M \in SUBSET Int, M # {}, NEW top \in Int, \A m \in M : m <= top
  PROVE  \E m \in M : \A k \in M : k <= m
<1> DEFINE D == {top - m : m \in M}
<1>1. \A m \in M : top - m \in Nat
  OBVIOUS
<1>2. D \in SUBSET Nat
  BY <1>1
<1>3. D # {}
  OBVIOUS
<1> HIDE DEF D
<1>4. PICK d \in D : \A e \in D : d <= e
  BY <1>2, <1>3, LeastNumber
<1>5. PICK m \in M : d = top - m
  BY <1>4 DEF D
<1>6. ASSUME NEW k \in M PROVE k <= m
  <2>1. top - k \in D
    BY DEF D
  <2>2. top - m <= top - k
    BY <1>4, <1>5, <2>1
  <2>3. QED
    BY <2>2
<1>7. QED
  BY <1>6

(* Numbers of the same residue are equal or at least P apart.              *)
LEMMA SameResidue ==
  ASSUME NEW a \in Nat, NEW b \in Nat, a % P = b % P
  PROVE  a = b \/ b - a >= P \/ a - b >= P
<1>1. P \in Nat \ {0}
  BY TallyAssumption
<1> DEFINE p == a \div P
           q == b \div P
<1>2. a = P * p + (a % P) /\ p \in Nat /\ b = P * q + (b % P) /\ q \in Nat
  BY ONLY <1>1, a \in Nat, b \in Nat
<1> HIDE DEF p, q
<1>3. b - a = P * (q - p)
  BY <1>1, <1>2
<1>4. CASE p = q
  BY <1>2, <1>4
<1>5. CASE q - p >= 1
  BY ONLY <1>1, <1>2, <1>3, <1>5
<1>6. CASE q - p <= -1
  BY ONLY <1>1, <1>2, <1>3, <1>6
<1>7. QED
  BY <1>2, <1>4, <1>5, <1>6

-----------------------------------------------------------------------------
LEMMA RowsAreFinite ==
  ASSUME NEW b \in Batches
  PROVE  /\ IsFiniteSet(RowsOf(b)) /\ Cardinality(RowsOf(b)) = RowCount[b]
         /\ RowsOf(b) \subseteq RowIds /\ RowCount[b] \in Nat \ {0}
<1>1. RowCount[b] \in Nat \ {0}
  BY ReplayAssumption
<1>2. IsFiniteSet(1 .. RowCount[b]) /\ Cardinality(1 .. RowCount[b]) = RowCount[b]
  BY <1>1, FS_Interval
<1>3. IsFiniteSet({b}) /\ Cardinality({b}) = 1
  BY FS_Singleton
<1>4. /\ IsFiniteSet({b} \X (1 .. RowCount[b]))
      /\ Cardinality({b} \X (1 .. RowCount[b])) = Cardinality({b}) * Cardinality(1 .. RowCount[b])
  BY <1>2, <1>3, FS_Product
<1>5. QED
  BY <1>1, <1>2, <1>3, <1>4 DEF RowsOf, RowIds

LEMMA RowIdsAreNumbers ==
  ASSUME NEW b \in Batches, NEW r \in RowsOf(b)
  PROVE  /\ IdOf(r) \in Nat
         /\ \A s \in RowsOf(b) : IdOf(r) - IdOf(s) < RowCount[b] /\ (IdOf(r) = IdOf(s) => r = s)
<1>1. RowCount[b] \in Nat \ {0} /\ b \in Nat /\ IdBlock \in Nat
  BY RowsAreFinite, TallyAssumption, ReplayAssumption DEF Batches
<1>2. b * IdBlock \in Nat
  BY <1>1
<1>3. \A s \in RowsOf(b) : s[2] \in 1 .. RowCount[b] /\ s = <<b, s[2]>> /\ IdOf(s) = b * IdBlock + s[2] - 1
  BY DEF RowsOf, IdOf, BatchOf
<1>4. QED
  BY <1>1, <1>2, <1>3

Ledger == [RowIds -> Nat]

LEMMA CountIsNat ==
  ASSUME NEW ledger \in Ledger, NEW b \in Batches
  PROVE  Count(ledger, b) \in Nat
BY RowsAreFinite, SumIsNat DEF Count, Ledger

LEMMA CountMonotonic ==
  ASSUME NEW l \in Ledger, NEW m \in Ledger, \A r \in RowIds : l[r] <= m[r], NEW b \in Batches
  PROVE  Count(l, b) <= Count(m, b)
BY RowsAreFinite, SumMonotonic DEF Count, Ledger

-----------------------------------------------------------------------------
(* The prefix of a ledger is well defined, and grows with the ledger.      *)
LEMMA PrefixIsDefined ==
  ASSUME NEW l
  PROVE  /\ CoveredPrefix(l) \in -1 .. NBatches - 1
         /\ \A b \in 0 .. CoveredPrefix(l) : Covered(l, b)
         /\ CoveredPrefix(l) + 1 \in Batches => ~Covered(l, CoveredPrefix(l) + 1)
<1> DEFINE M == {k \in 0 .. NBatches : k = NBatches \/ ~Covered(l, k)}
<1>1. M \in SUBSET Nat /\ M # {}
  BY ReplayAssumption
<1>2. PICK m \in M : \A k \in M : m <= k
  BY <1>1, LeastNumber
<1>3. \A b \in 0 .. m - 1 : Covered(l, b)
  <2> SUFFICES ASSUME NEW b \in 0 .. m - 1, ~Covered(l, b) PROVE FALSE
    OBVIOUS
  <2>1. b \in 0 .. NBatches /\ b < m
    BY ReplayAssumption
  <2>2. b \in M
    BY <2>1
  <2> HIDE DEF M
  <2>3. QED
    BY <1>1, <1>2, <2>1, <2>2
<1>4. m \in 0 .. NBatches /\ (m = NBatches \/ ~Covered(l, m))
  OBVIOUS
<1>5. m - 1 \in -1 .. NBatches - 1 /\ (m - 1) + 1 = m
  BY <1>4, ReplayAssumption
<1>6. m \in Batches => ~Covered(l, m)
  BY <1>4, ReplayAssumption DEF Batches
<1> HIDE DEF M
<1>7. \E k \in -1 .. NBatches - 1 :
        (\A b \in 0 .. k : Covered(l, b)) /\ (k + 1 \in Batches => ~Covered(l, k + 1))
  BY <1>3, <1>5, <1>6
<1>8. QED
  BY <1>7 DEF CoveredPrefix

LEMMA PrefixMonotonic ==
  ASSUME NEW l \in Ledger, NEW m \in Ledger, \A r \in RowIds : l[r] <= m[r]
  PROVE  CoveredPrefix(l) <= CoveredPrefix(m)
<1> DEFINE k == CoveredPrefix(l)
           j == CoveredPrefix(m)
<1>1. /\ k \in -1 .. NBatches - 1 /\ j \in -1 .. NBatches - 1
      /\ \A b \in 0 .. k : Covered(l, b)
      /\ j + 1 \in Batches => ~Covered(m, j + 1)
  BY PrefixIsDefined
<1> HIDE DEF k, j
<1>2. SUFFICES ASSUME j < k PROVE FALSE
  BY <1>1 DEF k, j
<1>3. j + 1 \in 0 .. k /\ j + 1 \in Batches
  BY <1>1, <1>2, ReplayAssumption DEF Batches
<1>4. Covered(l, j + 1) /\ ~Covered(m, j + 1)
  BY <1>1, <1>3
<1>5. Count(l, j + 1) <= Count(m, j + 1) /\ Count(l, j + 1) \in Nat /\ Count(m, j + 1) \in Nat
  BY <1>3, CountMonotonic, CountIsNat
<1>6. RowCount[j + 1] \in Nat
  BY <1>3, RowsAreFinite
<1>7. QED
  BY <1>4, <1>5, <1>6 DEF Covered

-----------------------------------------------------------------------------
(* What the count and the checksum of a batch say of its rows. The weight  *)
(* of a row in the checksum.                                               *)
Weight(r) == IdOf(r) % P
Weighed(l, b) == [r \in RowsOf(b) |-> l[r] * Weight(r)]

LEMMA WeightIsNat ==
  ASSUME NEW b \in Batches, NEW r \in RowsOf(b)
  PROVE  Weight(r) \in Nat /\ Weight(r) < P
<1>1. IdOf(r) \in Nat /\ P \in Nat \ {0}
  BY RowIdsAreNumbers, TallyAssumption
<1>2. QED
  BY ONLY <1>1 DEF Weight

LEMMA WeighedIsNat ==
  ASSUME NEW l \in Ledger, NEW b \in Batches, NEW r \in RowsOf(b)
  PROVE  Weighed(l, b)[r] \in Nat /\ Weighed(l, b)[r] = l[r] * Weight(r)
<1>1. l[r] \in Nat /\ Weight(r) \in Nat
  BY WeightIsNat, RowsAreFinite DEF Ledger
<1>2. l[r] * Weight(r) \in Nat
  BY <1>1
<1>3. QED
  BY <1>2 DEF Weighed

(* Every row read once: the batch is complete.                             *)
LEMMA OnceIsComplete ==
  ASSUME NEW l \in Ledger, NEW b \in Batches, \A r \in RowsOf(b) : l[r] = 1
  PROVE  Complete(l, b)
<1> DEFINE one == [r \in RowIds |-> 1]
<1>1. Count(l, b) = RowCount[b]
  BY RowsAreFinite, SumOfOnes DEF Count
<1>2. \A r \in RowsOf(b) : one[r] = l[r]
  BY RowsAreFinite
<1> HIDE DEF one
<1>3. [r \in RowsOf(b) |-> l[r] * (IdOf(r) % P)] = [r \in RowsOf(b) |-> one[r] * (IdOf(r) % P)]
  BY <1>2
<1>4. Checksum(l, b) = Checksum(one, b)
  BY <1>3 DEF Checksum
<1>5. QED
  BY <1>1, <1>4 DEF Complete, ExpectedChecksum, one

(* If the count of a batch is right and all of its rows were read, each    *)
(* was read once.                                                          *)
LEMMA AllReadIsOnce ==
  ASSUME NEW l \in Ledger, NEW b \in Batches, Count(l, b) = RowCount[b],
         \A r \in RowsOf(b) : l[r] >= 1
  PROVE  \A r \in RowsOf(b) : l[r] = 1
<1> DEFINE S == RowsOf(b)
           one == [r \in RowIds |-> 1]
<1>1. IsFiniteSet(S) /\ Cardinality(S) = RowCount[b] /\ S \subseteq RowIds
  BY RowsAreFinite
<1>2. \A r \in S : one[r] = 1 /\ l[r] \in Nat
  BY <1>1 DEF Ledger
<1> HIDE DEF one, S
<1>3. SumFunctionOnSet(one, S) = RowCount[b]
  BY <1>1, <1>2, SumOfOnes
<1>4. SumFunctionOnSet(one, S) = SumFunctionOnSet(l, S)
  BY <1>3 DEF Count, S
<1>5. \A r \in S : one[r] \in Nat /\ l[r] \in Nat /\ one[r] <= l[r]
  BY <1>2 DEF S
<1>6. \A r \in S : one[r] = l[r]
  BY <1>1, <1>4, <1>5, SumEqualMeansAgree
<1>7. QED
  BY <1>2, <1>6 DEF S

(* If one row of it was not, another came twice.                           *)
LEMMA OneLostIsOneTwice ==
  ASSUME NEW l \in Ledger, NEW b \in Batches, Count(l, b) = RowCount[b],
         NEW lost \in RowsOf(b), l[lost] = 0, \A r \in RowsOf(b) \ {lost} : l[r] >= 1
  PROVE  \E twice \in RowsOf(b) \ {lost} :
           l[twice] = 2 /\ \A r \in RowsOf(b) \ {lost, twice} : l[r] = 1
<1> DEFINE S == RowsOf(b)
           C == S \ {lost}
           one == [r \in RowIds |-> 1]
<1>1. IsFiniteSet(S) /\ Cardinality(S) = RowCount[b] /\ S \subseteq RowIds /\ RowCount[b] \in Nat
  BY RowsAreFinite
<1>2. \A r \in S : one[r] = 1 /\ l[r] \in Nat
  BY <1>1 DEF Ledger
<1> HIDE DEF one
<1>3. IsFiniteSet(C) /\ Cardinality(C) = RowCount[b] - 1
  BY <1>1, FS_RemoveElement
<1>4. \A r \in C : one[r] = 1
  BY <1>2
<1>5. SumFunctionOnSet(one, C) = RowCount[b] - 1
  <2> HIDE DEF C
  <2>1. QED
    BY <1>3, <1>4, SumOfOnes
<1>6. SumFunctionOnSet(l, S) = l[lost] + SumFunctionOnSet(l, C)
  BY <1>1, <1>2, SumPick
<1>7. SumFunctionOnSet(l, C) \in Nat
  <2>1. \A r \in C : l[r] \in Nat
    BY <1>2
  <2> HIDE DEF C
  <2>2. QED
    BY <1>3, <2>1, SumIsNat
<1>8. SumFunctionOnSet(l, C) = SumFunctionOnSet(one, C) + 1
  <2>1. SumFunctionOnSet(l, S) = RowCount[b]
    BY DEF Count
  <2> HIDE DEF C, S
  <2>2. QED
    BY <1>1, <1>5, <1>6, <1>7, <2>1
<1>9. \A r \in C : one[r] \in Nat /\ l[r] \in Nat /\ one[r] <= l[r]
  BY <1>2
<1> HIDE DEF C
<1>10. PICK y \in C : l[y] = one[y] + 1 /\ \A r \in C \ {y} : l[r] = one[r]
  BY <1>3, <1>8, <1>9, SumsOffByOne
<1>11. QED
  BY <1>4, <1>10 DEF C

(* The checksum tells such a batch from a complete one: moving one count   *)
(* from one row to another moves the sum by less than the modulus.         *)
LEMMA SubstitutionShows ==
  ASSUME NEW l \in Ledger, NEW b \in Batches, RowCount[b] <= P,
         NEW lost \in RowsOf(b), NEW twice \in RowsOf(b), lost # twice,
         l[lost] = 0, l[twice] = 2, \A r \in RowsOf(b) \ {lost, twice} : l[r] = 1
  PROVE  Checksum(l, b) # ExpectedChecksum(b)
<1> DEFINE S == RowsOf(b)
           C == S \ {lost}
           D == C \ {twice}
           one == [r \in RowIds |-> 1]
           f == Weighed(l, b)
           g == Weighed(one, b)
           v == Weight(lost)
           w == Weight(twice)
<1>1. IsFiniteSet(S) /\ IsFiniteSet(C) /\ IsFiniteSet(D) /\ one \in Ledger
  BY RowsAreFinite, FS_RemoveElement DEF Ledger
<1>2. \A r \in S : f[r] \in Nat /\ f[r] = l[r] * Weight(r) /\ g[r] \in Nat /\ g[r] = one[r] * Weight(r)
  BY <1>1, WeighedIsNat
<1>3. v \in Nat /\ w \in Nat /\ v < P /\ w < P
  BY WeightIsNat
<1>4. \A r \in S : Weight(r) \in Nat /\ one[r] = 1
  BY WeightIsNat, RowsAreFinite
<1>5. f[lost] = 0 /\ f[twice] = 2 * w /\ g[lost] = v /\ g[twice] = w
  <2> HIDE DEF f, g, one
  <2>1. QED
    BY <1>2, <1>4
<1>6. \A r \in D : f[r] = g[r] /\ f[r] \in Nat
  <2> HIDE DEF f, g, one
  <2>1. QED
    BY <1>2, <1>4
<1>7. SumFunctionOnSet(f, S) = f[lost] + (f[twice] + SumFunctionOnSet(f, D))
  <2> HIDE DEF f
  <2>1. SumFunctionOnSet(f, S) = f[lost] + SumFunctionOnSet(f, C)
    BY <1>1, <1>2, SumPick
  <2>2. SumFunctionOnSet(f, C) = f[twice] + SumFunctionOnSet(f, D)
    BY <1>1, <1>2, SumPick
  <2>3. QED
    BY <2>1, <2>2
<1>8. SumFunctionOnSet(g, S) = g[lost] + (g[twice] + SumFunctionOnSet(g, D))
  <2> HIDE DEF g
  <2>1. SumFunctionOnSet(g, S) = g[lost] + SumFunctionOnSet(g, C)
    BY <1>1, <1>2, SumPick
  <2>2. SumFunctionOnSet(g, C) = g[twice] + SumFunctionOnSet(g, D)
    BY <1>1, <1>2, SumPick
  <2>3. QED
    BY <2>1, <2>2
<1> DEFINE k == SumFunctionOnSet(g, D)
<1>9. SumFunctionOnSet(f, D) = k /\ k \in Nat
  <2> HIDE DEF f, g
  <2>1. QED
    BY <1>1, <1>6, SumAgrees, SumIsNat
<1>10. Checksum(l, b) = (2 * w + k) % P /\ ExpectedChecksum(b) = (v + w + k) % P
  <2>1. Checksum(l, b) = SumFunctionOnSet(f, S) % P
    BY DEF Checksum, Weighed, Weight
  <2>2. ExpectedChecksum(b) = SumFunctionOnSet(g, S) % P
    BY DEF ExpectedChecksum, Checksum, Weighed, Weight
  <2> HIDE DEF f, g, v, w, k, D, S, one
  <2>3. SumFunctionOnSet(f, S) = 2 * w + k /\ SumFunctionOnSet(g, S) = v + w + k
    BY <1>3, <1>5, <1>7, <1>8, <1>9 DEF k
  <2>4. QED
    BY <2>1, <2>2, <2>3
<1> HIDE DEF k
<1>11. SUFFICES ASSUME (2 * w + k) % P = (v + w + k) % P PROVE FALSE
  BY <1>10
<1>12. v = w
  <2> HIDE DEF v, w
  <2> DEFINE c == 2 * w + k
             d == v + w + k
  <2>1. c \in Nat /\ d \in Nat /\ P \in Nat
    BY <1>3, <1>9, TallyAssumption
  <2>2. c % P = d % P
    BY <1>11
  <2>3. c - d = w - v
    BY <1>3, <1>9
  <2> HIDE DEF c, d
  <2>4. c = d \/ d - c >= P \/ c - d >= P
    BY <2>1, <2>2, SameResidue
  <2>5. d - c = v - w
    BY <1>3, <2>1, <2>3
  <2>6. QED
    BY ONLY <1>3, <2>1, <2>3, <2>4, <2>5
<1>13. IdOf(lost) \in Nat /\ IdOf(twice) \in Nat /\ IdOf(lost) % P = IdOf(twice) % P
  BY <1>12, RowIdsAreNumbers DEF Weight
<1>14. /\ IdOf(lost) - IdOf(twice) < RowCount[b] /\ IdOf(twice) - IdOf(lost) < RowCount[b]
       /\ IdOf(lost) # IdOf(twice)
  BY RowIdsAreNumbers
<1>15. RowCount[b] \in Nat /\ P \in Nat
  BY RowsAreFinite, TallyAssumption
<1>16. QED
  <2>1. IdOf(lost) = IdOf(twice) \/ IdOf(twice) - IdOf(lost) >= P \/ IdOf(lost) - IdOf(twice) >= P
    BY <1>13, SameResidue
  <2>2. QED
    BY <1>13, <1>14, <1>15, <2>1

(* A complete batch of which at most one row was lost was read exactly.    *)
THEOREM CompleteMeansOnce ==
  ASSUME NEW l \in Ledger, NEW b \in Batches, RowCount[b] <= P, Complete(l, b),
         \A r, s \in RowsOf(b) : l[r] = 0 /\ l[s] = 0 => r = s
  PROVE  \A r \in RowsOf(b) : l[r] = 1
<1>1. Count(l, b) = RowCount[b] /\ Checksum(l, b) = ExpectedChecksum(b)
  BY DEF Complete
<1>2. \A r \in RowsOf(b) : l[r] \in Nat
  BY RowsAreFinite DEF Ledger
<1>3. ASSUME NEW lost \in RowsOf(b), l[lost] = 0 PROVE FALSE
  <2>1. \A r \in RowsOf(b) \ {lost} : l[r] >= 1
    BY <1>2, <1>3
  <2>2. PICK twice \in RowsOf(b) \ {lost} : l[twice] = 2 /\ \A r \in RowsOf(b) \ {lost, twice} : l[r] = 1
    BY <1>1, <1>3, <2>1, OneLostIsOneTwice
  <2>3. QED
    BY <1>1, <1>3, <2>2, SubstitutionShows
<1>4. \A r \in RowsOf(b) : l[r] >= 1
  BY <1>2, <1>3
<1>5. QED
  BY <1>1, <1>4, AllReadIsOnce

(* Rows read at most once cover a batch only if each was read.             *)
LEMMA CoveredAtMostOnce ==
  ASSUME NEW l \in Ledger, NEW b \in Batches, Covered(l, b), \A r \in RowsOf(b) : l[r] <= 1
  PROVE  \A r \in RowsOf(b) : l[r] = 1
<1> DEFINE S == RowsOf(b)
           one == [r \in RowIds |-> 1]
<1>1. IsFiniteSet(S) /\ Cardinality(S) = RowCount[b] /\ S \subseteq RowIds /\ RowCount[b] \in Nat
  BY RowsAreFinite
<1>2. \A r \in S : one[r] = 1 /\ l[r] \in Nat
  BY <1>1 DEF Ledger
<1>3. \A r \in S : one[r] \in Nat /\ l[r] \in Nat /\ l[r] <= one[r]
  BY <1>2
<1> HIDE DEF one, S
<1>4. SumFunctionOnSet(one, S) = RowCount[b]
  BY <1>1, <1>2, SumOfOnes
<1>5. SumFunctionOnSet(l, S) <= SumFunctionOnSet(one, S)
  BY <1>1, <1>3, SumMonotonic
<1>6. SumFunctionOnSet(l, S) >= RowCount[b] /\ SumFunctionOnSet(l, S) \in Nat
  BY CountIsNat DEF Covered, Count, S
<1>7. SumFunctionOnSet(l, S) = SumFunctionOnSet(one, S)
  BY <1>1, <1>4, <1>5, <1>6
<1>8. \A r \in S : l[r] = one[r]
  BY <1>1, <1>3, <1>7, SumEqualMeansAgree
<1>9. QED
  BY <1>2, <1>8 DEF S

-----------------------------------------------------------------------------
(* The values a function takes on a finite set are finitely many.          *)
LEMMA ImageIsFinite ==
  ASSUME NEW S, IsFiniteSet(S), NEW f
  PROVE  IsFiniteSet({f[x] : x \in S})
<1> DEFINE T == {f[x] : x \in S}
           g == [x \in S |-> f[x]]
<1>1. g \in Surjection(S, T)
  BY DEF Surjection
<1> HIDE DEF T, g
<1>2. QED
  BY <1>1, FS_Surjection DEF T

(* Two elements of a set of at most one are the same.                      *)
LEMMA AtMostOne ==
  ASSUME NEW S, IsFiniteSet(S), Cardinality(S) <= 1, NEW x \in S, NEW y \in S
  PROVE  x = y
<1>1. Cardinality(S \ {x}) = Cardinality(S) - 1 /\ IsFiniteSet(S \ {x}) /\ Cardinality(S) \in Nat
  BY FS_RemoveElement, FS_CardinalityType
<1>2. Cardinality(S \ {x}) \in Nat
  BY <1>1, FS_CardinalityType
<1>3. Cardinality(S \ {x}) = 0
  BY <1>1, <1>2
<1>4. S \ {x} = {}
  BY <1>1, <1>3, FS_EmptySet
<1>5. QED
  BY <1>4

-----------------------------------------------------------------------------
(* Sums of sums, of constants, and by the classes of a classification:     *)
(* what lets a sum be taken piecewise.                                     *)
LEMMA SumAdds ==
  ASSUME NEW S, IsFiniteSet(S), NEW f, NEW g, NEW h,
         \A x \in S : f[x] \in Nat /\ g[x] \in Nat /\ h[x] = f[x] + g[x]
  PROVE  SumFunctionOnSet(h, S) = SumFunctionOnSet(f, S) + SumFunctionOnSet(g, S)
<1> DEFINE T == {A \in SUBSET S : SumFunctionOnSet(h, A) = SumFunctionOnSet(f, A) + SumFunctionOnSet(g, A)}
<1>1. ASSUME NEW A \in SUBSET S, \A B \in SUBSET A : B # A => B \in T PROVE A \in T
  <2>1. CASE A = {}
    BY <2>1, SumOfNone
  <2>2. CASE A # {}
    <3>1. IsFiniteSet(A)
      BY FS_Subset
    <3>2. /\ Some(A) \in A
          /\ SumFunctionOnSet(f, A) = f[Some(A)] + SumFunctionOnSet(f, A \ {Some(A)})
          /\ SumFunctionOnSet(g, A) = g[Some(A)] + SumFunctionOnSet(g, A \ {Some(A)})
          /\ SumFunctionOnSet(h, A) = h[Some(A)] + SumFunctionOnSet(h, A \ {Some(A)})
      BY <2>2, <3>1, SumStep
    <3>3. A \ {Some(A)} \in T /\ A \ {Some(A)} \in SUBSET S
      BY <1>1, <3>2
    <3>4. SumFunctionOnSet(f, A \ {Some(A)}) \in Nat /\ SumFunctionOnSet(g, A \ {Some(A)}) \in Nat
      BY <3>3, FS_Subset, SumIsNat
    <3>5. QED
      BY <3>2, <3>3, <3>4
  <2>3. QED
    BY <2>1, <2>2
<1>2. T = SUBSET S
  <2> HIDE DEF T
  <2>1. T \in SUBSET SUBSET S
    BY DEF T
  <2>2. QED
    BY <1>1, <2>1, SubsetInduction
<1>3. QED
  BY <1>2

LEMMA SumOfConstant ==
  ASSUME NEW S, IsFiniteSet(S), NEW c \in Nat, NEW f, \A x \in S : f[x] = c
  PROVE  SumFunctionOnSet(f, S) = Cardinality(S) * c
<1> DEFINE T == {A \in SUBSET S : SumFunctionOnSet(f, A) = Cardinality(A) * c}
<1>1. ASSUME NEW A \in SUBSET S, \A B \in SUBSET A : B # A => B \in T PROVE A \in T
  <2>1. CASE A = {}
    BY <2>1, SumOfNone, FS_EmptySet
  <2>2. CASE A # {}
    <3>1. IsFiniteSet(A)
      BY FS_Subset
    <3>2. Some(A) \in A /\ SumFunctionOnSet(f, A) = f[Some(A)] + SumFunctionOnSet(f, A \ {Some(A)})
      BY <2>2, <3>1, SumStep
    <3>3. A \ {Some(A)} \in T
      BY <1>1, <3>2
    <3>4. Cardinality(A \ {Some(A)}) = Cardinality(A) - 1 /\ Cardinality(A) \in Nat
      BY <3>1, <3>2, FS_RemoveElement, FS_CardinalityType
    <3> DEFINE n == Cardinality(A)
    <3>5. SumFunctionOnSet(f, A) = c + (n - 1) * c /\ n \in Nat
      BY <3>2, <3>3, <3>4
    <3> HIDE DEF n
    <3>6. c + (n - 1) * c = n * c
      BY <3>5
    <3>7. QED
      BY <3>5, <3>6 DEF n
  <2>3. QED
    BY <2>1, <2>2
<1>2. T = SUBSET S
  <2> HIDE DEF T
  <2>1. T \in SUBSET SUBSET S
    BY DEF T
  <2>2. QED
    BY <1>1, <2>1, SubsetInduction
<1>3. QED
  BY <1>2

LEMMA SumIsBounded ==
  ASSUME NEW S, IsFiniteSet(S), NEW m \in Nat, NEW f, \A x \in S : f[x] \in Nat /\ f[x] <= m
  PROVE  SumFunctionOnSet(f, S) <= Cardinality(S) * m
<1> DEFINE g == [x \in S |-> m]
<1>1. \A x \in S : g[x] = m
  OBVIOUS
<1> HIDE DEF g
<1>2. SumFunctionOnSet(g, S) = Cardinality(S) * m
  BY <1>1, SumOfConstant
<1>3. SumFunctionOnSet(f, S) <= SumFunctionOnSet(g, S)
  BY <1>1, SumMonotonic
<1>4. QED
  BY <1>2, <1>3

(* A sum of natural numbers is zero exactly if each of them is.            *)
LEMMA SumIsZero ==
  ASSUME NEW S, IsFiniteSet(S), NEW f, \A x \in S : f[x] \in Nat
  PROVE  SumFunctionOnSet(f, S) = 0 <=> \A x \in S : f[x] = 0
<1> DEFINE z == [x \in S |-> 0]
<1>1. \A x \in S : z[x] = 0
  OBVIOUS
<1> HIDE DEF z
<1>2. SumFunctionOnSet(z, S) = 0
  <2>1. SumFunctionOnSet(z, S) = Cardinality(S) * 0
    BY <1>1, SumOfConstant
  <2>2. QED
    BY <2>1, FS_CardinalityType
<1>3. ASSUME SumFunctionOnSet(f, S) = 0, NEW x \in S PROVE f[x] = 0
  <2>1. z[x] = f[x]
    BY <1>1, <1>2, <1>3, SumEqualMeansAgree
  <2>2. QED
    BY <1>1, <2>1
<1>4. ASSUME \A x \in S : f[x] = 0 PROVE SumFunctionOnSet(f, S) = 0
  BY <1>1, <1>2, <1>4, SumAgrees
<1>5. QED
  BY <1>3, <1>4

(* The elements of S that h puts into the class t.                         *)
Fiber(S, h, t) == {x \in S : h[x] = t}

LEMMA SumByFibers ==
  ASSUME NEW S, IsFiniteSet(S), NEW T, IsFiniteSet(T), NEW f, NEW h,
         \A x \in S : f[x] \in Nat /\ h[x] \in T
  PROVE  SumFunctionOnSet(f, S) = SumFunctionOnSet([t \in T |-> SumFunctionOnSet(f, Fiber(S, h, t))], T)
<1> DEFINE Part(A) == [t \in T |-> SumFunctionOnSet(f, Fiber(A, h, t))]
           Good == {A \in SUBSET S : SumFunctionOnSet(f, A) = SumFunctionOnSet(Part(A), T)}
<1>0. ASSUME NEW A \in SUBSET S
      PROVE  /\ IsFiniteSet(A) /\ SumFunctionOnSet(f, A) \in Nat
             /\ \A t \in T : IsFiniteSet(Fiber(A, h, t)) /\ Part(A)[t] = SumFunctionOnSet(f, Fiber(A, h, t))
             /\ \A t \in T : Part(A)[t] \in Nat
  <2>1. \A B \in SUBSET S : IsFiniteSet(B) /\ SumFunctionOnSet(f, B) \in Nat
    BY FS_Subset, SumIsNat
  <2>2. \A t \in T : Fiber(A, h, t) \in SUBSET S
    BY DEF Fiber
  <2>3. QED
    BY <2>1, <2>2
<1>1. ASSUME NEW A \in SUBSET S, \A B \in SUBSET A : B # A => B \in Good PROVE A \in Good
  <2>1. CASE A = {}
    <3>1. \A t \in T : Fiber(A, h, t) = {}
      BY <2>1 DEF Fiber
    <3>2. \A t \in T : Part(A)[t] = 0
      BY <3>1, SumOfNone
    <3>3. SumFunctionOnSet(Part(A), T) = 0
      <4> DEFINE g == Part(A)
      <4>1. \A t \in T : g[t] = 0
        BY <3>2
      <4> HIDE DEF g
      <4>2. SumFunctionOnSet(g, T) = 0
        BY <4>1, SumIsZero
      <4>3. QED
        BY <4>2 DEF g
    <3> HIDE DEF Part
    <3>4. QED
      BY <2>1, <3>3, SumOfNone
  <2>2. CASE A # {}
    <3> DEFINE x == Some(A)
               C == A \ {x}
               u == h[x]
               g == Part(A)
               k == Part(C)
    <3>1. x \in A /\ SumFunctionOnSet(f, A) = f[x] + SumFunctionOnSet(f, C)
      BY <2>2, <1>0, SumStep
    <3>2. C \in Good /\ C \in SUBSET S /\ u \in T /\ f[x] \in Nat
      BY <1>1, <3>1
    <3> HIDE DEF x
    <3>3. g[u] = f[x] + k[u]
      <4>1. Fiber(A, h, u) \ {x} = Fiber(C, h, u) /\ x \in Fiber(A, h, u)
        BY <3>1 DEF Fiber
      <4>2. \A y \in Fiber(A, h, u) : f[y] \in Nat
        BY DEF Fiber
      <4>3. IsFiniteSet(Fiber(A, h, u))
        BY <1>0, <3>2
      <4> HIDE DEF C, u, Part
      <4>4. SumFunctionOnSet(f, Fiber(A, h, u)) = f[x] + SumFunctionOnSet(f, Fiber(C, h, u))
        BY <4>1, <4>2, <4>3, SumPick
      <4>5. QED
        BY <4>4, <3>2 DEF Part
    <3>4. \A t \in T \ {u} : g[t] = k[t]
      <4>1. \A t \in T \ {u} : Fiber(A, h, t) = Fiber(C, h, t)
        BY DEF Fiber
      <4>2. QED
        BY <4>1
    <3>5. \A t \in T : g[t] \in Nat /\ k[t] \in Nat
      BY <1>0, <3>2
    <3>6. SumFunctionOnSet(f, C) = SumFunctionOnSet(k, T)
      BY <3>2
    <3> HIDE DEF g, k, C, u, Part
    <3> DEFINE D == T \ {u}
    <3>7. IsFiniteSet(D) /\ \A t \in D : g[t] = k[t]
      BY <3>4, FS_Subset
    <3>8. SumFunctionOnSet(g, T) = g[u] + SumFunctionOnSet(g, D) /\ SumFunctionOnSet(k, T) = k[u] + SumFunctionOnSet(k, D)
      BY <3>2, <3>5, SumPick
    <3> HIDE DEF D
    <3>9. SumFunctionOnSet(g, D) = SumFunctionOnSet(k, D)
      BY <3>7, SumAgrees
    <3>10. SumFunctionOnSet(g, D) \in Nat
      <4>1. \A t \in D : g[t] \in Nat
        BY <3>5 DEF D
      <4>2. QED
        BY <3>7, <4>1, SumIsNat
    <3>11. SumFunctionOnSet(f, A) = SumFunctionOnSet(g, T)
      BY <3>1, <3>2, <3>3, <3>5, <3>6, <3>8, <3>9, <3>10
    <3>12. QED
      BY <3>11 DEF g, C
  <2>3. QED
    BY <2>1, <2>2
<1>2. Good = SUBSET S
  <2> HIDE DEF Good
  <2>1. Good \in SUBSET SUBSET S
    BY DEF Good
  <2>2. QED
    BY <1>1, <2>1, SubsetInduction
<1>3. QED
  BY <1>2

-----------------------------------------------------------------------------
(* The residue of a number, and reducing a sum early or late.              *)
LEMMA ResidueIs ==
  ASSUME NEW a \in Nat, NEW q \in Int, NEW c \in Nat, c < P, a = P * q + c
  PROVE  a % P = c
<1>1. P \in Nat \ {0}
  BY TallyAssumption
<1> DEFINE p == a \div P
           d == a % P
<1>2. a = P * p + d /\ p \in Int /\ d \in Nat /\ d < P
  BY ONLY <1>1, a \in Nat
<1> HIDE DEF p, d
<1>3. P * (q - p) = d - c
  BY <1>1, <1>2
<1>4. CASE p = q
  <2>1. P * (q - p) = 0
    BY <1>1, <1>2, <1>4
  <2>2. c = d
    BY <1>2, <1>3, <2>1
  <2>3. QED
    BY <2>2 DEF d
<1>5. CASE q - p >= 1
  <2>1. P * (q - p) >= P
    BY ONLY <1>1, <1>2, <1>5, q \in Int
  <2>2. QED
    BY <1>1, <1>2, <1>3, <2>1
<1>6. CASE q - p <= -1
  <2>1. P * (p - q) = c - d /\ p - q >= 1
    BY <1>1, <1>2, <1>3, <1>6
  <2>2. P * (p - q) >= P
    BY ONLY <1>1, <1>2, <2>1, q \in Int
  <2>3. QED
    BY <1>1, <1>2, <2>1, <2>2
<1>7. QED
  BY <1>2, <1>4, <1>5, <1>6

LEMMA ReducedEarly ==
  ASSUME NEW a \in Nat, NEW x \in Nat
  PROVE  ((a % P) + x) % P = (a + x) % P
<1>1. P \in Nat \ {0}
  BY TallyAssumption
<1> DEFINE r == a % P
           v == a \div P
           u == (r + x) \div P
           c == (r + x) % P
<1>2. a = P * v + r /\ v \in Int /\ r \in Nat
  BY ONLY <1>1, a \in Nat
<1> HIDE DEF r, v
<1>3. r + x = P * u + c /\ u \in Int /\ c \in Nat /\ c < P
  BY ONLY <1>1, <1>2, x \in Nat
<1> HIDE DEF u, c
<1>4. a + x = P * (u + v) + c
  BY <1>1, <1>2, <1>3
<1>5. (a + x) % P = c
  BY <1>2, <1>3, <1>4, ResidueIs
<1>6. QED
  BY <1>5 DEF c, r
=============================================================================
