---------------------------- MODULE MeasuresProofs ----------------------------
(***************************************************************************)
(* Proofs about what is measured while a run goes on: the gate's verdict   *)
(* (Gate), for any periods, any skew and any samples, and the figures      *)
(* (Lag), for any number of batches, commits and polls, any warm-up, bound *)
(* and grid, and a writer's clock that is off by any amount.               *)
(***************************************************************************)
EXTENDS Gate, Lag, FiniteSetTheorems, TLAPS

(* A set of numbers has a least one.                                       *)
LEMMA LeastNumber ==
  ASSUME NEW M \in SUBSET Nat, M # {}
  PROVE  \E m \in M : \A k \in M : m <= k
<1>1. PICK n \in M : TRUE
  OBVIOUS
<1> DEFINE S == 0 .. n
           R == StrictSubsetOrdering(S)
           U == SUBSET S
           F == {0 .. k : k \in {j \in M : j <= n}}
<1>2. IsFiniteSet(S)
  BY FS_Interval
<1>3. IsWellFoundedOn(R, U)
  BY <1>2, FS_StrictSubsetOrderingWellFounded, FS_FiniteSubsetsOfFinite
<1>4. F \subseteq U /\ F # {}
  OBVIOUS
<1> HIDE DEF S, R, U, F
<1>5. PICK A \in F : \A B \in F : ~(<<B, A>> \in R)
  BY ONLY <1>3, <1>4, WFMin, SMT
<1>6. PICK m \in M : m <= n /\ A = 0 .. m
  BY DEF F
<1>7. ASSUME NEW k \in M, k < m PROVE FALSE
  <2>1. 0 .. k \in F
    BY <1>6, <1>7 DEF F
  <2>2. 0 .. k \subseteq 0 .. m /\ m \in 0 .. m /\ m \notin 0 .. k
    BY <1>7
  <2>3. <<0 .. k, 0 .. m>> \in R
    BY <2>1, <2>2, <1>4, <1>6 DEF R, StrictSubsetOrdering, U
  <2>4. QED
    BY <1>5, <1>6, <2>1, <2>3
<1>8. QED
  BY <1>7

(* A bounded set of integers has a greatest one.                           *)
LEMMA GreatestNumber ==
  ASSUME NEW M \in SUBSET Int, M # {}, NEW top \in Int, \A m \in M : m <= top
  PROVE  \E m \in M : \A k \in M : k <= m
<1> DEFINE D == {top - m : m \in M}
<1>1. \A m \in M : top - m \in Nat
  OBVIOUS
<1>2. D \in SUBSET Nat
  BY <1>1
<1>3. D # {}
  OBVIOUS
<1> HIDE DEF D
<1>4. PICK d \in D : \A e \in D : d <= e
  BY <1>2, <1>3, LeastNumber
<1>5. PICK m \in M : d = top - m
  BY <1>4 DEF D
<1>6. ASSUME NEW k \in M PROVE k <= m
  <2>1. top - k \in D
    BY DEF D
  <2>2. top - m <= top - k
    BY <1>4, <1>5, <2>1
  <2>3. QED
    BY <2>2
<1>7. QED
  BY <1>6

-----------------------------------------------------------------------------
(* The gate.                                                               *)
(* Where every backlog is zero, so is the floor.                           *)
LEMMA FloorOfZeros ==
  ASSUME NEW S, S # {}, \A s \in S : s.backlog = 0
  PROVE  Floor(S) = 0
<1>1. {s.backlog : s \in S} = {0}
  OBVIOUS
<1>2. QED
  BY <1>1 DEF Floor

(* A floor that rose was seen in a window with a backlog.                  *)
LEMMA RisingNeedsBacklog ==
  ASSUME NEW S, NEW at, RisingFloor(S, at)
  PROVE  \E s \in InWindow(S, at, 2) : s.backlog # 0
<1> SUFFICES ASSUME \A s \in InWindow(S, at, 2) : s.backlog = 0
             PROVE  FALSE
  OBVIOUS
<1>1. CASE InWindow(S, at, 2) = {}
  BY <1>1 DEF RisingFloor, BacklogFloor, Floor
<1>2. CASE InWindow(S, at, 2) # {}
  <2>1. Floor(InWindow(S, at, 2)) = 0
    BY <1>2, FloorOfZeros
  <2>2. QED
    BY <2>1 DEF RisingFloor, BacklogFloor
<1>3. QED
  BY <1>1, <1>2

LEMMA FloorIsLeast ==
  ASSUME NEW S, S # {}, \A s \in S : s.backlog \in Nat
  PROVE  /\ \E s \in S : s.backlog = Floor(S)
         /\ \A s \in S : Floor(S) <= s.backlog
<1> DEFINE M == {s.backlog : s \in S}
<1>1. M \in SUBSET Nat /\ M # {}
  OBVIOUS
<1>2. \E m \in M : \A k \in M : m <= k
  <2> HIDE DEF M
  <2>1. QED
    BY <1>1, LeastNumber
<1>3. Floor(S) \in M /\ \A k \in M : Floor(S) <= k
  BY <1>2 DEF Floor
<1>4. QED
  BY <1>3

(* A floor that rises twice leaves no sample of the newest window at, or   *)
(* one above, the lowest of the oldest.                                    *)
LEMMA RisenTwice ==
  ASSUME NEW S, \A s \in S : s.backlog \in Nat, NEW at, RisingFloor(S, at)
  PROVE  \E old \in InWindow(S, at, 2) : \A new \in InWindow(S, at, 0) : new.backlog >= old.backlog + 2
<1> DEFINE f(i) == BacklogFloor(S, at, i)
           W(i) == InWindow(S, at, i)
<1>1. \A i \in 0 .. 2 : \A s \in W(i) : s.backlog \in Nat
  BY DEF InWindow
<1>2. \A i \in 0 .. 2 : W(i) = {} => f(i) = NoFloor
  BY DEF BacklogFloor, Floor
<1>3. f(1) # NoFloor /\ f(2) # NoFloor /\ f(0) > f(1) /\ f(1) > f(2)
  BY DEF RisingFloor
<1>4. W(1) # {} /\ W(2) # {}
  BY <1>2, <1>3
<1>5. \A i \in 0 .. 2 : W(i) # {} =>
        (\E s \in W(i) : s.backlog = f(i)) /\ (\A s \in W(i) : f(i) <= s.backlog)
  BY <1>1, FloorIsLeast DEF BacklogFloor
<1>6. PICK old \in W(2) : old.backlog = f(2)
  BY <1>4, <1>5
<1>7. f(1) \in Nat /\ f(2) \in Nat
  BY <1>1, <1>4, <1>5
<1> HIDE DEF f, W
<1>8. ASSUME NEW new \in W(0) PROVE new.backlog >= old.backlog + 2
  <2>1. (\E s \in W(0) : s.backlog = f(0)) /\ f(0) <= new.backlog /\ new.backlog \in Nat
    BY <1>1, <1>5
  <2>2. f(0) \in Nat
    BY <1>1, <2>1
  <2>3. QED
    BY <1>3, <1>6, <1>7, <2>1, <2>2
<1>9. QED
  BY <1>6, <1>8 DEF W

(* What the verdict rests on, whatever the artifacts.                      *)
LEMMA VerdictRests ==
  ASSUME NEW sum, NEW S, NEW at
  PROVE  /\ gate_verdict(sum, S, at) \in {"PASS", "UNDERSIZED", "VOID"}
         /\ gate_verdict(sum, S, at) = "PASS" =>
              ~Stale(S, at) /\ InWindow(S, at, 0) # {}
         /\ gate_verdict(sum, S, at) = "UNDERSIZED" =>
              Lagging(sum, at) \/ RisingFloor(S, at)
BY DEF gate_verdict, BacklogFloor, Floor

(* The invariant holds initially.                                          *)
LEMMA InitIInv == Init => IInv
BY GateAssumption DEF Init, IInv, TypeOK, OfferHasEpoch, Dated, PassRestsOn,
     CapacityAfterAdaptation, Summary, None, Alive

(* A sample is of its time.                                                *)
LEMMA TakeSampleKeeps ==
  ASSUME IInv, TakeSample
  PROVE  IInv'
<1> USE GateAssumption DEF IInv, Alive
<1>1. make_sample \in Sample
  BY DEF TypeOK, make_sample, Sample
<1>2. diedAt = Alive
  BY DEF TakeSample
<1>3. now + Skew < Epoch + Skew => make_sample.backlog = 0
  BY DEF TypeOK, OfferHasEpoch, make_sample
<1>4. Dated(samples)'
  BY <1>1, <1>2, <1>3 DEF TakeSample, Dated, make_sample, TypeOK
<1>5. TypeOK'
  BY <1>1 DEF TakeSample, TypeOK, Summary, gateVars
<1>6. QED
  BY <1>2, <1>4, <1>5 DEF TakeSample, gateVars, OfferHasEpoch, PassRestsOn, CapacityAfterAdaptation

(* A verdict rests on published samples.                                   *)
LEMMA JudgeKeeps ==
  ASSUME IInv, Judge
  PROVE  IInv'
<1> USE GateAssumption DEF IInv
<1>1. verdict' = gate_verdict(gotSummary, gotSamples, now) /\ judgedAt' = now
  BY DEF Judge
<1>2. \A s \in gotSamples : s.at \in Int /\ s.backlog \in Nat
  BY DEF TypeOK, Sample
<1>3. PassRestsOn'
  <2> SUFFICES ASSUME verdict' = "PASS"
               PROVE  /\ \E s \in gotSamples : now - s.at <= StaleAfter
                      /\ \E s \in gotSamples : now - s.at <= Window
    BY <1>1, gotSamples \subseteq samples DEF PassRestsOn, Judge, scorerVars
  <2>1. ~Stale(gotSamples, now) /\ InWindow(gotSamples, now, 0) # {}
    BY <1>1, VerdictRests
  <2>2. \E s \in gotSamples : now - s.at <= StaleAfter
    BY <2>1, <1>2 DEF Stale, TypeOK
  <2>3. \E s \in gotSamples : now - s.at <= Window
    BY <2>1, <1>2 DEF InWindow, TypeOK
  <2>4. QED
    BY <2>2, <2>3
<1>4. ASSUME WindowsReachBack PROVE CapacityAfterAdaptation'
  <2> SUFFICES ASSUME verdict' = "UNDERSIZED"
               PROVE  now >= Epoch + Adaptation
    BY <1>1 DEF CapacityAfterAdaptation
  <2>1. CASE Lagging(gotSummary, now)
    BY <2>1 DEF Lagging
  <2>2. CASE RisingFloor(gotSamples, now)
    <3>1. PICK s \in InWindow(gotSamples, now, 2) : s.backlog # 0
      BY <2>2, RisingNeedsBacklog
    <3>2. s \in gotSamples /\ s.at < now - 2 * Window
      BY <3>1 DEF InWindow
    <3>3. s.at >= Epoch + Skew
      BY <3>1, <3>2, <1>2 DEF Dated
    <3>4. QED
      BY <3>2, <3>3, <1>2, <1>4 DEF WindowsReachBack, TypeOK
  <2>3. QED
    BY <1>1, <2>1, <2>2, VerdictRests
<1>5. TypeOK'
  <2>1. verdict' \in {"PASS", "UNDERSIZED", "VOID"}
    BY <1>1, VerdictRests
  <2>2. QED
    BY <2>1 DEF Judge, TypeOK, scorerVars
<1>6. QED
  BY <1>3, <1>4, <1>5 DEF Judge, scorerVars, OfferHasEpoch, Dated, WindowsReachBack

(* Every step keeps the invariant.                                         *)
LEMMA NextIInv ==
  ASSUME IInv, [Next]_vars
  PROVE  IInv'
<1> USE GateAssumption DEF IInv, TypeOK, OfferHasEpoch, Dated, PassRestsOn,
        CapacityAfterAdaptation, Alive
<1>1. CASE Tick
  BY <1>1 DEF Tick, scorerVars, gateVars, Sample
<1>2. CASE Offer
  BY <1>2 DEF Offer, scorerVars, gateVars
<1>3. CASE Commit
  BY <1>3 DEF Commit, scorerVars, gateVars
<1>4. CASE EndScoring
  BY <1>4 DEF EndScoring, gateVars, Summary
<1>5. CASE UploadSamples
  BY <1>5 DEF UploadSamples, gateVars
<1>6. CASE UploadSummary
  BY <1>6 DEF UploadSummary, gateVars
<1>7. CASE LoseScorer
  BY <1>7 DEF LoseScorer, gateVars
<1>8. CASE FetchSummary
  BY <1>8 DEF FetchSummary, scorerVars
<1>9. CASE FetchSamples
  BY <1>9 DEF FetchSamples, scorerVars
<1>10. CASE UNCHANGED vars
  BY <1>10 DEF vars, scorerVars, gateVars
<1>11. QED
  BY <1>1, <1>2, <1>3, <1>4, <1>5, <1>6, <1>7, <1>8, <1>9, <1>10,
     TakeSampleKeeps, JudgeKeeps DEF Next, World, Scorer, Gating

(* IInv is an invariant, whatever the periods and the skew.                *)
THEOREM GateInvariant == Spec => []IInv
<1>1. IInv /\ [Next]_vars => IInv'
  BY NextIInv
<1>2. QED
  BY InitIInv, <1>1, PTL DEF Spec

(* UNDERSIZED is not said before the adaptation period ends: as long as    *)
(* the windows reach back over it.                                         *)
THEOREM GateWaitsForCapacity == WindowsReachBack => (Spec => []CapacityAfterAdaptation)
<1>1. WindowsReachBack /\ IInv => CapacityAfterAdaptation
  BY DEF IInv
<1>2. SUFFICES ASSUME WindowsReachBack PROVE Spec => []CapacityAfterAdaptation
  OBVIOUS
<1>3. IInv => CapacityAfterAdaptation
  BY <1>1, <1>2
<1>4. QED
  BY <1>3, GateInvariant, PTL

(* A dead scorer is passed no longer than its last sample is fresh.        *)
THEOREM GatePassIsMeasured == Spec => []PassIsMeasured
<1>1. IInv => PassIsMeasured
  <2> SUFFICES ASSUME IInv, verdict = "PASS", diedAt # Alive
               PROVE  /\ judgedAt - diedAt <= StaleAfter + Skew
                      /\ judgedAt - diedAt <= Window + Skew
    BY DEF PassIsMeasured
  <2>1. \A s \in samples : s.at \in Int /\ s.at <= diedAt + Skew
    BY DEF IInv, TypeOK, Sample, Dated
  <2>2. diedAt \in Nat /\ judgedAt \in Nat
    BY DEF IInv, TypeOK
  <2>3. PICK s \in samples : judgedAt - s.at <= StaleAfter
    BY DEF IInv, PassRestsOn
  <2>4. PICK r \in samples : judgedAt - r.at <= Window
    BY DEF IInv, PassRestsOn
  <2>5. QED
    BY <2>1, <2>2, <2>3, <2>4, GateAssumption
<1>2. QED
  BY <1>1, GateInvariant, PTL

(* What an UNDERSIZED verdict was given for, as long as the gate keeps     *)
(* what it judged.                                                         *)
UndersizedRestsOn ==
  /\ gate # "idle" => verdict = "none"
  /\ verdict = "UNDERSIZED" => Lagging(gotSummary, judgedAt) \/ RisingFloor(gotSamples, judgedAt)

LEMMA RestsOnKept ==
  ASSUME IInv, UndersizedRestsOn, [Next]_vars
  PROVE  UndersizedRestsOn'
<1>1. CASE FetchSummary
  BY <1>1 DEF FetchSummary, UndersizedRestsOn
<1>2. CASE FetchSamples
  BY <1>2 DEF FetchSamples, UndersizedRestsOn
<1>3. CASE Judge
  <2>1. verdict' = gate_verdict(gotSummary, gotSamples, now) /\ judgedAt' = now /\ gate' = "idle"
        /\ UNCHANGED <<gotSummary, gotSamples>>
    BY <1>3 DEF Judge
  <2>2. verdict' = "UNDERSIZED" => Lagging(gotSummary, now) \/ RisingFloor(gotSamples, now)
    BY <2>1, VerdictRests
  <2>3. QED
    BY <2>1, <2>2 DEF UndersizedRestsOn, Lagging, RisingFloor, BacklogFloor, InWindow
<1>4. CASE UNCHANGED gateVars
  BY <1>4 DEF gateVars, UndersizedRestsOn, Lagging, RisingFloor, BacklogFloor, InWindow
<1>5. CASE World \/ Scorer \/ UNCHANGED vars
  <2>1. UNCHANGED gateVars
    BY <1>5 DEF World, Scorer, Tick, Offer, Commit, TakeSample, EndScoring, UploadSamples, UploadSummary,
                LoseScorer, vars
  <2>2. QED
    BY <1>4, <2>1
<1>6. QED
  BY <1>1, <1>2, <1>3, <1>5 DEF Next, Gating

(* A fleet whose backlog came back at any sample of the last window is not *)
(* undersized by its backlog (rising_floor), whatever the samples, the     *)
(* periods and the times of the uploads and downloads.                     *)
THEOREM GateSparesRecovered == Spec => []RecoveredIsNotUndersized
<1>1. Init => UndersizedRestsOn
  BY DEF Init, UndersizedRestsOn
<1>2. IInv /\ UndersizedRestsOn /\ [Next]_vars => UndersizedRestsOn'
  BY RestsOnKept
<1>3. IInv /\ UndersizedRestsOn => RecoveredIsNotUndersized
  <2> SUFFICES ASSUME IInv, UndersizedRestsOn, verdict = "UNDERSIZED", ~Lagging(gotSummary, judgedAt)
               PROVE  \E old \in InWindow(gotSamples, judgedAt, 2) :
                        \A new \in InWindow(gotSamples, judgedAt, 0) : new.backlog >= old.backlog + 2
    BY DEF RecoveredIsNotUndersized
  <2>1. \A s \in gotSamples : s.backlog \in Nat
    BY DEF IInv, TypeOK, Sample
  <2>2. RisingFloor(gotSamples, judgedAt)
    BY DEF UndersizedRestsOn
  <2>3. QED
    BY <2>1, <2>2, RisenTwice
<1>4. QED
  BY <1>1, <1>2, <1>3, GateInvariant, PTL DEF Spec

-----------------------------------------------------------------------------
(* Coverage.                                                               *)
LEMMA SetupOK ==
  ASSUME LagTypeOK
  PROVE  /\ setup \in LagSetup /\ NBatches \in Nat \ {0} /\ WriterSkew \in Nat /\ Warmup \in Nat
         /\ Bound \in Nat /\ BehindMax \in Nat /\ Grid \in Nat \ {0} /\ NoTime \notin Int
BY LagAssumption DEF LagTypeOK, LagSetup, NBatches, WriterSkew, Warmup, Bound, BehindMax, Grid

LEMMA PrefixIs ==
  ASSUME NBatches \in Nat \ {0}, NEW B \in SUBSET Batches
  PROVE  /\ PrefixOf(B) \in -1 .. NBatches - 1
         /\ 0 .. PrefixOf(B) \subseteq B /\ PrefixOf(B) + 1 \notin B
<1> DEFINE M == {k \in 0 .. NBatches : k \notin B}
<1>1. M \in SUBSET Nat /\ NBatches \in M
  BY DEF Batches
<1> HIDE DEF M
<1>2. PICK m \in M : \A k \in M : m <= k
  BY <1>1, LeastNumber
<1>3. m \in 0 .. NBatches /\ m \notin B
  BY <1>2 DEF M
<1>4. 0 .. (m - 1) \subseteq B
  <2> SUFFICES ASSUME NEW k \in 0 .. (m - 1), k \notin B PROVE FALSE
    OBVIOUS
  <2>1. k \in M
    BY <1>3 DEF M
  <2>2. QED
    BY <1>2, <1>3, <2>1
<1>5. m - 1 \in -1 .. NBatches - 1 /\ (m - 1) + 1 = m
  BY <1>3
<1>6. \E k \in -1 .. NBatches - 1 : 0 .. k \subseteq B /\ k + 1 \notin B
  BY <1>3, <1>4, <1>5
<1>7. QED
  BY <1>6 DEF PrefixOf

(* More batches cover no less.                                             *)
LEMMA PrefixGrows ==
  ASSUME NBatches \in Nat \ {0}, NEW B \in SUBSET Batches, NEW A \in SUBSET B
  PROVE  PrefixOf(A) <= PrefixOf(B)
<1> DEFINE a == PrefixOf(A)
           b == PrefixOf(B)
<1>1. a \in -1 .. NBatches - 1 /\ 0 .. a \subseteq A
  BY PrefixIs
<1>2. b \in -1 .. NBatches - 1 /\ b + 1 \notin B
  BY PrefixIs
<1> HIDE DEF a, b
<1>3. SUFFICES ASSUME b < a PROVE FALSE
  BY <1>1, <1>2 DEF a, b
<1>4. b + 1 \in 0 .. a
  BY <1>1, <1>2, <1>3
<1>5. QED
  BY <1>1, <1>2, <1>4

LEMMA TableBatches ==
  ASSUME LagTypeOK
  PROVE  /\ \A n \in Nat : n <= Len(commits) => CommittedBy(n) \in SUBSET Batches
         /\ \A c \in DOMAIN commits : /\ c \in Nat /\ commits[c].at \in Nat /\ commits[c].ts \in Int
                                      /\ commits[c].batches \in SUBSET Batches
         /\ DOMAIN commits = 1 .. Len(commits) /\ Len(commits) \in Nat
<1>1. commits \in Seq([at : Nat, ts : Int, batches : SUBSET Batches])
  BY DEF LagTypeOK
<1>2. DOMAIN commits = 1 .. Len(commits) /\ Len(commits) \in Nat
  BY <1>1
<1>3. \A c \in DOMAIN commits : commits[c] \in [at : Nat, ts : Int, batches : SUBSET Batches]
  <2> DEFINE R == [at : Nat, ts : Int, batches : SUBSET Batches]
  <2>1. commits \in Seq(R)
    BY <1>1
  <2> HIDE DEF R
  <2>2. \A c \in DOMAIN commits : commits[c] \in R
    BY <2>1
  <2>3. QED
    BY <2>2 DEF R
<1>4. \A c \in DOMAIN commits : /\ c \in Nat /\ commits[c].at \in Nat /\ commits[c].ts \in Int
                                /\ commits[c].batches \in SUBSET Batches
  BY <1>2, <1>3
<1>5. ASSUME NEW n \in Nat, n <= Len(commits) PROVE CommittedBy(n) \in SUBSET Batches
  <2>1. \A c \in 1 .. n : commits[c].batches \subseteq Batches
    BY <1>2, <1>4, <1>5
  <2>2. QED
    BY <2>1 DEF CommittedBy
<1>6. QED
  BY <1>2, <1>4, <1>5

LEMMA CoverIs ==
  ASSUME LagTypeOK, NEW n \in 0 .. Len(commits)
  PROVE  Cover(n) \in -1 .. NBatches - 1
<1>1. CommittedBy(n) \in SUBSET Batches
  BY TableBatches
<1>2. QED
  BY <1>1, SetupOK, PrefixIs DEF Cover

LEMMA CoverGrows ==
  ASSUME LagTypeOK, NEW n \in 0 .. Len(commits), NEW k \in 0 .. n
  PROVE  Cover(k) <= Cover(n)
<1>1. CommittedBy(n) \in SUBSET Batches
  BY TableBatches
<1>2. CommittedBy(k) \subseteq CommittedBy(n)
  <2>1. 1 .. k \subseteq 1 .. n
    OBVIOUS
  <2>2. QED
    BY <2>1 DEF CommittedBy
<1>3. QED
  BY <1>1, <1>2, SetupOK, PrefixGrows DEF Cover

LEMMA CoverGrowsNext == LagTypeOK' => \A n \in 0 .. Len(commits') : \A k \in 0 .. n : Cover(k)' <= Cover(n)'
<1>1. LagTypeOK => \A n \in 0 .. Len(commits) : \A k \in 0 .. n : Cover(k) <= Cover(n)
  BY CoverGrows
<1>2. (LagTypeOK => \A n \in 0 .. Len(commits) : \A k \in 0 .. n : Cover(k) <= Cover(n))'
  BY <1>1, PTL
<1>3. QED
  BY <1>2

LEMMA NothingCovered ==
  ASSUME LagTypeOK
  PROVE  Cover(0) = -1
<1>1. CommittedBy(0) = {}
  BY DEF CommittedBy
<1>2. PrefixOf({}) \in -1 .. NBatches - 1 /\ 0 .. PrefixOf({}) \subseteq {}
  BY SetupOK, PrefixIs
<1>3. QED
  BY <1>1, <1>2 DEF Cover

(* The table is only appended to.                                          *)
LEMMA SameCover ==
  ASSUME setup' = setup, NEW n \in Nat, \A c \in 1 .. n : commits'[c] = commits[c]
  PROVE  CommittedBy(n)' = CommittedBy(n) /\ Cover(n)' = Cover(n)
<1>1. CommittedBy(n)' = CommittedBy(n)
  BY DEF CommittedBy
<1>2. NBatches' = NBatches
  BY DEF NBatches
<1>3. QED
  BY <1>1, <1>2 DEF Cover, PrefixOf

LEMMA ObservationsAre ==
  ASSUME LagTypeOK
  PROVE  /\ DOMAIN obs = 1 .. Len(obs) /\ Len(obs) \in Nat
         /\ \A i \in DOMAIN obs : /\ i \in Nat /\ obs[i].ts \in Int /\ obs[i].seen \in Nat
                                  /\ obs[i].prefix \in -1 .. NBatches - 1
<1> DEFINE R == [ts : Int, seen : Nat, prefix : -1 .. NBatches - 1]
<1>1. obs \in Seq(R)
  BY DEF LagTypeOK
<1> HIDE DEF R
<1>2. DOMAIN obs = 1 .. Len(obs) /\ Len(obs) \in Nat /\ \A i \in DOMAIN obs : obs[i] \in R
  BY <1>1
<1>3. QED
  BY <1>2 DEF R

LEMMA PollsAre ==
  ASSUME LagTypeOK
  PROVE  /\ DOMAIN polls = 1 .. Len(polls) /\ Len(polls) \in Nat
         /\ \A i \in DOMAIN polls : /\ i \in Nat /\ polls[i].at \in Nat /\ polls[i].read \in Nat
                                    /\ polls[i].doc \in Nat /\ polls[i].committed \in Nat
<1> DEFINE R == [at : Nat, read : Nat, doc : Nat, committed : Nat]
<1>1. polls \in Seq(R)
  BY DEF LagTypeOK
<1> HIDE DEF R
<1>2. DOMAIN polls = 1 .. Len(polls) /\ Len(polls) \in Nat /\ \A i \in DOMAIN polls : polls[i] \in R
  BY <1>1
<1>3. QED
  BY <1>2 DEF R

LEMMA SameSetup ==
  ASSUME setup' = setup
  PROVE  Batches' = Batches /\ NBatches' = NBatches /\ WriterSkew' = WriterSkew
BY DEF Batches, NBatches, WriterSkew

-----------------------------------------------------------------------------
(* The invariant holds initially, and every step keeps it.                 *)
LEMMA LagBegins == LagInit => LagInv
<1> SUFFICES ASSUME LagInit PROVE LagInv
  OBVIOUS
<1> USE DEF LagInit
<1>1. LagTypeOK
  BY DEF LagTypeOK
<1>2. WorldInOrder /\ DocIsTheTable /\ CatchesUp /\ PollsAreObserved
  BY DEF WorldInOrder, DocIsTheTable, CatchesUp, UpToDate, PollsAreObserved, PollIsObserved
<1>3. ObservationsAreCommits
  BY DEF ObservationsAreCommits
<1>4. QED
  BY <1>1, <1>2, <1>3 DEF LagInv

LEMMA WithinOf ==
  ASSUME NEW t \in Nat, NEW w \in Nat, NEW off \in -w .. w
  PROVE  t - w <= t + off /\ t + off <= t + w /\ t + off \in Int
OBVIOUS

LEMMA TableGrows ==
  ASSUME LagTypeOK, Committed, clock' \in Nat, setup' = setup
  PROVE  /\ commits' \in Seq([at : Nat, ts : Int, batches : SUBSET Batches])
         /\ Len(commits') \in {Len(commits), Len(commits) + 1}
         /\ \A c \in DOMAIN commits : c \in DOMAIN commits' /\ commits'[c] = commits[c]
         /\ \A c \in DOMAIN commits' \ DOMAIN commits :
              /\ c = Len(commits) + 1 /\ commits'[c].at = clock'
              /\ clock' - WriterSkew <= commits'[c].ts /\ commits'[c].ts <= clock' + WriterSkew
<1> DEFINE R == [at : Nat, ts : Int, batches : SUBSET Batches]
<1>1. commits \in Seq(R)
  BY DEF LagTypeOK
<1>2. CASE UNCHANGED commits
  <2> HIDE DEF R
  <2>1. commits' = commits /\ DOMAIN commits' \ DOMAIN commits = {} /\ commits' \in Seq(R)
    BY <1>1, <1>2
  <2>2. QED
    BY <1>1, <2>1 DEF R
<1>3. CASE ~UNCHANGED commits
  <2>1. PICK bs \in SUBSET ({b \in Batches : b <= clock'} \ CommittedBy(Len(commits))),
             off \in -WriterSkew .. WriterSkew :
          commits' = Append(commits, [at |-> clock', ts |-> clock' + off, batches |-> bs])
    BY <1>3 DEF Committed
  <2> DEFINE new == [at |-> clock', ts |-> clock' + off, batches |-> bs]
  <2>2. WriterSkew \in Nat
    BY SetupOK
  <2>3. new \in R /\ new.at = clock' /\ clock' - WriterSkew <= new.ts /\ new.ts <= clock' + WriterSkew
    <3>1. clock' - WriterSkew <= clock' + off /\ clock' + off <= clock' + WriterSkew /\ clock' + off \in Int
      BY <2>2, WithinOf
    <3>2. new.at = clock' /\ new.ts = clock' + off /\ new.batches = bs
      OBVIOUS
    <3>3. bs \in SUBSET Batches
      OBVIOUS
    <3>4. new \in R
      BY <3>1, <3>2, <3>3
    <3>5. QED
      BY <3>1, <3>2, <3>4
  <2>4. commits' = Append(commits, new)
    BY <2>1
  <2> HIDE DEF new, R
  <2>5. /\ commits' \in Seq(R) /\ Len(commits') = Len(commits) + 1
        /\ DOMAIN commits = 1 .. Len(commits) /\ DOMAIN commits' = 1 .. (Len(commits) + 1)
        /\ Len(commits) \in Nat /\ commits'[Len(commits) + 1] = new
        /\ \A c \in 1 .. Len(commits) : commits'[c] = commits[c]
    BY <1>1, <2>3, <2>4
  <2>6. \A c \in DOMAIN commits' \ DOMAIN commits : c = Len(commits) + 1 /\ commits'[c] = new
    BY <2>5
  <2>7. QED
    BY <2>3, <2>5, <2>6 DEF R
<1>4. QED
  BY <1>2, <1>3

LEMMA TimePassesKeeps == ASSUME LagInv, TimePasses PROVE LagInv'
<1> USE DEF LagInv
<1>1. /\ setup' = setup /\ clock' = clock + 1 /\ clock \in Nat
      /\ UNCHANGED <<place, doc, firstSeen, seen, obs, fails, records, polls, endMs>>
  BY DEF TimePasses, LagTypeOK
<1>2. Batches' = Batches /\ NBatches' = NBatches /\ WriterSkew' = WriterSkew /\ NoTime \notin Int
  BY <1>1, SameSetup, SetupOK
<1>3. /\ commits' \in Seq([at : Nat, ts : Int, batches : SUBSET Batches])
      /\ Len(commits') \in {Len(commits), Len(commits) + 1}
      /\ \A c \in DOMAIN commits : c \in DOMAIN commits' /\ commits'[c] = commits[c]
      /\ \A c \in DOMAIN commits' \ DOMAIN commits :
           /\ c = Len(commits) + 1 /\ commits'[c].at = clock'
           /\ clock' - WriterSkew <= commits'[c].ts /\ commits'[c].ts <= clock' + WriterSkew
  BY <1>1, TableGrows DEF TimePasses
<1>4. DOMAIN commits = 1 .. Len(commits) /\ Len(commits) \in Nat
  BY TableBatches
<1>5. ASSUME NEW n \in 0 .. Len(commits)
      PROVE  CommittedBy(n)' = CommittedBy(n) /\ Cover(n)' = Cover(n)
  <2>1. n \in Nat /\ \A c \in 1 .. n : commits'[c] = commits[c]
    BY <1>3, <1>4
  <2>2. QED
    BY <1>1, <2>1, SameCover
<1>6. /\ acked' \in [Batches -> Nat \cup {NoTime}]
      /\ \A b \in Batches : acked'[b] # NoTime => b <= acked'[b] /\ acked'[b] <= clock'
      /\ \A b \in Batches : acked[b] # NoTime => acked'[b] # NoTime
  <2>1. PICK bs \in SUBSET {b \in Batches : acked[b] = NoTime /\ b <= clock'} :
          acked' = [b \in Batches |-> IF b \in bs THEN clock' ELSE acked[b]]
    BY DEF TimePasses, Acknowledged
  <2>2. \A b \in Batches : /\ acked[b] \in Nat \/ acked[b] = NoTime
                           /\ acked[b] # NoTime => b <= acked[b] /\ acked[b] <= clock
                           /\ acked'[b] = acked[b] \/ (acked'[b] = clock' /\ b <= clock')
    BY <2>1 DEF LagTypeOK, WorldInOrder
  <2>3. \A b \in Batches : acked'[b] # NoTime => b <= acked'[b] /\ acked'[b] <= clock'
    BY <1>1, <2>2
  <2>4. acked' \in [Batches -> Nat \cup {NoTime}]
    BY <1>1, <2>1, <2>2
  <2>5. \A b \in Batches : acked[b] # NoTime => acked'[b] # NoTime
    BY <1>1, <1>2, <2>2
  <2>6. QED
    BY <2>3, <2>4, <2>5
<1>7. LagTypeOK'
  BY <1>1, <1>2, <1>3, <1>4, <1>6 DEF LagTypeOK
<1>8. WorldInOrder'
  <2>1. \A b \in records' : acked'[b] # NoTime
    BY <1>1, <1>6 DEF WorldInOrder, LagTypeOK
  <2>2. ASSUME NEW c \in DOMAIN commits'
        PROVE  /\ commits'[c].at <= clock' /\ commits'[c].at \in Nat
               /\ commits'[c].at - WriterSkew <= commits'[c].ts /\ commits'[c].ts <= commits'[c].at + WriterSkew
    <3>1. CASE c \in DOMAIN commits
      <4>1. commits'[c] = commits[c] /\ commits[c].at \in Nat /\ commits[c].at <= clock
            /\ commits[c].at - WriterSkew <= commits[c].ts /\ commits[c].ts <= commits[c].at + WriterSkew
        BY <1>3, <3>1, TableBatches DEF WorldInOrder
      <4>2. QED
        BY <1>1, <4>1
    <3>2. CASE c \notin DOMAIN commits
      BY <1>1, <1>3, <3>2
    <3>3. QED
      BY <3>1, <3>2
  <2>3. ASSUME NEW c \in DOMAIN commits', NEW d \in DOMAIN commits', c < d
        PROVE  commits'[c].at <= commits'[d].at
    <3>1. CASE d \in DOMAIN commits
      <4>1. DOMAIN commits' = 1 .. Len(commits')
        BY <1>3
      <4>2. c \in DOMAIN commits
        BY <1>4, <2>3, <3>1, <4>1
      <4>3. QED
        BY <1>3, <2>3, <3>1, <4>2 DEF WorldInOrder
    <3>2. CASE d \notin DOMAIN commits
      BY <1>1, <1>3, <2>2, <3>2
    <3>3. QED
      BY <3>1, <3>2
  <2>4. QED
    BY <1>2, <1>6, <2>1, <2>2, <2>3 DEF WorldInOrder
<1>9. DocIsTheTable'
  <2> SUFFICES ASSUME place = "scan"
               PROVE  /\ seen <= doc /\ firstSeen <= clock'
                      /\ \A c \in DOMAIN commits' : c <= doc <=> commits'[c].at <= firstSeen
    BY <1>1 DEF DocIsTheTable
  <2>1. seen <= doc /\ firstSeen <= clock /\ firstSeen \in Nat /\ doc \in 0 .. Len(commits)
    BY DEF DocIsTheTable, LagTypeOK
  <2>2. ASSUME NEW c \in DOMAIN commits' PROVE c <= doc <=> commits'[c].at <= firstSeen
    <3>1. CASE c \in DOMAIN commits
      BY <1>3, <3>1 DEF DocIsTheTable
    <3>2. CASE c \notin DOMAIN commits
      BY <1>1, <1>3, <1>4, <2>1, <3>2
    <3>3. QED
      BY <3>1, <3>2
  <2>3. QED
    BY <1>1, <2>1, <2>2
<1>10. ObservationsAreCommits'
  <2>1. seen \in 0 .. Len(commits) /\ seen' = seen /\ obs' = obs
    BY <1>1 DEF LagTypeOK
  <2>2. ASSUME NEW i \in DOMAIN obs
        PROVE  \E c \in DOMAIN commits' :
                 obs[i].ts = commits'[c].ts /\ commits'[c].at <= obs[i].seen /\ obs[i].prefix = Cover(c)'
    <3>1. PICK c \in DOMAIN commits :
            obs[i].ts = commits[c].ts /\ commits[c].at <= obs[i].seen /\ obs[i].prefix = Cover(c)
      BY DEF ObservationsAreCommits
    <3>2. Cover(c)' = Cover(c) /\ c \in DOMAIN commits' /\ commits'[c] = commits[c]
      BY <1>3, <1>4, <1>5
    <3>3. QED
      BY <3>1, <3>2
  <2>3. ASSUME NEW i \in DOMAIN obs, NEW c \in DOMAIN commits', c > seen PROVE obs[i].prefix <= Cover(c)'
    <3>1. CASE c \in DOMAIN commits
      BY <1>4, <1>5, <2>3, <3>1 DEF ObservationsAreCommits
    <3>2. CASE c \notin DOMAIN commits
      <4>1. PICK d \in DOMAIN commits' : obs[i].prefix = Cover(d)' /\ d \in DOMAIN commits
        <5>1. PICK d \in DOMAIN commits : obs[i].prefix = Cover(d)
          BY DEF ObservationsAreCommits
        <5>2. QED
          BY <1>3, <1>4, <1>5, <5>1
      <4>2. c = Len(commits) + 1 /\ Len(commits') = c
        BY <1>3, <1>4, <3>2
      <4>3. Cover(d)' <= Cover(c)'
        <5>1. c \in 0 .. Len(commits') /\ d \in 0 .. c
          BY <1>4, <4>1, <4>2
        <5>2. \A k \in 0 .. Len(commits') : \A j \in 0 .. k : Cover(j)' <= Cover(k)'
          BY <1>7, CoverGrowsNext
        <5>3. QED
          BY <5>1, <5>2
      <4>4. QED
        BY <4>1, <4>3
    <3>3. QED
      BY <3>1, <3>2
  <2>4. ASSUME NEW i \in DOMAIN obs
        PROVE  obs[i].seen <= clock' /\ (place' = "scan" => obs[i].seen <= firstSeen')
    BY <1>1, ObservationsAre DEF ObservationsAreCommits
  <2>5. ASSUME NEW c \in 1 .. seen
        PROVE  \E i \in DOMAIN obs : obs[i].ts = commits'[c].ts /\ obs[i].prefix = Cover(c)'
    <3>1. c \in DOMAIN commits /\ Cover(c)' = Cover(c) /\ commits'[c] = commits[c]
      BY <1>3, <1>4, <1>5, <2>1
    <3>2. QED
      BY <3>1 DEF ObservationsAreCommits
  <2>6. QED
    BY <2>1, <2>2, <2>3, <2>4, <2>5 DEF ObservationsAreCommits
<1>11. CatchesUp'
  <2>1. seen \in 0 .. Len(commits) /\ seen' = seen
    BY <1>1 DEF LagTypeOK
  <2>2. UpToDate' <=> UpToDate
    BY <1>1, <1>5, <2>1 DEF UpToDate
  <2>3. place' # "evaluate"
    BY <1>1 DEF TimePasses
  <2>4. seen = Len(commits') => seen = Len(commits)
    BY <1>3, <1>4, <2>1
  <2>5. QED
    BY <1>1, <2>1, <2>2, <2>3, <2>4 DEF CatchesUp
<1>12. PollsAreObserved'
  <2> SUFFICES ASSUME NEW s \in DOMAIN polls
               PROVE  /\ polls[s].read <= polls[s].at /\ polls[s].doc \in 0 .. Len(commits')
                      /\ polls[s].committed = Cardinality(CommittedBy(polls[s].doc)')
                      /\ \A c \in 1 .. polls[s].doc : commits'[c].at <= polls[s].read
                      /\ \/ Cover(polls[s].doc)' = -1
                         \/ \E i \in DOMAIN obs :
                              obs[i].seen <= polls[s].read /\ Cover(polls[s].doc)' <= obs[i].prefix
    BY <1>1 DEF PollsAreObserved, PollIsObserved
  <2>1. polls[s].doc \in 0 .. Len(commits)
    BY DEF PollsAreObserved, PollIsObserved
  <2>2. Cover(polls[s].doc)' = Cover(polls[s].doc) /\ CommittedBy(polls[s].doc)' = CommittedBy(polls[s].doc)
    BY <1>1, <1>5, <2>1
  <2>3. QED
    <3>1. \A c \in 1 .. polls[s].doc : commits'[c] = commits[c]
      BY <1>3, <1>4, <2>1
    <3>2. polls[s].doc \in 0 .. Len(commits')
      BY <1>3, <1>4, <2>1
    <3>3. QED
      BY <2>2, <3>1, <3>2 DEF PollsAreObserved, PollIsObserved
<1>13. QED
  BY <1>7, <1>8, <1>9, <1>10, <1>11, <1>12

LEMMA SameTable ==
  ASSUME UNCHANGED world
  PROVE  /\ setup' = setup /\ acked' = acked /\ commits' = commits
         /\ Batches' = Batches /\ NBatches' = NBatches /\ WriterSkew' = WriterSkew
         /\ \A n \in Nat : CommittedBy(n)' = CommittedBy(n) /\ Cover(n)' = Cover(n)
<1>1. setup' = setup /\ acked' = acked /\ commits' = commits
  BY DEF world
<1>2. QED
  BY <1>1, SameSetup, SameCover

(* A step that neither observes nor ends a poll.                           *)
LEMMA QuietKeeps ==
  ASSUME LagInv, UNCHANGED <<clock, world, seen, obs, polls>>,
         place' = "scan" => \A i \in DOMAIN obs : obs[i].seen <= firstSeen'
  PROVE  ObservationsAreCommits' /\ PollsAreObserved' /\ (UpToDate' <=> UpToDate)
<1> USE DEF LagInv
<1>1. commits' = commits /\ \A n \in Nat : CommittedBy(n)' = CommittedBy(n) /\ Cover(n)' = Cover(n)
  BY SameTable
<1>2. \A c \in DOMAIN commits : Cover(c)' = Cover(c)
  BY <1>1, TableBatches
<1>3. seen \in Nat
  BY DEF LagTypeOK
<1>4. ObservationsAreCommits'
  <2>1. \A i \in DOMAIN obs :
          /\ \E c \in DOMAIN commits :
               /\ obs[i].ts = commits[c].ts /\ commits[c].at <= obs[i].seen
               /\ obs[i].prefix = Cover(c)'
          /\ \A c \in DOMAIN commits : c > seen => obs[i].prefix <= Cover(c)'
          /\ obs[i].seen <= clock
    BY <1>2 DEF ObservationsAreCommits
  <2>2. \A i, j \in DOMAIN obs : i < j => obs[i].seen <= obs[j].seen /\ obs[i].prefix <= obs[j].prefix
    BY DEF ObservationsAreCommits
  <2>3. \A c \in 1 .. seen : \E i \in DOMAIN obs :
          obs[i].ts = commits[c].ts /\ obs[i].prefix = Cover(c)'
    BY <1>1, <1>3 DEF ObservationsAreCommits
  <2>4. QED
    BY <1>1, <2>1, <2>2, <2>3 DEF ObservationsAreCommits
<1>5. PollsAreObserved'
  <2>1. \A s \in DOMAIN polls : polls[s].doc \in Nat
    BY PollsAre
  <2>2. QED
    BY <1>1, <2>1 DEF PollsAreObserved, PollIsObserved
<1>6. UpToDate' <=> UpToDate
  BY <1>1, <1>3 DEF UpToDate
<1>7. QED
  BY <1>4, <1>5, <1>6

LEMMA ReadInputsKeeps == ASSUME LagInv, ReadInputs PROVE LagInv'
<1> USE DEF LagInv
<1>1. /\ UNCHANGED <<clock, world, seen, obs, polls, fails, endMs>>
      /\ doc' = Len(commits) /\ firstSeen' = clock /\ place = "sleep" /\ place' = "scan"
      /\ records' \subseteq Batches /\ \A b \in records' : acked[b] # NoTime
  BY DEF ReadInputs
<1>2. /\ setup' = setup /\ acked' = acked /\ commits' = commits
      /\ Batches' = Batches /\ NBatches' = NBatches /\ WriterSkew' = WriterSkew
  BY <1>1, SameTable
<1>3. LagTypeOK'
  <2>1. Len(commits) \in 0 .. Len(commits)
    BY TableBatches
  <2>2. QED
    BY <1>1, <1>2, <2>1 DEF LagTypeOK
<1>4. WorldInOrder'
  BY <1>1, <1>2 DEF WorldInOrder
<1>5. DocIsTheTable'
  <2>1. \A c \in DOMAIN commits : c <= Len(commits) /\ commits[c].at <= clock
    BY TableBatches DEF WorldInOrder
  <2>2. seen <= Len(commits) /\ clock <= clock
    BY DEF LagTypeOK
  <2>3. QED
    BY <1>1, <1>2, <2>1, <2>2 DEF DocIsTheTable
<1>6. ObservationsAreCommits' /\ PollsAreObserved' /\ (UpToDate' <=> UpToDate)
  <2>1. \A i \in DOMAIN obs : obs[i].seen <= clock
    BY DEF ObservationsAreCommits
  <2>2. QED
    BY <1>1, <2>1, QuietKeeps
<1>7. CatchesUp'
  BY <1>1, <1>2, <1>6 DEF CatchesUp
<1>8. QED
  BY <1>3, <1>4, <1>5, <1>6, <1>7

LEMMA EndsKeep == ASSUME LagInv, Finalize \/ Sleep PROVE LagInv'
<1> USE DEF LagInv
<1>1. /\ UNCHANGED <<clock, world, doc, firstSeen, seen, obs, fails, records, polls>>
      /\ place \in {"evaluate", "failed"} /\ place' \in {"sleep", "done"} /\ endMs' \in {endMs, clock}
  BY DEF Finalize, Sleep
<1>2. /\ setup' = setup /\ acked' = acked /\ commits' = commits
      /\ Batches' = Batches /\ NBatches' = NBatches /\ WriterSkew' = WriterSkew
  BY <1>1, SameTable
<1>3. LagTypeOK'
  BY <1>1, <1>2 DEF LagTypeOK
<1>4. WorldInOrder' /\ DocIsTheTable'
  BY <1>1, <1>2 DEF WorldInOrder, DocIsTheTable
<1>5. ObservationsAreCommits' /\ PollsAreObserved' /\ (UpToDate' <=> UpToDate)
  BY <1>1, QuietKeeps
<1>6. CatchesUp'
  BY <1>1, <1>2, <1>5 DEF CatchesUp
<1>7. QED
  BY <1>3, <1>4, <1>5, <1>6

LEMMA LagStutters == ASSUME LagInv, UNCHANGED lagVars PROVE LagInv'
<1> USE DEF LagInv
<1>1. /\ UNCHANGED <<clock, world, doc, firstSeen, seen, obs, fails, records, polls>>
      /\ place = place' /\ endMs' = endMs
  BY DEF lagVars, world
<1>2. /\ setup' = setup /\ acked' = acked /\ commits' = commits
      /\ Batches' = Batches /\ NBatches' = NBatches /\ WriterSkew' = WriterSkew
  BY <1>1, SameTable
<1>3. LagTypeOK'
  BY <1>1, <1>2 DEF LagTypeOK
<1>4. WorldInOrder' /\ DocIsTheTable'
  BY <1>1, <1>2 DEF WorldInOrder, DocIsTheTable
<1>5. ObservationsAreCommits' /\ PollsAreObserved' /\ (UpToDate' <=> UpToDate)
  <2>1. place = "scan" => \A i \in DOMAIN obs : obs[i].seen <= firstSeen
    BY DEF ObservationsAreCommits
  <2>2. QED
    BY <1>1, <2>1, QuietKeeps
<1>6. CatchesUp'
  BY <1>1, <1>2, <1>5 DEF CatchesUp
<1>7. QED
  BY <1>3, <1>4, <1>5, <1>6

LEMMA FunctionIsSeq ==
  ASSUME NEW R, NEW m \in Nat, NEW f \in [1 .. m -> R]
  PROVE  f \in Seq(R) /\ Len(f) = m
OBVIOUS

LEMMA Concatenated ==
  ASSUME NEW R, NEW s \in Seq(R), NEW t \in Seq(R)
  PROVE  /\ s \o t \in Seq(R) /\ Len(s \o t) = Len(s) + Len(t) /\ Len(s) \in Nat /\ Len(t) \in Nat
         /\ DOMAIN s = 1 .. Len(s) /\ DOMAIN (s \o t) = 1 .. Len(s \o t)
         /\ \A i \in 1 .. Len(s) : (s \o t)[i] = s[i]
         /\ \A i \in (Len(s) + 1) .. Len(s \o t) : (s \o t)[i] = t[i - Len(s)]
OBVIOUS

(* What a scan adds to the observations, however far it comes.             *)
LEMMA ScanAdds ==
  ASSUME LagInv, place = "scan", NEW n \in seen .. doc, obs' = obs \o Observed(n)
  PROVE  /\ Len(obs') = Len(obs) + (n - seen) /\ DOMAIN obs' = 1 .. Len(obs')
         /\ obs' \in Seq([ts : Int, seen : Nat, prefix : -1 .. NBatches - 1])
         /\ \A i \in DOMAIN obs : i \in DOMAIN obs' /\ obs'[i] = obs[i]
         /\ \A i \in DOMAIN obs' \ DOMAIN obs :
              /\ seen + i - Len(obs) \in DOMAIN commits /\ seen + i - Len(obs) \in (seen + 1) .. n
              /\ obs'[i].ts = commits[seen + i - Len(obs)].ts
              /\ obs'[i].seen = firstSeen /\ obs'[i].prefix = Cover(seen + i - Len(obs))
<1> USE DEF LagInv
<1> DEFINE R == [ts : Int, seen : Nat, prefix : -1 .. NBatches - 1]
           N == Observed(n)
<1>1. seen \in Nat /\ doc \in 0 .. Len(commits) /\ firstSeen \in Nat /\ n \in Nat /\ n - seen \in Nat
  BY DEF LagTypeOK
<1>2. DOMAIN commits = 1 .. Len(commits) /\ Len(commits) \in Nat
  BY TableBatches
<1>3. obs \in Seq(R)
  BY DEF LagTypeOK
<1>4. DOMAIN N = 1 .. (n - seen)
      /\ \A k \in 1 .. (n - seen) :
           N[k].ts = commits[seen + k].ts /\ N[k].seen = firstSeen /\ N[k].prefix = Cover(seen + k)
  BY DEF Observed, DocTime
<1>5. ASSUME NEW k \in 1 .. (n - seen)
      PROVE  N[k] \in R /\ seen + k \in DOMAIN commits /\ seen + k \in (seen + 1) .. n
  <2>1. seen + k \in DOMAIN commits /\ seen + k \in (seen + 1) .. n /\ seen + k \in 0 .. Len(commits)
    BY <1>1, <1>2
  <2>2. Cover(seen + k) \in -1 .. NBatches - 1 /\ commits[seen + k].ts \in Int
    BY <2>1, CoverIs, TableBatches
  <2>3. N[k] = [ts |-> commits[seen + k].ts, seen |-> firstSeen, prefix |-> Cover(seen + k)]
    BY DEF Observed, DocTime
  <2>4. QED
    BY <1>1, <2>1, <2>2, <2>3
<1>6. N = [k \in 1 .. (n - seen) |-> N[k]]
  BY DEF Observed
<1>7. obs' = obs \o N
  OBVIOUS
<1> HIDE DEF N, R
<1>8. N \in Seq(R) /\ Len(N) = n - seen
  <2>1. N \in [1 .. (n - seen) -> R]
    BY <1>5, <1>6
  <2>2. QED
    BY <1>1, <2>1, FunctionIsSeq
<1>9. /\ obs' \in Seq(R) /\ Len(obs') = Len(obs) + (n - seen) /\ Len(obs) \in Nat
      /\ DOMAIN obs = 1 .. Len(obs) /\ DOMAIN obs' = 1 .. Len(obs')
      /\ \A i \in 1 .. Len(obs) : obs'[i] = obs[i]
      /\ \A i \in (Len(obs) + 1) .. Len(obs') : obs'[i] = N[i - Len(obs)]
  <2> DEFINE both == obs \o N
  <2>1. /\ both \in Seq(R) /\ Len(both) = Len(obs) + Len(N) /\ Len(obs) \in Nat
        /\ DOMAIN obs = 1 .. Len(obs) /\ DOMAIN both = 1 .. Len(both)
        /\ \A i \in 1 .. Len(obs) : both[i] = obs[i]
        /\ \A i \in (Len(obs) + 1) .. Len(both) : both[i] = N[i - Len(obs)]
    BY <1>3, <1>8, Concatenated
  <2>2. obs' = both
    BY <1>7
  <2> HIDE DEF both
  <2>3. QED
    BY <1>8, <2>1, <2>2
<1>10. ASSUME NEW i \in DOMAIN obs' \ DOMAIN obs
       PROVE  /\ seen + i - Len(obs) \in DOMAIN commits /\ seen + i - Len(obs) \in (seen + 1) .. n
              /\ obs'[i].ts = commits[seen + i - Len(obs)].ts
              /\ obs'[i].seen = firstSeen /\ obs'[i].prefix = Cover(seen + i - Len(obs))
  <2> DEFINE k == i - Len(obs)
  <2>1. i \in (Len(obs) + 1) .. Len(obs')
    BY <1>9
  <2>2. obs'[i] = N[k]
    BY <1>9, <2>1
  <2>3. k \in 1 .. (n - seen) /\ seen + i - Len(obs) = seen + k
    BY <1>1, <1>9, <2>1
  <2> HIDE DEF k
  <2>4. QED
    BY <1>4, <1>5, <2>2, <2>3
<1>11. \A i \in DOMAIN obs : i \in DOMAIN obs' /\ obs'[i] = obs[i]
  BY <1>1, <1>9
<1>12. QED
  BY <1>9, <1>10, <1>11 DEF R

LEMMA ScanKeepsObservations ==
  ASSUME LagInv, place = "scan", NEW n \in seen .. doc, obs' = obs \o Observed(n),
         UNCHANGED <<clock, world>>, place' # "scan", seen' \in {n, n - 1}, seen' >= seen
  PROVE  /\ ObservationsAreCommits'
         /\ n = seen => obs' = obs
         /\ n > seen => obs' # <<>> /\ obs'[Len(obs')].prefix = Cover(n)
<1> USE DEF LagInv
<1> DEFINE At(i) == seen + i - Len(obs)
<1>1. /\ Len(obs') = Len(obs) + (n - seen) /\ DOMAIN obs' = 1 .. Len(obs')
      /\ \A i \in DOMAIN obs : i \in DOMAIN obs' /\ obs'[i] = obs[i]
      /\ \A i \in DOMAIN obs' \ DOMAIN obs :
           /\ At(i) \in DOMAIN commits /\ At(i) \in (seen + 1) .. n
           /\ obs'[i].ts = commits[At(i)].ts
           /\ obs'[i].seen = firstSeen /\ obs'[i].prefix = Cover(At(i))
  BY ScanAdds
<1>2. /\ seen \in Nat /\ doc \in 0 .. Len(commits) /\ firstSeen \in Nat /\ n \in Nat /\ clock \in Nat
      /\ n <= doc /\ seen <= n /\ firstSeen <= clock
      /\ DOMAIN commits = 1 .. Len(commits) /\ Len(commits) \in Nat
  BY TableBatches DEF LagTypeOK, DocIsTheTable
<1>3. DOMAIN obs = 1 .. Len(obs) /\ Len(obs) \in Nat
      /\ \A i \in DOMAIN obs : obs[i].seen \in Nat /\ obs[i].prefix \in -1 .. NBatches - 1
  BY ObservationsAre
<1>4. commits' = commits /\ \A c \in Nat : Cover(c)' = Cover(c)
  BY SameTable
<1>5. \A c \in DOMAIN commits : c \in Nat /\ Cover(c)' = Cover(c) /\ Cover(c) \in -1 .. NBatches - 1
  BY <1>2, <1>4, CoverIs
<1>6. \A c \in DOMAIN commits : \A e \in DOMAIN commits : e <= c => Cover(e) <= Cover(c)
  BY <1>2, CoverGrows
<1>7. ASSUME NEW i \in DOMAIN obs'
      PROVE  /\ \E c \in DOMAIN commits :
                  /\ obs'[i].ts = commits[c].ts /\ commits[c].at <= obs'[i].seen
                  /\ obs'[i].prefix = Cover(c)
             /\ \A c \in DOMAIN commits : c > seen' => obs'[i].prefix <= Cover(c)
             /\ obs'[i].seen <= clock
  <2>1. CASE i \in DOMAIN obs
    <3>1. obs'[i] = obs[i]
      BY <1>1, <2>1
    <3>2. \A c \in DOMAIN commits : c > seen' => c > seen
      BY <1>2
    <3>3. QED
      BY <2>1, <3>1, <3>2 DEF ObservationsAreCommits
  <2>2. CASE i \notin DOMAIN obs
    <3>1. /\ At(i) \in DOMAIN commits /\ At(i) \in (seen + 1) .. n
          /\ obs'[i].ts = commits[At(i)].ts
          /\ obs'[i].seen = firstSeen /\ obs'[i].prefix = Cover(At(i))
      BY <1>1, <2>2
    <3> HIDE DEF At
    <3>2. commits[At(i)].at <= firstSeen
      BY <1>2, <3>1 DEF DocIsTheTable
    <3>3. ASSUME NEW c \in DOMAIN commits, c > seen' PROVE At(i) <= c
      BY <1>2, <3>1, <3>3
    <3>4. QED
      BY <1>2, <1>6, <3>1, <3>2, <3>3
  <2>3. QED
    BY <2>1, <2>2
<1>8. ASSUME NEW i \in DOMAIN obs', NEW j \in DOMAIN obs', i < j
      PROVE  obs'[i].seen <= obs'[j].seen /\ obs'[i].prefix <= obs'[j].prefix
  <2>1. CASE j \in DOMAIN obs
    <3>1. i \in DOMAIN obs
      BY <1>1, <1>3, <1>8, <2>1
    <3>2. QED
      BY <1>1, <1>8, <2>1, <3>1 DEF ObservationsAreCommits
  <2>2. CASE j \notin DOMAIN obs
    <3>1. /\ At(j) \in DOMAIN commits /\ At(j) \in (seen + 1) .. n
          /\ obs'[j].seen = firstSeen /\ obs'[j].prefix = Cover(At(j))
      BY <1>1, <2>2
    <3>2. CASE i \in DOMAIN obs
      <4>1. obs'[i] = obs[i] /\ At(j) > seen
        BY <1>1, <1>2, <3>1, <3>2
      <4> HIDE DEF At
      <4>2. obs[i].seen <= firstSeen /\ obs[i].prefix <= Cover(At(j))
        BY <3>1, <3>2, <4>1 DEF ObservationsAreCommits
      <4>3. QED
        BY <3>1, <4>1, <4>2
    <3>3. CASE i \notin DOMAIN obs
      <4>1. At(i) \in DOMAIN commits /\ obs'[i].seen = firstSeen /\ obs'[i].prefix = Cover(At(i))
        BY <1>1, <3>3
      <4>2. At(i) <= At(j)
        BY <1>1, <1>2, <1>3, <1>8
      <4> HIDE DEF At
      <4>3. QED
        BY <1>2, <1>6, <3>1, <4>1, <4>2
    <3>4. QED
      BY <3>2, <3>3
  <2>3. QED
    BY <2>1, <2>2
<1>9. ASSUME NEW c \in 1 .. seen'
      PROVE  \E i \in DOMAIN obs' : obs'[i].ts = commits[c].ts /\ obs'[i].prefix = Cover(c)
  <2>1. CASE c <= seen
    <3>1. PICK i \in DOMAIN obs : obs[i].ts = commits[c].ts /\ obs[i].prefix = Cover(c)
      BY <1>2, <2>1 DEF ObservationsAreCommits
    <3>2. QED
      BY <1>1, <3>1
  <2>2. CASE c > seen
    <3> DEFINE i == Len(obs) + c - seen
    <3>1. i \in DOMAIN obs' \ DOMAIN obs /\ At(i) = c
      BY <1>1, <1>2, <1>3, <2>2
    <3> HIDE DEF i, At
    <3>2. obs'[i].ts = commits[At(i)].ts /\ obs'[i].prefix = Cover(At(i))
      BY <1>1, <3>1 DEF At
    <3>3. QED
      BY <3>1, <3>2
  <2>3. QED
    BY <1>2, <2>1, <2>2
<1>10. ObservationsAreCommits'
  <2>1. seen' \in Nat /\ \A c \in 1 .. seen' : c \in DOMAIN commits
    BY <1>2
  <2>2. QED
    <3>1. \A i \in DOMAIN obs' :
            /\ \E c \in DOMAIN commits :
                 /\ obs'[i].ts = commits[c].ts /\ commits[c].at <= obs'[i].seen
                 /\ obs'[i].prefix = Cover(c)'
            /\ \A c \in DOMAIN commits : c > seen' => obs'[i].prefix <= Cover(c)'
            /\ obs'[i].seen <= clock
      BY <1>5, <1>7
    <3>2. \A c \in 1 .. seen' : \E i \in DOMAIN obs' :
            obs'[i].ts = commits[c].ts /\ obs'[i].prefix = Cover(c)'
      BY <1>5, <1>9, <2>1
    <3>3. QED
      BY <1>4, <1>8, <3>1, <3>2 DEF ObservationsAreCommits
<1>11. ASSUME n = seen PROVE obs' = obs
  <2> DEFINE R == [ts : Int, seen : Nat, prefix : -1 .. NBatches - 1]
  <2>1. obs \in Seq(R) /\ obs' \in Seq(R)
    BY ScanAdds DEF LagTypeOK
  <2>2. Len(obs') = Len(obs)
    BY <1>1, <1>2, <1>3, <1>11
  <2>3. \A i \in 1 .. Len(obs) : obs'[i] = obs[i]
    BY <1>1, <1>3
  <2> HIDE DEF R
  <2>4. QED
    BY <2>1, <2>2, <2>3
<1>12. ASSUME n > seen PROVE obs' # <<>> /\ obs'[Len(obs')].prefix = Cover(n)
  <2>1. Len(obs') \in DOMAIN obs' \ DOMAIN obs /\ At(Len(obs')) = n
    BY <1>1, <1>2, <1>3, <1>12
  <2>2. obs'[Len(obs')].prefix = Cover(At(Len(obs')))
    BY <1>1, <2>1
  <2> HIDE DEF At
  <2>3. obs' # <<>>
    BY <2>1
  <2>4. QED
    BY <2>1, <2>2, <2>3
<1>13. QED
  BY <1>10, <1>11, <1>12

(* Polls that were completed stay observed.                                *)
LEMMA PollsStayObserved ==
  ASSUME LagInv, UNCHANGED world,
         \A i \in DOMAIN obs : i \in DOMAIN obs' /\ obs'[i] = obs[i],
         NEW s \in DOMAIN polls, s \in DOMAIN polls', polls'[s] = polls[s]
  PROVE  PollIsObserved(s)'
<1> USE DEF LagInv
<1>1. polls[s].doc \in Nat
  BY PollsAre
<1> DEFINE d == polls[s].doc
<1>2. commits' = commits /\ CommittedBy(d)' = CommittedBy(d) /\ Cover(d)' = Cover(d)
  BY <1>1, SameTable
<1>3. QED
  BY <1>2 DEF PollsAreObserved, PollIsObserved

LEMMA Appended ==
  ASSUME NEW R, NEW s \in Seq(R), NEW e \in R
  PROVE  /\ Append(s, e) \in Seq(R) /\ Len(Append(s, e)) = Len(s) + 1 /\ Len(s) \in Nat
         /\ DOMAIN s = 1 .. Len(s) /\ DOMAIN Append(s, e) = 1 .. (Len(s) + 1)
         /\ \A i \in 1 .. Len(s) : Append(s, e)[i] = s[i]
         /\ Append(s, e)[Len(s) + 1] = e
OBVIOUS

LEMMA TableIsFinite ==
  ASSUME LagTypeOK, NEW A \in SUBSET Batches
  PROVE  IsFiniteSet(A) /\ Cardinality(A) \in Nat
<1>1. IsFiniteSet(Batches)
  BY SetupOK, FS_Interval DEF Batches
<1>2. QED
  BY <1>1, FS_Subset, FS_CardinalityType

LEMMA ScanAllKeeps == ASSUME LagInv, ScanAll PROVE LagInv'
<1> USE DEF LagInv
<1> DEFINE new == [at |-> clock, read |-> firstSeen, doc |-> doc,
                   committed |-> Cardinality(CommittedBy(doc))]
           R == [at : Nat, read : Nat, doc : Nat, committed : Nat]
<1>1. /\ place = "scan" /\ obs' = obs \o Observed(doc) /\ seen' = doc /\ polls' = Append(polls, new)
      /\ place' = "evaluate" /\ doc' = 0 /\ firstSeen' = 0 /\ UNCHANGED <<clock, world, fails, records, endMs>>
  BY DEF ScanAll
<1>2. /\ setup' = setup /\ acked' = acked /\ commits' = commits
      /\ Batches' = Batches /\ NBatches' = NBatches /\ WriterSkew' = WriterSkew
      /\ \A n \in Nat : CommittedBy(n)' = CommittedBy(n) /\ Cover(n)' = Cover(n)
  BY <1>1, SameTable
<1>3. /\ seen \in 0 .. Len(commits) /\ doc \in 0 .. Len(commits) /\ doc \in Nat /\ seen <= doc
      /\ clock \in Nat /\ firstSeen \in Nat /\ firstSeen <= clock /\ doc \in seen .. doc
      /\ Len(commits) \in Nat /\ DOMAIN commits = 1 .. Len(commits)
  BY <1>1, TableBatches DEF LagTypeOK, DocIsTheTable
<1>4. /\ obs' \in Seq([ts : Int, seen : Nat, prefix : -1 .. NBatches - 1])
      /\ \A i \in DOMAIN obs : i \in DOMAIN obs' /\ obs'[i] = obs[i]
      /\ Len(obs') \in Nat /\ DOMAIN obs' = 1 .. Len(obs')
  <2>1. obs' \in Seq([ts : Int, seen : Nat, prefix : -1 .. NBatches - 1])
        /\ \A i \in DOMAIN obs : i \in DOMAIN obs' /\ obs'[i] = obs[i]
    BY <1>1, <1>3, ScanAdds
  <2>2. QED
    BY <2>1
<1>5. /\ ObservationsAreCommits' /\ (doc = seen => obs' = obs)
      /\ doc > seen => obs' # <<>> /\ obs'[Len(obs')].prefix = Cover(doc)
  BY <1>1, <1>3, ScanKeepsObservations
<1>6. UpToDate'
  <2>1. CASE doc = seen
    BY <1>1, <1>2, <1>3, <1>5, <2>1 DEF CatchesUp, UpToDate
  <2>2. CASE doc > seen
    BY <1>1, <1>2, <1>3, <1>5, <2>2 DEF UpToDate
  <2>3. QED
    BY <1>3, <2>1, <2>2
<1>7. /\ polls' \in Seq(R) /\ Len(polls') = Len(polls) + 1 /\ Len(polls) \in Nat
      /\ DOMAIN polls = 1 .. Len(polls) /\ DOMAIN polls' = 1 .. (Len(polls) + 1)
      /\ \A i \in 1 .. Len(polls) : polls'[i] = polls[i]
      /\ polls'[Len(polls) + 1] = new
  <2>1. polls \in Seq(R)
    BY DEF LagTypeOK
  <2>2. new \in R
    <3>1. Cardinality(CommittedBy(doc)) \in Nat
      BY <1>3, TableBatches, TableIsFinite
    <3>2. QED
      BY <1>3, <3>1
  <2> HIDE DEF R, new
  <2>3. QED
    BY <1>1, <2>1, <2>2, Appended
<1>8. PollsAreObserved'
  <2> SUFFICES ASSUME NEW s \in DOMAIN polls' PROVE PollIsObserved(s)'
    BY DEF PollsAreObserved
  <2>1. CASE s \in DOMAIN polls
    BY <1>1, <1>4, <1>7, <2>1, PollsStayObserved
  <2>2. CASE s \notin DOMAIN polls
    <3>1. polls'[s] = new
      BY <1>7, <2>2
    <3>2. polls'[s].at = clock /\ polls'[s].read = firstSeen /\ polls'[s].doc = doc
          /\ polls'[s].committed = Cardinality(CommittedBy(doc))
      BY <3>1
    <3>3. \A c \in 1 .. doc : commits[c].at <= firstSeen
      BY <1>1, <1>3 DEF DocIsTheTable
    <3>4. \/ Cover(doc) = -1
          \/ \E i \in DOMAIN obs' : obs'[i].seen <= firstSeen /\ Cover(doc) <= obs'[i].prefix
      <4>1. CASE obs' = <<>>
        BY <1>2, <1>3, <1>1, <1>6, <4>1, NothingCovered DEF UpToDate
      <4>2. CASE obs' # <<>>
        <5>1. Len(obs') \in DOMAIN obs'
          BY <1>4, <4>2
        <5>2. obs'[Len(obs')].prefix = Cover(doc)
          BY <1>1, <1>2, <1>3, <1>6, <4>2 DEF UpToDate
        <5>3. obs'[Len(obs')].seen <= firstSeen
          <6>1. \A i \in DOMAIN obs' \ DOMAIN obs : obs'[i].seen = firstSeen
            BY <1>1, <1>3, ScanAdds
          <6>2. \A i \in DOMAIN obs : obs'[i] = obs[i] /\ obs[i].seen <= firstSeen
            BY <1>1, <1>4 DEF ObservationsAreCommits
          <6>3. QED
            BY <1>3, <5>1, <6>1, <6>2
        <5>4. Cover(doc) <= obs'[Len(obs')].prefix
          BY <1>3, <5>2, CoverIs
        <5>5. QED
          BY <5>1, <5>3, <5>4
      <4>3. QED
        BY <4>1, <4>2
    <3> HIDE DEF new
    <3>5. QED
      BY <1>2, <1>3, <3>2, <3>3, <3>4 DEF PollIsObserved
  <2>3. QED
    BY <2>1, <2>2
<1>9. LagTypeOK'
  BY <1>1, <1>2, <1>3, <1>4, <1>7 DEF LagTypeOK
<1>10. WorldInOrder' /\ DocIsTheTable'
  BY <1>1, <1>2 DEF WorldInOrder, DocIsTheTable
<1>11. CatchesUp'
  <2>1. polls' # <<>> /\ polls'[Len(polls')].at = clock
    BY <1>7
  <2>2. QED
    BY <1>1, <1>6, <2>1 DEF CatchesUp
<1>12. QED
  BY <1>5, <1>8, <1>9, <1>10, <1>11

LEMMA ScanFailsKeeps == ASSUME LagInv, ScanFails PROVE LagInv'
<1> USE DEF LagInv
<1>1. PICK n \in seen .. doc : /\ obs' = obs \o Observed(n) /\ seen' \in {n, n - 1} /\ seen' >= seen
                               /\ n = doc /\ n > seen => seen' = n - 1
  BY DEF ScanFails
<1>2. /\ place = "scan" /\ place' = "failed" /\ doc' = 0 /\ firstSeen' = 0 /\ fails' = fails + 1
      /\ UNCHANGED <<clock, world, records, polls, endMs>>
  BY DEF ScanFails
<1>3. /\ setup' = setup /\ acked' = acked /\ commits' = commits
      /\ Batches' = Batches /\ NBatches' = NBatches /\ WriterSkew' = WriterSkew
  BY <1>2, SameTable
<1>4. /\ seen \in Nat /\ doc \in 0 .. Len(commits) /\ n \in Nat /\ n <= doc /\ Len(commits) \in Nat
      /\ seen' \in Nat /\ seen' <= Len(commits)
      /\ seen' = Len(commits) => n = seen /\ seen = doc /\ seen' = seen
  <2>1. seen \in Nat /\ doc \in 0 .. Len(commits) /\ Len(commits) \in Nat
    BY TableBatches DEF LagTypeOK
  <2>2. QED
    BY <1>1, <2>1
<1>5. /\ obs' \in Seq([ts : Int, seen : Nat, prefix : -1 .. NBatches - 1])
      /\ \A i \in DOMAIN obs : i \in DOMAIN obs' /\ obs'[i] = obs[i]
  BY <1>1, <1>2, ScanAdds
<1>6. ObservationsAreCommits'
  BY <1>1, <1>2, ScanKeepsObservations
<1>7. PollsAreObserved'
  <2> SUFFICES ASSUME NEW s \in DOMAIN polls' PROVE PollIsObserved(s)'
    BY DEF PollsAreObserved
  <2>1. QED
    BY <1>2, <1>5, PollsStayObserved
<1>8. LagTypeOK'
  BY <1>2, <1>3, <1>4, <1>5 DEF LagTypeOK
<1>9. WorldInOrder' /\ DocIsTheTable'
  BY <1>2, <1>3 DEF WorldInOrder, DocIsTheTable
<1>10. CatchesUp'
  <2>1. SUFFICES ASSUME seen' = Len(commits) PROVE UpToDate'
    BY <1>2, <1>3 DEF CatchesUp
  <2>2. n = seen /\ seen = doc /\ seen' = seen
    BY <1>4, <2>1
  <2>3. obs' = obs
    BY <1>1, <1>2, <2>2, ScanKeepsObservations
  <2>4. UpToDate /\ Cover(seen)' = Cover(seen)
    BY <1>2, <1>4, <2>2, SameTable DEF CatchesUp
  <2>5. QED
    BY <2>2, <2>3, <2>4 DEF UpToDate
<1>11. QED
  BY <1>6, <1>7, <1>8, <1>9, <1>10

LEMMA LagStep == ASSUME LagInv, [LagNext]_lagVars PROVE LagInv'
BY TimePassesKeeps, ReadInputsKeeps, ScanAllKeeps, ScanFailsKeeps, EndsKeep, LagStutters DEF LagNext

(* What was committed, observed and sampled keeps its order.               *)
THEOREM LagInductive == LagSpec => []LagInv
<1>1. LagInv /\ [LagNext]_lagVars => LagInv'
  BY LagStep
<1>2. QED
  BY <1>1, LagBegins, PTL DEF LagSpec

-----------------------------------------------------------------------------
(* The series against the table.                                           *)
LEMMA TrulyCovered ==
  ASSUME LagInv, NEW t \in Int
  PROVE  /\ TrueCoverage(t) \in -1 .. NBatches - 1
         /\ \A c \in DOMAIN commits : commits[c].at <= t => Cover(c) <= TrueCoverage(t)
         /\ \A c \in DOMAIN commits : commits[c].at <= t =>
              CommittedBy(c) \subseteq UNION {commits[i].batches : i \in {j \in DOMAIN commits : commits[j].at <= t}}
<1> USE DEF LagInv
<1> DEFINE B == UNION {commits[i].batches : i \in {j \in DOMAIN commits : commits[j].at <= t}}
<1>1. /\ DOMAIN commits = 1 .. Len(commits) /\ Len(commits) \in Nat
      /\ \A c \in DOMAIN commits : c \in Nat /\ commits[c].at \in Nat /\ commits[c].batches \subseteq Batches
  BY TableBatches
<1>2. B \in SUBSET Batches
  BY <1>1
<1>3. ASSUME NEW c \in DOMAIN commits, commits[c].at <= t PROVE CommittedBy(c) \subseteq B
  <2>1. ASSUME NEW e \in 1 .. c PROVE e \in DOMAIN commits /\ commits[e].at <= t
    <3>1. e \in DOMAIN commits /\ (e < c \/ e = c)
      BY <1>1
    <3>2. commits[e].at <= commits[c].at
      BY <1>1, <3>1 DEF WorldInOrder
    <3>3. QED
      BY <1>1, <1>3, <3>1, <3>2
  <2>2. QED
    BY <2>1 DEF CommittedBy
<1> HIDE DEF B
<1>4. TrueCoverage(t) = PrefixOf(B)
  BY DEF TrueCoverage, B
<1>5. TrueCoverage(t) \in -1 .. NBatches - 1
  BY <1>2, <1>4, SetupOK, PrefixIs
<1>6. \A c \in DOMAIN commits : commits[c].at <= t => Cover(c) <= TrueCoverage(t)
  BY <1>2, <1>3, <1>4, SetupOK, PrefixGrows DEF Cover
<1>7. QED
  BY <1>3, <1>5, <1>6 DEF B

Clocks == {"timestamp_ms", "first_seen_ms"}

LEMMA LatestIs ==
  ASSUME LagTypeOK, NEW which \in Clocks, NEW t \in Int, VisibleAt(obs, which, t) # {}
  PROVE  LET visible == VisibleAt(obs, which, t)
             last    == LatestOf(obs, which, visible)
         IN  /\ last \in visible /\ visible \subseteq DOMAIN obs
             /\ \A j \in visible \ {last} :
                  \/ ClockOf(obs[j], which) < ClockOf(obs[last], which)
                  \/ ClockOf(obs[j], which) = ClockOf(obs[last], which) /\ j < last
<1> DEFINE V == VisibleAt(obs, which, t)
           C(i) == ClockOf(obs[i], which)
           Times == {C(i) : i \in V}
<1>1. DOMAIN obs = 1 .. Len(obs) /\ Len(obs) \in Nat /\ V \subseteq DOMAIN obs
  BY ObservationsAre DEF VisibleAt
<1>2. \A i \in V : C(i) \in Int /\ C(i) <= t /\ i \in Int /\ i <= Len(obs)
  BY <1>1, ObservationsAre DEF VisibleAt, ClockOf
<1> HIDE DEF V, C
<1>3. Times \in SUBSET Int /\ Times # {} /\ \A v \in Times : v <= t
  BY <1>2 DEF V
<1> HIDE DEF Times
<1>4. PICK v \in Times : \A w \in Times : w <= v
  BY <1>3, GreatestNumber
<1> DEFINE L == {i \in V : C(i) = v}
<1>5. L \in SUBSET Int /\ L # {} /\ \A i \in L : i <= Len(obs)
  BY <1>2, <1>4 DEF Times
<1>6. Len(obs) \in Int
  BY <1>1
<1> HIDE DEF L
<1>7. PICK m \in L : \A k \in L : k <= m
  BY <1>5, <1>6, GreatestNumber
<1>8. ASSUME NEW j \in V \ {m} PROVE C(j) < C(m) \/ (C(j) = C(m) /\ j < m)
  <2>1. C(j) \in Times
    BY DEF Times
  <2>2. C(j) <= v /\ C(m) = v /\ m \in V /\ v \in Int /\ C(j) \in Int /\ j \in Int /\ m \in Int
    BY <1>2, <1>3, <1>4, <1>7, <2>1 DEF L
  <2>3. CASE C(j) = v
    <3>1. j \in L
      BY <2>3 DEF L
    <3>2. QED
      BY <1>7, <2>2, <2>3, <3>1
  <2>4. QED
    BY <2>2, <2>3
<1>9. m \in V
  BY <1>7 DEF L
<1>10. \E i \in V : \A j \in V \ {i} : C(j) < C(i) \/ (C(j) = C(i) /\ j < i)
  BY <1>8, <1>9
<1>11. LatestOf(obs, which, V) = CHOOSE i \in V : \A j \in V \ {i} : C(j) < C(i) \/ (C(j) = C(i) /\ j < i)
  BY DEF LatestOf, C
<1>12. LatestOf(obs, which, V) \in V /\ \A j \in V \ {LatestOf(obs, which, V)} :
          C(j) < C(LatestOf(obs, which, V)) \/ (C(j) = C(LatestOf(obs, which, V)) /\ j < LatestOf(obs, which, V))
  BY <1>10, <1>11
<1>13. QED
  BY <1>1, <1>12 DEF V, C

(* What a series samples at an instant.                                    *)
LEMMA SampledIs ==
  ASSUME LagTypeOK, NEW which \in Clocks, NEW t \in Int
  PROVE  \/ VisibleAt(obs, which, t) = {} /\ SampledPrefix(obs, which, t) = -1
         \/ \E last \in DOMAIN obs :
              /\ SampledPrefix(obs, which, t) = obs[last].prefix /\ ClockOf(obs[last], which) <= t
              /\ \A j \in DOMAIN obs \ {last} : ClockOf(obs[j], which) <= t =>
                   \/ ClockOf(obs[j], which) < ClockOf(obs[last], which)
                   \/ ClockOf(obs[j], which) = ClockOf(obs[last], which) /\ j < last
<1> DEFINE V == VisibleAt(obs, which, t)
           l == LatestOf(obs, which, V)
<1>1. CASE V = {}
  BY <1>1 DEF SampledPrefix
<1>2. CASE V # {}
  <2>1. /\ l \in V /\ V \subseteq DOMAIN obs
        /\ \A j \in V \ {l} :
             \/ ClockOf(obs[j], which) < ClockOf(obs[l], which)
             \/ ClockOf(obs[j], which) = ClockOf(obs[l], which) /\ j < l
    BY <1>2, LatestIs
  <2>2. SampledPrefix(obs, which, t) = obs[l].prefix
    BY <1>2 DEF SampledPrefix
  <2>3. ClockOf(obs[l], which) <= t
    BY <2>1 DEF VisibleAt
  <2>4. \A j \in DOMAIN obs : ClockOf(obs[j], which) <= t => j \in V
    BY DEF VisibleAt
  <2> HIDE DEF l, V
  <2>5. QED
    BY <2>1, <2>2, <2>3, <2>4
<1>3. QED
  BY <1>1, <1>2

LEMMA SampledIsPrefix ==
  ASSUME LagTypeOK, NEW which \in Clocks, NEW t \in Int
  PROVE  SampledPrefix(obs, which, t) \in -1 .. NBatches - 1
<1>1. NBatches \in Nat \ {0} /\ -1 \in -1 .. NBatches - 1
  BY SetupOK
<1>2. \A i \in DOMAIN obs : obs[i].prefix \in -1 .. NBatches - 1
  BY ObservationsAre
<1>3. SampledPrefix(obs, which, t) = -1
        \/ \E i \in DOMAIN obs : SampledPrefix(obs, which, t) = obs[i].prefix
  BY SampledIs
<1>4. QED
  BY ONLY <1>1, <1>2, <1>3

(* On either clock, what is sampled is no less recent than what is visible.*)
LEMMA SampledFirstSeen ==
  ASSUME LagTypeOK, NEW t \in Int
  PROVE  LET p == SampledPrefix(obs, "first_seen_ms", t) IN
         \/ p = -1 /\ \A i \in DOMAIN obs : ~(obs[i].seen <= t)
         \/ \E l \in DOMAIN obs :
              /\ p = obs[l].prefix /\ obs[l].seen <= t
              /\ \A j \in DOMAIN obs \ {l} : obs[j].seen <= t =>
                   obs[j].seen < obs[l].seen \/ (obs[j].seen = obs[l].seen /\ j < l)
<1> DEFINE w == "first_seen_ms"
<1>1. w \in Clocks
  BY DEF Clocks
<1>2. \A i \in DOMAIN obs : ClockOf(obs[i], w) = obs[i].seen
  BY DEF ClockOf
<1>3. VisibleAt(obs, w, t) = {} => \A i \in DOMAIN obs : ~(obs[i].seen <= t)
  BY <1>2 DEF VisibleAt
<1> HIDE DEF w
<1>4. \/ VisibleAt(obs, w, t) = {} /\ SampledPrefix(obs, w, t) = -1
      \/ \E last \in DOMAIN obs :
           /\ SampledPrefix(obs, w, t) = obs[last].prefix /\ ClockOf(obs[last], w) <= t
           /\ \A j \in DOMAIN obs \ {last} : ClockOf(obs[j], w) <= t =>
                \/ ClockOf(obs[j], w) < ClockOf(obs[last], w)
                \/ ClockOf(obs[j], w) = ClockOf(obs[last], w) /\ j < last
  BY <1>1, SampledIs
<1>5. CASE VisibleAt(obs, w, t) = {} /\ SampledPrefix(obs, w, t) = -1
  BY <1>3, <1>5 DEF w
<1>6. ASSUME NEW l \in DOMAIN obs, SampledPrefix(obs, w, t) = obs[l].prefix, ClockOf(obs[l], w) <= t,
             \A j \in DOMAIN obs \ {l} : ClockOf(obs[j], w) <= t =>
                \/ ClockOf(obs[j], w) < ClockOf(obs[l], w)
                \/ ClockOf(obs[j], w) = ClockOf(obs[l], w) /\ j < l
      PROVE  /\ SampledPrefix(obs, w, t) = obs[l].prefix /\ obs[l].seen <= t
             /\ \A j \in DOMAIN obs \ {l} : obs[j].seen <= t =>
                   obs[j].seen < obs[l].seen \/ (obs[j].seen = obs[l].seen /\ j < l)
  BY <1>2, <1>6
<1>7. QED
  BY <1>4, <1>5, <1>6 DEF w

LEMMA SampledStamped ==
  ASSUME LagTypeOK, NEW t \in Int
  PROVE  LET p == SampledPrefix(obs, "timestamp_ms", t) IN
         \/ p = -1 /\ \A i \in DOMAIN obs : ~(obs[i].ts <= t)
         \/ \E l \in DOMAIN obs :
              /\ p = obs[l].prefix /\ obs[l].ts <= t
              /\ \A j \in DOMAIN obs \ {l} : obs[j].ts <= t =>
                   obs[j].ts < obs[l].ts \/ (obs[j].ts = obs[l].ts /\ j < l)
<1> DEFINE w == "timestamp_ms"
<1>1. w \in Clocks
  BY DEF Clocks
<1>2. \A i \in DOMAIN obs : ClockOf(obs[i], w) = obs[i].ts
  BY DEF ClockOf
<1>3. VisibleAt(obs, w, t) = {} => \A i \in DOMAIN obs : ~(obs[i].ts <= t)
  BY <1>2 DEF VisibleAt
<1> HIDE DEF w
<1>4. \/ VisibleAt(obs, w, t) = {} /\ SampledPrefix(obs, w, t) = -1
      \/ \E last \in DOMAIN obs :
           /\ SampledPrefix(obs, w, t) = obs[last].prefix /\ ClockOf(obs[last], w) <= t
           /\ \A j \in DOMAIN obs \ {last} : ClockOf(obs[j], w) <= t =>
                \/ ClockOf(obs[j], w) < ClockOf(obs[last], w)
                \/ ClockOf(obs[j], w) = ClockOf(obs[last], w) /\ j < last
  BY <1>1, SampledIs
<1>5. CASE VisibleAt(obs, w, t) = {} /\ SampledPrefix(obs, w, t) = -1
  BY <1>3, <1>5 DEF w
<1>6. ASSUME NEW l \in DOMAIN obs, SampledPrefix(obs, w, t) = obs[l].prefix, ClockOf(obs[l], w) <= t,
             \A j \in DOMAIN obs \ {l} : ClockOf(obs[j], w) <= t =>
                \/ ClockOf(obs[j], w) < ClockOf(obs[l], w)
                \/ ClockOf(obs[j], w) = ClockOf(obs[l], w) /\ j < l
      PROVE  /\ SampledPrefix(obs, w, t) = obs[l].prefix /\ obs[l].ts <= t
             /\ \A j \in DOMAIN obs \ {l} : obs[j].ts <= t =>
                   obs[j].ts < obs[l].ts \/ (obs[j].ts = obs[l].ts /\ j < l)
  BY <1>2, <1>6
<1>7. QED
  BY <1>4, <1>5, <1>6 DEF w

(* FirstSeenIsConservative.                                                *)
LEMMA FirstSeenConserves == ASSUME LagInv PROVE FirstSeenIsConservative
<1> USE DEF LagInv
<1> SUFFICES ASSUME NEW t \in GridPoints(endMs), Over
             PROVE  LET sampled == SampledPrefix(obs, "first_seen_ms", t) IN
                      /\ sampled <= TrueCoverage(t)
                      /\ \A i \in DOMAIN polls : polls[i].read <= t => Cover(polls[i].doc) <= sampled
  BY DEF FirstSeenIsConservative
<1>1. t \in Int
  BY DEF GridPoints, Over, LagTypeOK
<1> DEFINE p == SampledPrefix(obs, "first_seen_ms", t)
<1>2. /\ DOMAIN obs = 1 .. Len(obs)
      /\ \A i \in DOMAIN obs : /\ ClockOf(obs[i], "first_seen_ms") = obs[i].seen
                               /\ obs[i].seen \in Nat /\ obs[i].prefix \in Int /\ i \in Nat
  BY ObservationsAre, SetupOK DEF ClockOf
<1>3. \/ (\A i \in DOMAIN obs : ~(obs[i].seen <= t)) /\ p = -1
      \/ \E l \in DOMAIN obs : /\ p = obs[l].prefix /\ obs[l].seen <= t
                               /\ \A j \in DOMAIN obs \ {l} : obs[j].seen <= t =>
                                    obs[j].seen < obs[l].seen \/ (obs[j].seen = obs[l].seen /\ j < l)
  BY <1>1, SampledFirstSeen
<1>4. p \in Int /\ p >= -1
  BY <1>1, SampledIsPrefix, SetupOK DEF Clocks
<1>5. TrueCoverage(t) \in Int /\ TrueCoverage(t) >= -1
  BY <1>1, TrulyCovered, SetupOK
<1> HIDE DEF p
<1>6. p <= TrueCoverage(t)
  <2>1. CASE p = -1
    BY <1>5, <2>1
  <2>2. CASE p # -1
    <3>1. PICK l \in DOMAIN obs : p = obs[l].prefix /\ obs[l].seen <= t
      BY <1>3, <2>2
    <3>2. PICK c \in DOMAIN commits : commits[c].at <= obs[l].seen /\ p = Cover(c)
      BY <3>1 DEF ObservationsAreCommits
    <3>3. commits[c].at <= t
      BY <1>1, <1>2, <3>1, <3>2, TableBatches
    <3>4. QED
      BY <1>1, <3>2, <3>3, TrulyCovered
  <2>3. QED
    BY <2>1, <2>2
<1>7. ASSUME NEW i \in DOMAIN polls, polls[i].read <= t PROVE Cover(polls[i].doc) <= p
  <2>1. CASE Cover(polls[i].doc) = -1
    BY <1>4, <2>1
  <2>2. CASE Cover(polls[i].doc) # -1
    <3>1. PICK o \in DOMAIN obs : obs[o].seen <= polls[i].read /\ Cover(polls[i].doc) <= obs[o].prefix
      BY <2>2 DEF PollsAreObserved, PollIsObserved
    <3>2. obs[o].seen <= t
      BY <1>1, <1>2, <1>7, <3>1, PollsAre
    <3>3. PICK l \in DOMAIN obs : /\ p = obs[l].prefix
                                  /\ o # l => obs[o].seen < obs[l].seen \/ (obs[o].seen = obs[l].seen /\ o < l)
      BY <1>3, <3>2
    <3>4. o = l \/ o < l
      <4>1. l < o => obs[l].seen <= obs[o].seen
        BY DEF ObservationsAreCommits
      <4>2. l \in Nat /\ o \in Nat /\ obs[l].seen \in Nat /\ obs[o].seen \in Nat
        BY <1>2
      <4>3. QED
        BY <3>3, <4>1, <4>2
    <3>5. obs[o].prefix <= p
      <4>1. o < l => obs[o].prefix <= obs[l].prefix
        BY DEF ObservationsAreCommits
      <4>2. QED
        BY <1>2, <3>3, <3>4, <4>1
    <3>6. Cover(polls[i].doc) \in Int
      BY CoverIs, SetupOK DEF PollsAreObserved, PollIsObserved
    <3>7. QED
      BY <1>2, <1>4, <3>1, <3>5, <3>6
  <2>3. QED
    BY <2>1, <2>2
<1>8. QED
  BY <1>6, <1>7 DEF p

(* TimestampWithinSkew.                                                    *)
LEMMA CommitsAre ==
  ASSUME LagInv, NEW c \in DOMAIN commits
  PROVE  /\ c \in 1 .. Len(commits) /\ commits[c].at \in Nat /\ commits[c].ts \in Int
         /\ WriterSkew \in Nat /\ Cover(c) \in Int
         /\ commits[c].at <= commits[c].ts + WriterSkew /\ commits[c].ts <= commits[c].at + WriterSkew
<1> USE DEF LagInv
<1>1. c \in 1 .. Len(commits) /\ commits[c].at \in Nat /\ commits[c].ts \in Int /\ Len(commits) \in Nat
  BY TableBatches
<1>2. WriterSkew \in Nat /\ Cover(c) \in Int
  BY <1>1, CoverIs, SetupOK
<1>3. commits[c].at - WriterSkew <= commits[c].ts /\ commits[c].ts <= commits[c].at + WriterSkew
  BY DEF WorldInOrder
<1>4. QED
  BY <1>1, <1>2, <1>3

LEMMA TimestampConserves == ASSUME LagInv PROVE TimestampWithinSkew
<1> USE DEF LagInv
<1> SUFFICES ASSUME NEW t \in GridPoints(endMs), Over
             PROVE  LET sampled == SampledPrefix(obs, "timestamp_ms", t) IN
                      /\ sampled <= TrueCoverage(t + WriterSkew)
                      /\ \A c \in 1 .. seen :
                           /\ commits[c].at + WriterSkew <= t
                           /\ \A e \in 1 .. c - 1 : commits[e].at + 2 * WriterSkew <= commits[c].at
                           => Cover(c) <= sampled
  BY DEF TimestampWithinSkew
<1>1. t \in Int /\ WriterSkew \in Nat /\ t + WriterSkew \in Int
  BY SetupOK DEF GridPoints, Over, LagTypeOK
<1> DEFINE p == SampledPrefix(obs, "timestamp_ms", t)
<1>2. /\ DOMAIN obs = 1 .. Len(obs) /\ Len(obs) \in Nat
      /\ \A i \in DOMAIN obs : obs[i].ts \in Int /\ obs[i].prefix \in Int /\ i \in Nat
  BY ObservationsAre, SetupOK
<1>3. \/ p = -1 /\ \A i \in DOMAIN obs : ~(obs[i].ts <= t)
      \/ \E l \in DOMAIN obs :
           /\ p = obs[l].prefix /\ obs[l].ts <= t
           /\ \A j \in DOMAIN obs \ {l} : obs[j].ts <= t =>
                obs[j].ts < obs[l].ts \/ (obs[j].ts = obs[l].ts /\ j < l)
  BY <1>1, SampledStamped
<1>4. TrueCoverage(t + WriterSkew) \in Int /\ TrueCoverage(t + WriterSkew) >= -1
  BY <1>1, TrulyCovered, SetupOK
<1> HIDE DEF p
<1>5. p <= TrueCoverage(t + WriterSkew)
  <2>1. CASE p = -1
    BY <1>4, <2>1
  <2>2. CASE p # -1
    <3>1. PICK l \in DOMAIN obs : p = obs[l].prefix /\ obs[l].ts <= t
      BY <1>3, <2>2
    <3>2. PICK c \in DOMAIN commits : obs[l].ts = commits[c].ts /\ obs[l].prefix = Cover(c)
      BY DEF ObservationsAreCommits
    <3>3. commits[c].at <= t + WriterSkew
      BY <1>1, <3>1, <3>2, CommitsAre
    <3>4. QED
      BY <1>1, <3>1, <3>2, <3>3, TrulyCovered
  <2>3. QED
    BY <2>1, <2>2
<1>6. ASSUME NEW c \in 1 .. seen, commits[c].at + WriterSkew <= t,
             \A e \in 1 .. c - 1 : commits[e].at + 2 * WriterSkew <= commits[c].at
      PROVE  Cover(c) <= p
  <2>1. PICK i \in DOMAIN obs : obs[i].ts = commits[c].ts /\ obs[i].prefix = Cover(c)
    BY DEF ObservationsAreCommits
  <2>2. c \in DOMAIN commits
    BY TableBatches DEF LagTypeOK
  <2>3. obs[i].ts <= t
    BY <1>1, <1>6, <2>1, <2>2, CommitsAre
  <2>4. PICK l \in DOMAIN obs :
          /\ p = obs[l].prefix
          /\ l # i => obs[i].ts < obs[l].ts \/ (obs[i].ts = obs[l].ts /\ i < l)
    BY <1>3, <2>3
  <2>5. PICK e \in DOMAIN commits : obs[l].ts = commits[e].ts /\ obs[l].prefix = Cover(e)
    BY DEF ObservationsAreCommits
  <2>6. CASE c <= e
    <3>1. e \in 0 .. Len(commits) /\ c \in 0 .. e
      BY <2>2, <2>6, CommitsAre, TableBatches
    <3>2. QED
      BY <2>4, <2>5, <3>1, CoverGrows
  <2>7. CASE e < c
    <3>1. commits[e].at + 2 * WriterSkew <= commits[c].at
      BY <1>6, <2>2, <2>7, CommitsAre
    <3>2. /\ commits[e].ts <= commits[e].at + WriterSkew /\ commits[c].at <= commits[c].ts + WriterSkew
          /\ commits[e].ts \in Int /\ commits[c].ts \in Int /\ commits[e].at \in Int /\ commits[c].at \in Int
      BY <2>2, CommitsAre
    <3>3. obs[l].ts <= obs[i].ts
      BY <1>1, <2>1, <2>5, <3>1, <3>2
    <3>4. l = i \/ i < l
      BY <1>2, <2>4, <3>3
    <3>5. i < l => obs[i].prefix <= obs[l].prefix
      BY DEF ObservationsAreCommits
    <3>6. QED
      BY <1>2, <2>1, <2>4, <3>4, <3>5
  <2>8. QED
    BY <2>2, <2>6, <2>7, CommitsAre
<1>7. QED
  BY <1>5, <1>6 DEF p

-----------------------------------------------------------------------------
(* The lags.                                                               *)
LEMMA EmitIs ==
  ASSUME LagInv, NEW b \in Int
  PROVE  \/ Emit(b) = NoTime
         \/ b \in records /\ Emit(b) = acked[b] /\ acked[b] \in Nat /\ b <= acked[b]
<1> USE DEF LagInv
<1>1. b \in records => b \in Batches /\ acked[b] # NoTime
  BY DEF LagTypeOK, WorldInOrder
<1>2. \A a \in Batches : acked[a] \in Nat \/ acked[a] = NoTime
  BY DEF LagTypeOK
<1>3. \A a \in Batches : acked[a] # NoTime => a <= acked[a]
  BY DEF WorldInOrder
<1>4. QED
  BY <1>1, <1>2, <1>3 DEF Emit

LEMMA LagOfIs ==
  ASSUME LagInv, NEW t \in Int, NEW p \in -1 .. NBatches - 1
  PROVE  \/ p = -1 /\ LagOf(t, p) = t
         \/ p >= 0 /\ LagOf(t, p) = NoTime /\ Emit(p) = NoTime
         \/ /\ p >= 0 /\ p \in records /\ Emit(p) = acked[p] /\ acked[p] \in Nat
            /\ LagOf(t, p) = t - acked[p]
<1> USE DEF LagInv
<1>1. NBatches \in Nat /\ NoTime \notin Int
  BY SetupOK
<1>2. p \in Int /\ (p = -1 \/ p >= 0)
  BY <1>1
<1>3. CASE p = -1
  BY <1>1, <1>3 DEF LagOf, Reference
<1>4. CASE p >= 0 /\ Emit(p) = NoTime
  BY <1>4 DEF LagOf, Reference
<1>5. CASE p >= 0 /\ Emit(p) # NoTime
  BY <1>2, <1>5, EmitIs DEF LagOf, Reference
<1>6. QED
  BY <1>2, <1>3, <1>4, <1>5

(* A series has a prefix and a lag at every grid point.                    *)
LEMMA SeriesIs ==
  ASSUME LagInv, NEW which \in Clocks, Over
  PROVE  /\ endMs \in Nat /\ GridPoints(endMs) \subseteq 0 .. endMs /\ endMs \in GridPoints(endMs)
         /\ DOMAIN LagSeries(which, endMs) = GridPoints(endMs)
         /\ \A t \in GridPoints(endMs) :
              /\ LagSeries(which, endMs)[t].prefix = SampledPrefix(obs, which, t)
              /\ LagSeries(which, endMs)[t].lag = LagOf(t, SampledPrefix(obs, which, t))
<1> USE DEF LagInv
<1>1. endMs \in Nat
  BY DEF Over, LagTypeOK
<1>2. GridPoints(endMs) \subseteq 0 .. endMs /\ endMs \in GridPoints(endMs)
  BY <1>1 DEF GridPoints
<1>3. QED
  BY <1>1, <1>2 DEF LagSeries

(* UnsuspectedLagIsNotNegative.                                            *)
LEMMA UnsuspectedConserves == ASSUME LagInv PROVE UnsuspectedLagIsNotNegative
<1> USE DEF LagInv
<1> SUFFICES ASSUME Over, ~ClockSkewSuspected, NEW t \in DOMAIN LagSeries("timestamp_ms", endMs)
             PROVE  \/ LagSeries("timestamp_ms", endMs)[t].lag = NoTime
                    \/ LagSeries("timestamp_ms", endMs)[t].lag >= 0
  BY DEF UnsuspectedLagIsNotNegative
<1> DEFINE p == SampledPrefix(obs, "timestamp_ms", t)
<1>1. t \in Nat /\ LagSeries("timestamp_ms", endMs)[t].lag = LagOf(t, p)
  BY SeriesIs DEF Clocks
<1>2. p \in -1 .. NBatches - 1
  BY <1>1, SampledIsPrefix DEF Clocks
<1>3. p = -1 \/ \E l \in DOMAIN obs : p = obs[l].prefix /\ obs[l].ts <= t
  BY <1>1, SampledStamped
<1> HIDE DEF p
<1>4. CASE p = -1
  <2>1. LagOf(t, p) = t
    BY <1>1, <1>2, <1>4, LagOfIs
  <2>2. QED
    BY <1>1, <2>1
<1>5. CASE p # -1 /\ LagOf(t, p) # NoTime
  <2>1. p >= 0 /\ Emit(p) = acked[p] /\ acked[p] \in Nat /\ LagOf(t, p) = t - acked[p]
    BY <1>1, <1>2, <1>5, LagOfIs
  <2>2. PICK l \in DOMAIN obs : p = obs[l].prefix /\ obs[l].ts <= t
    BY <1>3, <1>5
  <2>3. Emit(p) # NoTime /\ obs[l].ts \in Int
    BY <2>1, SetupOK, ObservationsAre
  <2>4. obs[l].ts - Emit(obs[l].prefix) \in ObservationLags
    BY <2>1, <2>2, <2>3 DEF ObservationLags
  <2>5. ~(obs[l].ts - Emit(p) < 0)
    BY <2>2, <2>4 DEF ClockSkewSuspected
  <2>6. QED
    BY <1>1, <2>1, <2>2, <2>3, <2>5
<1>6. QED
  BY <1>1, <1>4, <1>5

(* A bounded series has a value of every rank, and its largest value is    *)
(* the last.                                                               *)
LEMMA RankedIs ==
  ASSUME NEW D, IsFiniteSet(D), NEW series, DOMAIN series = D,
         NEW low \in Int, NEW high \in Int,
         \A t \in D : series[t].lag \in Int /\ low <= series[t].lag /\ series[t].lag <= high,
         NEW k \in Nat, k < Cardinality(D)
  PROVE  /\ Ranked(series, k) \in Int
         /\ k = Cardinality(D) - 1 => \A t \in D : series[t].lag <= Ranked(series, k)
<1> DEFINE L == {series[t].lag : t \in DOMAIN series}
           AtMost(v) == {t \in DOMAIN series : series[t].lag <= v}
           Below(v)  == {t \in DOMAIN series : series[t].lag < v}
           S == {v \in L : k < Cardinality(AtMost(v))}
           N == {v - low : v \in S}
<1>1. L \subseteq Int /\ (\A v \in L : low <= v /\ v <= high) /\ \A t \in D : series[t].lag \in L
  OBVIOUS
<1>2. D # {} /\ Cardinality(D) \in Nat
  BY FS_CardinalityType, FS_EmptySet
<1>3. \A v : AtMost(v) \in SUBSET D /\ Below(v) \in SUBSET D
  OBVIOUS
<1>4. \A A \in SUBSET D : /\ IsFiniteSet(A) /\ Cardinality(A) \in Nat /\ Cardinality(A) <= Cardinality(D)
                          /\ Cardinality(A) = Cardinality(D) => A = D
  BY FS_Subset, FS_CardinalityType
<1>5. \A t \in D, v \in Int : (t \in AtMost(v) <=> series[t].lag <= v) /\ (t \in Below(v) <=> series[t].lag < v)
  OBVIOUS
<1>6. Ranked(series, k) = CHOOSE v \in L : Cardinality(Below(v)) <= k /\ k < Cardinality(AtMost(v))
  BY DEF Ranked
<1>7. L # {}
  BY <1>1, <1>2
<1> HIDE DEF L, AtMost, Below
<1>8. PICK top \in L : \A v \in L : v <= top
  BY <1>1, <1>7, GreatestNumber
<1>9. AtMost(top) = D
  BY <1>1, <1>3, <1>5, <1>8
<1>10. top \in S
  BY <1>8, <1>9 DEF S
<1>11. N \in SUBSET Nat /\ N # {}
  BY <1>1, <1>10 DEF S
<1> HIDE DEF N
<1>12. PICK n \in N : \A m \in N : n <= m
  BY <1>11, LeastNumber
<1>13. PICK v \in S : n = v - low
  BY <1>12 DEF N
<1>14. ASSUME NEW u \in S PROVE v <= u
  <2>1. u - low \in N
    BY DEF N
  <2>2. v - low <= u - low /\ u \in Int /\ v \in Int
    BY <1>1, <1>12, <1>13, <2>1 DEF S
  <2>3. QED
    BY <2>2
<1>15. Cardinality(Below(v)) <= k
  <2> DEFINE M == {u \in L : u < v}
  <2>1. CASE M = {}
    <3>1. Below(v) = {}
      BY <1>1, <1>3, <1>5, <1>13, <2>1 DEF S
    <3>2. QED
      BY <3>1, FS_EmptySet
  <2>2. CASE M # {}
    <3>1. M \in SUBSET Int /\ (\A u \in M : u <= high)
      BY <1>1
    <3> HIDE DEF M
    <3>2. PICK u \in M : \A w \in M : w <= u
      BY <2>2, <3>1, GreatestNumber
    <3>3. u \in L /\ u < v /\ u \in Int /\ v \in Int /\ v \in L
      BY <1>1, <1>13, <3>2 DEF M, S
    <3>4. ASSUME NEW t \in D PROVE t \in Below(v) <=> t \in AtMost(u)
      <4>1. series[t].lag < v => series[t].lag <= u
        BY <1>1, <3>2 DEF M
      <4>2. QED
        BY <1>1, <1>5, <3>3, <4>1
    <3>5. Below(v) = AtMost(u)
      BY <1>3, <3>4
    <3>6. u \notin S
      BY <1>14, <3>3
    <3>7. ~(k < Cardinality(AtMost(u)))
      BY <3>3, <3>6 DEF S
    <3>8. QED
      BY <1>3, <1>4, <3>5, <3>7
  <2>3. QED
    BY <2>1, <2>2
<1>16. v \in L /\ k < Cardinality(AtMost(v))
  BY <1>13 DEF S
<1> HIDE DEF S
<1> DEFINE r == Ranked(series, k)
<1>17. r \in L /\ k < Cardinality(AtMost(r))
  BY <1>6, <1>15, <1>16
<1> HIDE DEF r
<1>18. ASSUME k = Cardinality(D) - 1 PROVE \A t \in D : series[t].lag <= r
  <2>1. AtMost(r) = D
    BY <1>2, <1>3, <1>4, <1>17, <1>18
  <2>2. QED
    BY <1>1, <1>5, <1>17, <2>1
<1>19. QED
  BY <1>1, <1>17, <1>18 DEF r

-----------------------------------------------------------------------------
(* The keep-up figures.                                                    *)
LEMMA OfferEndIs == ASSUME LagInv, OfferEnded PROVE OfferEndMs \in Nat
<1> USE DEF LagInv
<1> DEFINE A == {acked[b] : b \in Batches}
<1>1. ASSUME NEW b \in Batches PROVE acked[b] \in Nat /\ acked[b] <= clock
  BY <1>1 DEF OfferEnded, WorldInOrder, LagTypeOK
<1>2. 0 \in Batches /\ clock \in Nat
  BY SetupOK DEF Batches, LagTypeOK
<1>3. A \in SUBSET Int /\ A # {} /\ (\A a \in A : a <= clock /\ a \in Nat)
  BY <1>1, <1>2
<1>4. \A b \in Batches : acked[b] \in A
  OBVIOUS
<1>5. OfferEndMs = CHOOSE t \in A : \A b \in Batches : acked[b] <= t
  BY DEF OfferEndMs
<1> HIDE DEF A
<1>6. \E t \in A : \A a \in A : a <= t
  BY <1>2, <1>3, GreatestNumber
<1>7. \E t \in A : \A b \in Batches : acked[b] <= t
  BY <1>4, <1>6
<1>8. QED
  BY <1>3, <1>5, <1>7

(* AbsorbedIsConservative.                                                 *)
LEMMA AbsorbedConserves == ASSUME LagInv PROVE AbsorbedIsConservative
<1> USE DEF LagInv
<1> DEFINE end == OfferEndMs
           I   == WhileOffering(end)
           U   == UNION {commits[i].batches : i \in {j \in DOMAIN commits : commits[j].at <= end}}
<1> SUFFICES ASSUME Over, Absorbed # NoTime PROVE Absorbed <= Cardinality(U)
  BY DEF AbsorbedIsConservative
<1>1. end # NoTime /\ I # {} /\ Absorbed = polls[CHOOSE i \in I : \A j \in I : j <= i].committed
  BY DEF Absorbed
<1>2. end \in Nat
  BY <1>1, OfferEndIs DEF OfferEndMs
<1>3. /\ DOMAIN polls = 1 .. Len(polls) /\ Len(polls) \in Nat
      /\ \A i \in DOMAIN polls : polls[i].at \in Nat /\ polls[i].read \in Nat /\ polls[i].doc \in Nat
  BY PollsAre
<1>4. I \in SUBSET Int /\ (\A i \in I : i \in DOMAIN polls /\ polls[i].at <= end /\ i <= Len(polls))
  BY <1>3 DEF WhileOffering
<1> HIDE DEF end, I, U
<1>5. \E i \in I : \A j \in I : j <= i
  <2>1. Len(polls) \in Int /\ I \in SUBSET Int /\ I # {} /\ \A i \in I : i <= Len(polls)
    BY <1>1, <1>3, <1>4
  <2>2. QED
    BY <2>1, GreatestNumber
<1>6. PICK i \in I : Absorbed = polls[i].committed
  BY <1>1, <1>5
<1>7. PollIsObserved(i)
  BY <1>4 DEF PollsAreObserved
<1>8. ASSUME NEW c \in 1 .. polls[i].doc PROVE c \in DOMAIN commits /\ commits[c].at <= end
  <2>1. c \in DOMAIN commits
    BY <1>3, <1>4, <1>7, TableBatches DEF PollIsObserved
  <2>2. /\ commits[c].at <= polls[i].read /\ polls[i].read <= polls[i].at /\ polls[i].at <= end
        /\ commits[c].at \in Nat /\ polls[i].read \in Nat /\ polls[i].at \in Nat
    BY <1>3, <1>4, <1>7, <2>1, TableBatches DEF PollIsObserved
  <2>3. QED
    BY <1>2, <2>1, <2>2
<1>9. CommittedBy(polls[i].doc) \subseteq U
  BY <1>8 DEF CommittedBy, U
<1>10. U \in SUBSET Batches
  BY TableBatches DEF U
<1>11. IsFiniteSet(U)
  BY <1>10, TableIsFinite
<1>12. Cardinality(CommittedBy(polls[i].doc)) <= Cardinality(U)
  BY <1>9, <1>11, FS_Subset
<1>13. QED
  BY <1>6, <1>7, <1>12 DEF PollIsObserved

(* DrainWithinPolling.                                                     *)
LEMMA DrainConserves == ASSUME LagInv PROVE DrainWithinPolling
<1> USE DEF LagInv
<1> SUFFICES ASSUME DrainedMs # NoTime
             PROVE  /\ TrueCoverage(DrainedMs) = NBatches - 1
                    /\ \A i \in DOMAIN polls :
                         Cover(polls[i].doc) = NBatches - 1 => DrainedMs <= polls[i].read
  BY DEF DrainWithinPolling
<1>1. /\ DOMAIN obs = 1 .. Len(obs) /\ Len(obs) \in Nat /\ NBatches \in Nat \ {0}
      /\ \A i \in DOMAIN obs : obs[i].seen \in Nat /\ obs[i].prefix \in -1 .. NBatches - 1 /\ i \in Nat
  BY ObservationsAre, SetupOK
<1>2. Covering \in SUBSET Nat /\ \A i : i \in Covering <=> i \in DOMAIN obs /\ obs[i].prefix >= NBatches - 1
  BY <1>1 DEF Covering
<1>3. Covering # {} /\ DrainedMs = obs[CHOOSE i \in Covering : \A j \in Covering : i <= j].seen
  BY DEF DrainedMs
<1>4. \E i \in Covering : \A j \in Covering : i <= j
  BY <1>2, <1>3, LeastNumber
<1>5. PICK m \in Covering : DrainedMs = obs[m].seen /\ \A j \in Covering : m <= j
  BY <1>3, <1>4
<1>6. m \in DOMAIN obs /\ obs[m].prefix = NBatches - 1 /\ obs[m].seen \in Nat
  BY <1>1, <1>2
<1>7. TrueCoverage(DrainedMs) = NBatches - 1
  <2>1. PICK c \in DOMAIN commits : commits[c].at <= obs[m].seen /\ obs[m].prefix = Cover(c)
    BY <1>6 DEF ObservationsAreCommits
  <2>2. Cover(c) <= TrueCoverage(obs[m].seen) /\ TrueCoverage(obs[m].seen) \in -1 .. NBatches - 1
    BY <1>6, <2>1, TrulyCovered
  <2>3. QED
    BY <1>1, <1>5, <1>6, <2>1, <2>2
<1>8. ASSUME NEW i \in DOMAIN polls, Cover(polls[i].doc) = NBatches - 1 PROVE DrainedMs <= polls[i].read
  <2>1. PICK o \in DOMAIN obs : obs[o].seen <= polls[i].read /\ Cover(polls[i].doc) <= obs[o].prefix
    BY <1>1, <1>8 DEF PollsAreObserved, PollIsObserved
  <2>2. o \in Covering
    BY <1>1, <1>2, <1>8, <2>1
  <2>3. m = o \/ m < o
    BY <1>1, <1>5, <1>6, <2>2
  <2>4. m < o => obs[m].seen <= obs[o].seen
    BY <1>6 DEF ObservationsAreCommits
  <2>5. QED
    BY <1>1, <1>5, <1>6, <2>1, <2>3, <2>4, PollsAre
<1>9. QED
  BY <1>7, <1>8

(* LiveLagMatchesSeries.                                                   *)
LEMMA LiveLagMatches == ASSUME LagInv PROVE LiveLagMatchesSeries
<1> USE DEF LagInv
<1> SUFFICES ASSUME place = "evaluate"
             PROVE  LiveLag = LagOf(Last(polls).at, SampledPrefix(obs, "first_seen_ms", Last(polls).at))
  BY DEF LiveLagMatchesSeries
<1> DEFINE p == SampledPrefix(obs, "first_seen_ms", clock)
<1>1. polls # <<>> /\ Last(polls).at = clock /\ UpToDate
  BY DEF CatchesUp, Last
<1>2. LiveLag = LagOf(clock, Cover(seen))
  BY <1>1 DEF LiveLag
<1>3. /\ DOMAIN obs = 1 .. Len(obs) /\ Len(obs) \in Nat /\ clock \in Int
      /\ \A i \in DOMAIN obs : obs[i].seen \in Nat /\ i \in Nat /\ obs[i].seen <= clock
  <2>1. clock \in Int
    BY DEF LagTypeOK
  <2>2. \A i \in DOMAIN obs : obs[i].seen <= clock
    BY DEF ObservationsAreCommits
  <2>3. QED
    BY <2>1, <2>2, ObservationsAre
<1>4. \/ p = -1 /\ \A i \in DOMAIN obs : ~(obs[i].seen <= clock)
      \/ \E l \in DOMAIN obs :
           /\ p = obs[l].prefix /\ obs[l].seen <= clock
           /\ \A j \in DOMAIN obs \ {l} : obs[j].seen <= clock =>
                obs[j].seen < obs[l].seen \/ (obs[j].seen = obs[l].seen /\ j < l)
  BY <1>3, SampledFirstSeen
<1> HIDE DEF p
<1>5. CASE obs = <<>>
  <2>1. p = -1
    BY <1>4, <1>5
  <2>2. seen = 0
    BY <1>1, <1>5 DEF UpToDate
  <2>3. QED
    BY <1>1, <1>2, <2>1, <2>2, NothingCovered DEF p
<1>6. CASE obs # <<>>
  <2>1. Len(obs) \in DOMAIN obs
    <3>1. Len(obs) # 0
      BY <1>6 DEF LagTypeOK
    <3>2. QED
      BY <1>3, <3>1
  <2>2. PICK l \in DOMAIN obs :
          /\ p = obs[l].prefix
          /\ l # Len(obs) => obs[Len(obs)].seen < obs[l].seen \/ (obs[Len(obs)].seen = obs[l].seen /\ Len(obs) < l)
    BY <1>3, <1>4, <2>1
  <2>3. l < Len(obs) => obs[l].seen <= obs[Len(obs)].seen
    BY <2>1 DEF ObservationsAreCommits
  <2>4. l = Len(obs)
    BY <1>3, <2>1, <2>2, <2>3
  <2>5. p = Cover(seen)
    BY <1>1, <1>6, <2>2, <2>4 DEF UpToDate
  <2>6. QED
    BY <1>1, <1>2, <2>5 DEF p
<1>7. QED
  BY <1>5, <1>6

(* No figure drawn from the polls is better than the table was: what the   *)
(* series credit it with on either clock, the rows absorbed by the end of  *)
(* the offer, the time of the drain and the lag the gate is given.         *)
THEOREM FiguresConserve == LagSpec => []FiguresAreConservative
<1>1. LagInv => FiguresAreConservative
  BY FirstSeenConserves, TimestampConserves, UnsuspectedConserves, AbsorbedConserves,
     DrainConserves, LiveLagMatches DEF FiguresAreConservative
<1>2. QED
  BY <1>1, LagInductive, PTL

-----------------------------------------------------------------------------
(* The verdict.                                                            *)
(* The window is never empty, and all its lags are the series'.            *)
TableSeries == LagSeries("timestamp_ms", endMs)
TableWindow == [t \in SeriesWindow(TableSeries, endMs) |-> TableSeries[t]]

LEMMA WindowIs ==
  ASSUME LagInv, Over
  PROVE  /\ DOMAIN TableWindow = SeriesWindow(TableSeries, endMs) /\ DOMAIN TableWindow \subseteq GridPoints(endMs)
         /\ IsFiniteSet(DOMAIN TableWindow) /\ DOMAIN TableWindow # {}
         /\ \A t \in GridPoints(endMs) : t >= Warmup => t \in DOMAIN TableWindow
         /\ \A t \in DOMAIN TableWindow : TableWindow[t].lag = LagOf(t, SampledPrefix(obs, "timestamp_ms", t))
<1> USE DEF LagInv
<1>1. /\ endMs \in Nat /\ GridPoints(endMs) \subseteq 0 .. endMs /\ endMs \in GridPoints(endMs)
      /\ DOMAIN TableSeries = GridPoints(endMs)
      /\ \A t \in GridPoints(endMs) : TableSeries[t].lag = LagOf(t, SampledPrefix(obs, "timestamp_ms", t))
  BY SeriesIs DEF Clocks, TableSeries
<1>2. DOMAIN TableWindow = SeriesWindow(TableSeries, endMs)
  BY DEF TableWindow
<1>3. SeriesWindow(TableSeries, endMs) \subseteq GridPoints(endMs) /\ SeriesWindow(TableSeries, endMs) # {}
  BY <1>1 DEF SeriesWindow
<1>4. \A t \in GridPoints(endMs) : t >= Warmup => t \in SeriesWindow(TableSeries, endMs)
  BY <1>1 DEF SeriesWindow
<1>5. IsFiniteSet(SeriesWindow(TableSeries, endMs))
  <2>1. IsFiniteSet(0 .. endMs)
    BY <1>1, FS_Interval
  <2>2. SeriesWindow(TableSeries, endMs) \in SUBSET (0 .. endMs)
    BY <1>1, <1>3
  <2>3. QED
    BY <2>1, <2>2, FS_Subset
<1>6. \A t \in SeriesWindow(TableSeries, endMs) : TableWindow[t] = TableSeries[t]
  BY DEF TableWindow
<1>7. QED
  BY <1>1, <1>2, <1>3, <1>4, <1>5, <1>6

(* Where no emit time is missing from the window, it has both quantiles,   *)
(* and the largest lag is the second.                                      *)
LEMMA QuantilesAre ==
  ASSUME LagInv, Over, \A t \in DOMAIN TableWindow : TableWindow[t].lag # NoTime
  PROVE  /\ LagQuantiles(TableWindow).p95 \in Int /\ LagQuantiles(TableWindow).max \in Int
         /\ \A t \in DOMAIN TableWindow : TableWindow[t].lag \in Int /\ 100 * TableWindow[t].lag <= LagQuantiles(TableWindow).max
<1> USE DEF LagInv
<1> DEFINE D == DOMAIN TableWindow
           n == Cardinality(D)
           k == (95 * (n - 1)) \div 100
           part == (95 * (n - 1)) % 100
<1>1. IsFiniteSet(D) /\ D # {} /\ D \subseteq GridPoints(endMs)
  BY WindowIs
<1>2. endMs \in Nat /\ GridPoints(endMs) \subseteq 0 .. endMs
  BY SeriesIs DEF Clocks
<1>3. n \in Nat \ {0}
  BY <1>1, FS_CardinalityType, FS_EmptySet
<1>4. clock \in Nat /\ -clock \in Int
  BY DEF LagTypeOK
<1>5. ASSUME NEW t \in D PROVE TableWindow[t].lag \in Int /\ -clock <= TableWindow[t].lag /\ TableWindow[t].lag <= endMs
  <2> DEFINE p == SampledPrefix(obs, "timestamp_ms", t)
  <2>1. t \in Nat /\ t <= endMs
    BY <1>1, <1>2
  <2>2. p \in -1 .. NBatches - 1
    BY <2>1, SampledIsPrefix DEF Clocks
  <2>3. TableWindow[t].lag = LagOf(t, p) /\ TableWindow[t].lag # NoTime
    BY <1>5, WindowIs
  <2> HIDE DEF p
  <2>4. \/ LagOf(t, p) = t
        \/ p \in records /\ acked[p] \in Nat /\ LagOf(t, p) = t - acked[p]
    BY <2>1, <2>2, <2>3, LagOfIs
  <2>5. p \in records /\ acked[p] \in Nat => acked[p] <= clock
    BY DEF WorldInOrder, LagTypeOK
  <2>6. QED
    BY <1>2, <1>4, <2>1, <2>3, <2>4, <2>5
<1>6. ASSUME NEW j \in Nat, j < n
      PROVE  Ranked(TableWindow, j) \in Int /\ (j = n - 1 => \A t \in D : TableWindow[t].lag <= Ranked(TableWindow, j))
  <2> DEFINE low  == -clock
             high == endMs
             W    == TableWindow
             E    == DOMAIN W
  <2>1. low \in Int /\ high \in Int /\ IsFiniteSet(E) /\ j < Cardinality(E)
    BY <1>1, <1>2, <1>4, <1>6
  <2>2. \A t \in E : W[t].lag \in Int /\ low <= W[t].lag /\ W[t].lag <= high
    BY <1>5
  <2>3. DOMAIN W = E
    OBVIOUS
  <2> HIDE DEF low, high, W, E
  <2>4. /\ Ranked(W, j) \in Int
        /\ j = Cardinality(E) - 1 => \A t \in E : W[t].lag <= Ranked(W, j)
    BY <2>1, <2>2, <2>3, RankedIs
  <2>5. QED
    BY <2>4 DEF W, E
<1>7. LagQuantiles(TableWindow) = [p95 |-> Percentile(TableWindow, 95), max |-> Percentile(TableWindow, 100)]
  BY <1>1 DEF LagQuantiles
<1>8. Percentile(TableWindow, 100) = 100 * Ranked(TableWindow, n - 1)
  <2>1. (100 * (n - 1)) \div 100 = n - 1 /\ (100 * (n - 1)) % 100 = 0
    BY <1>3
  <2>2. Ranked(TableWindow, n - 1) \in Int
    BY <1>3, <1>6
  <2>3. Percentile(TableWindow, 100) = (100 - 0) * Ranked(TableWindow, n - 1) + 0 * 0
    BY <2>1 DEF Percentile
  <2>4. QED
    BY <2>2, <2>3
<1>9. Percentile(TableWindow, 95) \in Int
  <2>1. k \in Nat /\ k < n /\ part \in Nat /\ part < 100 /\ (part # 0 => k + 1 < n)
    BY <1>3
  <2>2. Percentile(TableWindow, 95)
          = (100 - part) * Ranked(TableWindow, k) + part * (IF part = 0 THEN 0 ELSE Ranked(TableWindow, k + 1))
    BY DEF Percentile
  <2> HIDE DEF k, part
  <2>3. Ranked(TableWindow, k) \in Int
    BY <1>6, <2>1
  <2>4. (IF part = 0 THEN 0 ELSE Ranked(TableWindow, k + 1)) \in Int
    BY <1>6, <2>1
  <2>5. QED
    BY <2>1, <2>2, <2>3, <2>4
<1>10. LagQuantiles(TableWindow).p95 = Percentile(TableWindow, 95) /\ LagQuantiles(TableWindow).max = Percentile(TableWindow, 100)
  BY <1>7
<1>11. \A t \in D : TableWindow[t].lag <= Ranked(TableWindow, n - 1)
  BY <1>3, <1>6
<1>12. Ranked(TableWindow, n - 1) \in Int
  BY <1>3, <1>6
<1> HIDE DEF n
<1>13. QED
  BY <1>5, <1>8, <1>9, <1>10, <1>11, <1>12

(* No prefix of the series is missing where the verdict does not say so.   *)
LEMMA NoneMissing ==
  ASSUME LagInv, Over, MissingEmitPrefixes(TableSeries) = {}
  PROVE  \A t \in DOMAIN TableWindow : TableWindow[t].lag # NoTime
<1>1. ASSUME NEW t \in DOMAIN TableWindow, TableWindow[t].lag = NoTime PROVE FALSE
  <2>1. t \in DOMAIN TableSeries /\ TableSeries[t].lag = NoTime
    BY <1>1, WindowIs, SeriesIs DEF TableSeries, Clocks, TableWindow
  <2>2. TableSeries[t].prefix \in MissingEmitPrefixes(TableSeries)
    BY <2>1 DEF MissingEmitPrefixes
  <2>3. QED
    BY <2>2
<1>2. QED
  BY <1>1

(* StalenessIsBounded.                                                     *)
LEMMA StalenessBound == ASSUME LagInv PROVE StalenessIsBounded
<1> USE DEF LagInv
<1> SUFFICES ASSUME Over, FreshnessResult(endMs).verdict, ~ProducerBound,
                    NEW t \in GridPoints(endMs), t >= Warmup, NEW b \in Batches,
                    b > TrueCoverage(t + WriterSkew), acked[b] # NoTime
             PROVE  acked[b] >= t - 2 * Bound - BehindMax
  BY DEF StalenessIsBounded
<1> DEFINE p == SampledPrefix(obs, "timestamp_ms", t)
<1>1. t \in Nat /\ Bound \in Nat /\ BehindMax \in Nat /\ WriterSkew \in Nat /\ NBatches \in Nat /\ b \in Nat
  BY SeriesIs, SetupOK DEF Clocks, Batches
<1>2. FreshnessResult(endMs).verdict =
        (/\ obs # <<>> /\ Last(obs).prefix = NBatches - 1
         /\ MissingEmitPrefixes(TableSeries) = {}
         /\ LagQuantiles(TableWindow).p95 # NoTime /\ LagQuantiles(TableWindow).p95 <= 100 * Bound
         /\ LagQuantiles(TableWindow).max # NoTime /\ LagQuantiles(TableWindow).max <= 200 * Bound)
  BY DEF FreshnessResult, TableSeries, TableWindow
<1>3. \A u \in DOMAIN TableWindow : TableWindow[u].lag # NoTime
  BY <1>2, NoneMissing
<1>4. t \in DOMAIN TableWindow
  BY WindowIs
<1>5. LagQuantiles(TableWindow).max \in Int /\ TableWindow[t].lag \in Int /\ 100 * TableWindow[t].lag <= LagQuantiles(TableWindow).max
  BY <1>3, <1>4, QuantilesAre
<1>6. TableWindow[t].lag <= 2 * Bound
  <2> DEFINE l == TableWindow[t].lag
             m == LagQuantiles(TableWindow).max
  <2>1. m <= 200 * Bound
    BY <1>2
  <2>2. m \in Int /\ l \in Int /\ 100 * l <= m
    BY <1>5
  <2> HIDE DEF l, m
  <2>3. l <= 2 * Bound
    BY <1>1, <2>1, <2>2
  <2>4. QED
    BY <2>3 DEF l
<1>7. TableWindow[t].lag = LagOf(t, p)
  BY <1>4, WindowIs
<1>8. p \in -1 .. NBatches - 1
  BY <1>1, SampledIsPrefix DEF Clocks
<1>9. p <= TrueCoverage(t + WriterSkew)
  BY TimestampConserves DEF TimestampWithinSkew
<1> HIDE DEF p
<1>10. p < b
  <2>1. TrueCoverage(t + WriterSkew) \in -1 .. NBatches - 1
    BY <1>1, TrulyCovered
  <2>2. QED
    BY <1>1, <1>8, <1>9, <2>1
<1>11. acked[b] \in Nat /\ b <= acked[b]
  BY DEF LagTypeOK, WorldInOrder
<1>12. \/ LagOf(t, p) = t
       \/ p \in records /\ acked[p] \in Nat /\ LagOf(t, p) = t - acked[p]
  BY <1>1, <1>3, <1>4, <1>7, <1>8, LagOfIs
<1>13. CASE LagOf(t, p) = t
  BY <1>1, <1>6, <1>7, <1>11, <1>13
<1>14. CASE p \in records /\ acked[p] \in Nat /\ LagOf(t, p) = t - acked[p]
  <2>1. ~(acked[p] - p > BehindMax)
    BY <1>14 DEF ProducerBound
  <2>2. QED
    BY <1>1, <1>6, <1>7, <1>8, <1>10, <1>11, <1>14, <2>1
<1>15. QED
  BY <1>12, <1>13, <1>14

(* ReasonNamesFailure.                                                     *)
LEMMA FailureIsNamed == ASSUME LagInv PROVE ReasonNamesFailure
<1> USE DEF LagInv
<1> SUFFICES ASSUME Over, ~FreshnessResult(endMs).verdict
             PROVE  FreshnessResult(endMs).reason # "no lag sample"
  BY DEF ReasonNamesFailure
<1> DEFINE drained == obs # <<>> /\ Last(obs).prefix = NBatches - 1
           missing == MissingEmitPrefixes(TableSeries)
           q       == LagQuantiles(TableWindow)
           p95Good == q.p95 # NoTime /\ q.p95 <= 100 * Bound
           maxGood == q.max # NoTime /\ q.max <= 200 * Bound
<1>1. FreshnessResult(endMs).verdict = (drained /\ missing = {} /\ p95Good /\ maxGood)
  BY DEF FreshnessResult, TableSeries, TableWindow
<1>2. FreshnessResult(endMs).reason =
        CASE ~drained                                         -> "never drained"
          [] drained /\ missing # {}                          -> "missing emit"
          [] drained /\ missing = {} /\ ~p95Good /\ q.p95 # NoTime -> "window p95"
          [] drained /\ missing = {} /\ p95Good /\ ~maxGood   -> "window max"
          [] OTHER                                            -> "no lag sample"
  BY DEF FreshnessResult, TableSeries, TableWindow
<1>3. missing = {} => q.p95 # NoTime
  BY NoneMissing, QuantilesAre, SetupOK
<1> HIDE DEF drained, missing, p95Good, maxGood, q
<1>4. ~(drained /\ missing = {} /\ p95Good /\ maxGood)
  BY <1>1
<1>5. QED
  BY <1>2, <1>3, <1>4

(* What a valid run promises a reader of the table about its staleness,    *)
(* and that a run that is not valid says why.                              *)
THEOREM ValidRunBoundsStale == LagSpec => []ValidRunBoundsStaleness
<1>1. LagInv => ValidRunBoundsStaleness
  BY StalenessBound, FailureIsNamed DEF ValidRunBoundsStaleness
<1>2. QED
  BY <1>1, LagInductive, PTL
=============================================================================
