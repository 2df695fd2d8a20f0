-------------------------------- MODULE Tally --------------------------------
(***************************************************************************)
(* What the scorer's tally and exactness verdict mean, as functions of a   *)
(* ledger: how many times every row of the corpus has been read out of the *)
(* table. BatchTally keeps counts and checksums instead of the ledger and  *)
(* implements these definitions.                                           *)
(***************************************************************************)
EXTENDS Replay, Functions

CONSTANTS
  IdBlock,  \* first identifier of a batch is its number times IdBlock
  P         \* checksum modulus

ASSUME TallyAssumption ==
  /\ IdBlock \in Nat \ {0}
  /\ P \in Nat \ {0}
  /\ \A b \in Batches : RowCount[b] <= IdBlock

EmptyLedger == [r \in RowIds |-> 0]

(* A data file holds every row of the set rows once.                       *)
AddRows(ledger, rows) ==
  [r \in RowIds |-> IF r \in rows THEN ledger[r] + 1 ELSE ledger[r]]

IdOf(r) == BatchOf(r) * IdBlock + r[2] - 1

Count(ledger, b) == SumFunctionOnSet(ledger, RowsOf(b))
Checksum(ledger, b) ==
  SumFunctionOnSet([r \in RowsOf(b) |-> ledger[r] * (IdOf(r) % P)], RowsOf(b)) % P

(* The manifest's checksum of a batch: every row once.                     *)
ExpectedChecksum(b) == Checksum([r \in RowIds |-> 1], b)

Covered(ledger, b) == Count(ledger, b) >= RowCount[b]
Complete(ledger, b) ==
  /\ Count(ledger, b) = RowCount[b]
  /\ Checksum(ledger, b) = ExpectedChecksum(b)

(* The largest k such that batches 0..k are covered, or -1.                *)
CoveredPrefix(ledger) ==
  CHOOSE k \in -1 .. NBatches - 1 :
    /\ \A b \in 0 .. k : Covered(ledger, b)
    /\ k + 1 \in Batches => ~Covered(ledger, k + 1)

(* exactness_result: loss and duplication are summed apart, so that one    *)
(* batch's surplus cannot hide another batch's gap.                        *)
(* The first definition is a mutant: only batches wholly lost count.       *)
LostBatchRows(ledger, offered) ==
  SumFunction([b \in offered |-> IF Count(ledger, b) > 0 THEN 0 ELSE RowCount[b]])
LossRows(ledger, offered) ==
  SumFunction([b \in offered |->
    IF Covered(ledger, b) THEN 0 ELSE RowCount[b] - Count(ledger, b)])
DuplicateRows(ledger, offered) ==
  SumFunction([b \in offered |->
    IF Covered(ledger, b) THEN Count(ledger, b) - RowCount[b] ELSE 0])
CorruptBatches(ledger, offered) ==
  {b \in offered : Count(ledger, b) = RowCount[b] /\ ~Complete(ledger, b)}
(* Mutant of Exact: surplus rows and checksums are not looked at.          *)
AllCovered(ledger, offered) == \A b \in offered : Covered(ledger, b)
Exact(ledger, offered) == \A b \in offered : Complete(ledger, b)
=============================================================================
