------------------------------ MODULE Calibration ------------------------------
(***************************************************************************)
(* calibrate_payload_width (corpus/values.py): the payload width that      *)
(* brings the mean row closest to its target is found from an estimate and *)
(* three candidates, although the length prefix of the payload grows with  *)
(* its width.                                                              *)
(*                                                                         *)
(* The mean size of a row is the mean of its other columns, measured on a  *)
(* sample, and the payload with its prefix. Means are counted in parts of  *)
(* a byte, Parts to one.                                                   *)
(***************************************************************************)
EXTENDS Integers, FiniteSets

CONSTANTS
  Parts,     \* parts of a byte in which means are counted
  Growths,   \* widths at which the length prefix grows by a byte
  Others,    \* mean sizes of the other columns, in parts
  Targets,   \* values of target_row_bytes
  NoWidth    \* not estimated, not chosen

(* The length of a payload is a variable-length integer: its widths grow   *)
(* much further apart (64, 8192, 1048576 ...) than there are of them.      *)
ASSUME CalibrationAssumption ==
  /\ Parts \in Nat \ {0} /\ Others \subseteq Nat /\ Growths \cup Targets \subseteq Nat
  /\ IsFiniteSet(Growths) /\ NoWidth \notin Nat
  /\ \A g, h \in Growths : g < h => h - g >= Cardinality(Growths)

VARIABLES others, target, estimate, width, progress

calibrationVars == <<others, target, estimate, width, progress>>

(* realized_encoded_row_size, with the bytes by which the prefix grew.     *)
GrownBy(w) == Cardinality({g \in Growths : g <= w})
Mean(w)    == others + (w + 1 + GrownBy(w)) * Parts

Apart(w) == IF Mean(w) > target * Parts THEN Mean(w) - target * Parts ELSE target * Parts - Mean(w)

(* round(), to the even neighbour from halfway.                            *)
Round(n) ==
  LET low  == n \div Parts
      twice == 2 * (n % Parts)
  IN  IF twice < Parts \/ (twice = Parts /\ low % 2 = 0) THEN low ELSE low + 1

AtLeastZero(n) == IF n < 0 THEN 0 ELSE n

(* The candidates next to the corrected estimate; by the mutant, alone.    *)
CandidatesAlone(c) == {c}
Candidates(c)      == AtLeastZero(c - 1) .. c + 1

Closest(ws) == CHOOSE w \in ws : \A v \in ws : Apart(w) < Apart(v) \/ (Apart(w) = Apart(v) /\ w <= v)

CalibrationInit ==
  /\ others \in Others /\ target \in Targets
  /\ estimate = NoWidth /\ width = NoWidth /\ progress = "measured"

(* A target that the other columns exceed is rejected.                     *)
Estimate ==
  /\ progress = "measured"
  /\ IF Mean(0) > target * Parts
     THEN progress' = "rejected" /\ UNCHANGED estimate
     ELSE progress' = "estimated" /\ estimate' = AtLeastZero((target * Parts - Mean(0)) \div Parts)
  /\ UNCHANGED <<others, target, width>>

(* The estimate is corrected by what it misses, and its neighbours tried.  *)
Correct ==
  /\ progress = "estimated"
  /\ width' = Closest(Candidates(AtLeastZero(estimate - Round(Mean(estimate) - target * Parts))))
  /\ progress' = "done"
  /\ UNCHANGED <<others, target, estimate>>

CalibrationNext == Estimate \/ Correct

CalibrationSpec == CalibrationInit /\ [][CalibrationNext]_calibrationVars
-----------------------------------------------------------------------------
(* The width that is chosen is the closest of all, not only of the three   *)
(* candidates: also where the prefix grows between the estimate and it     *)
(* ("Measure nearby widths after correcting the linear estimate to find    *)
(* the closest encoded size", values.py:618). No target is rejected that   *)
(* an empty payload would meet.                                            *)
ClosestOfAll ==
  /\ progress = "done" => \A w \in 0 .. target : Apart(width) <= Apart(w)
  /\ progress = "rejected" => \A w \in 0 .. target : Mean(w) > target * Parts
=============================================================================
