------------------------------- MODULE MCGate -------------------------------
(* An instance of Gate: three windows of two ticks reach back over a run   *)
(* of seven, in which the scorer may poll in every tick.                   *)
EXTENDS Gate

MCLags   == {2}
MCSkew   == -1
MCFaults == {NoFault, "aborted"}

(* A gate keeps nothing between two invocations: one verdict is enough.    *)
FirstVerdict == verdict = "none"

(* Rows matter when a sample is taken; artifacts until they are            *)
(* downloaded; afterwards only the clock and the loss of the scorer do.    *)
Interleaving ==
  /\ <<offered, committed>>' # <<offered, committed>> =>
       scorer = "poll" /\ \A s \in samples : s.at # now + Skew
  /\ (gate = "judge" /\ gate' = "judge") =>
       now' # now \/ (diedAt' # diedAt /\ upSummary' = upSummary)
  /\ committed' # committed => offered' > 0 /\ committed' <= offered' + 1
=============================================================================
