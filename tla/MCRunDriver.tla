---------------------------- MODULE MCRunDriver ----------------------------
(* Instances of RunDriver: two breaches, seven ticks, a sleep of two, so   *)
(* that the last sleep is cut short.                                       *)
EXTENDS RunDriver
=============================================================================
