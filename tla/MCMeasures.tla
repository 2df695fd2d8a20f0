----------------------------- MODULE MCMeasures -----------------------------
(* Instances of what is measured of a run while it goes on: the gate's     *)
(* verdict (MCGate) and the figures of the scorer (Lag).  They share no    *)
(* state: a behaviour is one of the gate or one of Lag, and the state of   *)
(* the other stays as it begins.                                           *)
(*                                                                         *)
(* Polled: two polls with a scan of a tick at most, a poll that fails, and *)
(* a batch acknowledged at most one tick later than behindMax.  Stamped:   *)
(* one poll, and a tick more for commits whose clocks disagree.  Judged:   *)
(* three batches over six ticks and one poll that scans at once, for the   *)
(* verdict.                                                                *)
EXTENDS MCGate, Lag

VARIABLE part

Polled ==
  [batches |-> 2, skew |-> 1, warmup |-> 1, bound |-> 1, behindMax |-> 1, grid |-> 2,
   horizon |-> 3, commits |-> 2, polls |-> 2, fails |-> 1]
Stamped ==
  [batches |-> 2, skew |-> 1, warmup |-> 1, bound |-> 1, behindMax |-> 1, grid |-> 2,
   horizon |-> 4, commits |-> 2, polls |-> 1, fails |-> 0]
Judged ==
  [batches |-> 3, skew |-> 0, warmup |-> 3, bound |-> 1, behindMax |-> 1, grid |-> 1,
   horizon |-> 6, commits |-> 2, polls |-> 1, fails |-> 0]

MCSetups == {Polled, Stamped, Judged}

-----------------------------------------------------------------------------
InitMeasures ==
  /\ Init /\ LagInit
  /\ part \in {"gate", "figures"} /\ (part = "gate" => setup = Polled)

NextMeasures ==
  \/ part = "gate" /\ Next /\ UNCHANGED <<part, lagVars>>
  \/ part = "figures" /\ LagNext /\ UNCHANGED <<part, vars>>

Measures == InitMeasures /\ [][NextMeasures]_<<part, vars, lagVars>>

-----------------------------------------------------------------------------
(* Delays of the scorer's runs.  An empty commit of the longer ones would  *)
(* change nothing, and one of the shorter ones follows a complete table.   *)
PolledDelays ==
  /\ \A b \in Batches : acked[b] = NoTime => clock < b + 2
  /\ place = "scan" => clock <= firstSeen + 1
  /\ \A i \in DOMAIN commits : commits[i].batches = {} => CommittedBy(i - 1) = Batches

JudgedDelays ==
  /\ place = "scan" => clock = firstSeen
  /\ \A i \in DOMAIN commits : commits[i].batches # {}

Bounded ==
  IF part = "gate" THEN FirstVerdict
  ELSE IF setup = Judged THEN JudgedDelays ELSE PolledDelays

InterleavingOfGate == part = "gate" => Interleaving
=============================================================================
