-------------------------------- MODULE Gate --------------------------------
(***************************************************************************)
(* The verdict on a live run (scorer/gate.py, scorer/cli.py, and the two   *)
(* downloads of scripts/gate.sh), beside the scorer whose artifacts it     *)
(* reads.  The scorer takes a keep-up sample per poll and uploads          *)
(* keepup_samples.jsonl, then summary.json; the gate downloads them in the *)
(* other order, one after the other, and judges by its own clock.          *)
(*                                                                         *)
(* Time is counted in ticks of the gate's clock; the scorer's clock is     *)
(* Skew ticks ahead of it.  Offered and committed rows are totals.  What   *)
(* the verdict is used for (counting breaches, teardown) is RunDriver.     *)
(***************************************************************************)
EXTENDS Integers

CONSTANTS
  Epoch,       \* when the offer starts
  Adaptation,  \* gate_adaptation_s
  Window,      \* gate_window_s, the width of a backlog window
  StaleAfter,  \* stale_after_s
  MaxBound,    \* max_bound_s, twice the freshness bound
  Skew,        \* how far the scorer's clock is ahead of the gate's
  Lags,        \* the lags the scorer may report
  Faults,      \* what it may report to be wrong
  MaxRows,     \* bound on the rows offered; one more may be committed
  LastTick     \* bound on the clock

NoFault == "none"
NoLag   == -1

ASSUME GateAssumption ==
  /\ Epoch \in Nat /\ Adaptation \in Nat /\ Window \in Nat \ {0}
  /\ StaleAfter \in Nat /\ MaxBound \in Nat /\ Skew \in Int
  /\ Lags \subseteq Nat
  /\ NoFault \in Faults
  /\ Faults \subseteq {NoFault, "void", "producer_bound", "aborted"}
  /\ MaxRows \in Nat /\ LastTick \in Nat

VARIABLES
  now,        \* the gate's clock
  offered,    \* rows the publish logs record
  committed,  \* rows counted in the table
  scorer,     \* where the scorer's process is
  diedAt,     \* the tick it ended or was lost at (history)
  samples,    \* keepup_samples.jsonl on its disk
  summary,    \* summary.json on its disk
  upSamples,  \* the two in the object store
  upSummary,
  gate,       \* where the gate's process is
  gotSummary, \* what it downloaded
  gotSamples,
  verdict,    \* its last verdict
  judgedAt    \* and when it was given

scorerVars == <<scorer, diedAt, samples, summary, upSamples, upSummary>>
gateVars   == <<gate, gotSummary, gotSamples, verdict, judgedAt>>
vars       == <<now, offered, committed, scorerVars, gateVars>>

Sample  == [at : Int, backlog : Nat]
Summary == [fault : Faults, lag : Lags \cup {NoLag}]

None    == [fault |-> "absent", lag |-> NoLag]
Alive   == -1
NoFloor == -1

-----------------------------------------------------------------------------
(* The verdict.                                                            *)

(* The samples in the index-th window before at, the newest being 0.       *)
InWindow(S, at, index) ==
  LET upper == at - index * Window
  IN {s \in S : upper - Window <= s.at /\ s.at < upper}

(* Mutant: the highest backlog of a window instead of the lowest.          *)
Peak(S) ==
  LET backlogs == {s.backlog : s \in S}
  IN IF S = {} THEN NoFloor
     ELSE CHOOSE b \in backlogs : \A c \in backlogs : c <= b

Floor(S) ==
  LET backlogs == {s.backlog : s \in S}
  IN IF S = {} THEN NoFloor
     ELSE CHOOSE b \in backlogs : \A c \in backlogs : b <= c

BacklogFloor(S, at, index) == Floor(InWindow(S, at, index))

(* Mutant: two windows are compared.                                       *)
RisingTwice(S, at) ==
  LET recent == BacklogFloor(S, at, 0)
      middle == BacklogFloor(S, at, 1)
  IN middle # NoFloor /\ recent > middle /\ middle > 0

RisingFloor(S, at) ==
  LET recent == BacklogFloor(S, at, 0)
      middle == BacklogFloor(S, at, 1)
      oldest == BacklogFloor(S, at, 2)
  IN /\ middle # NoFloor /\ oldest # NoFloor
     /\ recent > middle /\ middle > oldest /\ oldest > 0

(* Mutant: any sample will do, however old.                                *)
AnySample(S, at) == S = {}

(* newest is the maximum of the samples' times: stale if all are.          *)
Stale(S, at) == \A s \in S : at - s.at > StaleAfter

Lagging(sum, at) == at >= Epoch + Adaptation /\ sum.lag > MaxBound

gate_verdict(sum, S, at) ==
  IF sum.fault # NoFault \/ Stale(S, at) THEN "VOID"
  ELSE IF Lagging(sum, at) THEN "UNDERSIZED"
  ELSE IF BacklogFloor(S, at, 0) = NoFloor THEN "VOID"
  ELSE IF RisingFloor(S, at) THEN "UNDERSIZED"
  ELSE "PASS"

-----------------------------------------------------------------------------
Init ==
  /\ now = 0 /\ offered = 0 /\ committed = 0
  /\ scorer = "poll" /\ diedAt = Alive
  /\ samples = {} /\ summary = None
  /\ upSamples = {} /\ upSummary = None
  /\ gate = "idle" /\ gotSummary = None /\ gotSamples = {}
  /\ verdict = "none" /\ judgedAt = 0

Tick ==
  /\ now < LastTick
  /\ now' = now + 1
  /\ UNCHANGED <<offered, committed, scorerVars, gateVars>>

(* Producers start at the epoch; logs may lag behind what is committed.    *)
Offer ==
  /\ now >= Epoch
  /\ offered' \in (offered + 1)..MaxRows
  /\ UNCHANGED <<now, committed, scorerVars, gateVars>>

Commit ==
  /\ now >= Epoch
  /\ committed' \in (committed + 1)..(MaxRows + 1)
  /\ UNCHANGED <<now, offered, scorerVars, gateVars>>

(* Duplicates, or logs that lag behind, may exceed what was offered.       *)
make_sample ==
  [at      |-> now + Skew,
   backlog |-> IF offered > committed THEN offered - committed ELSE 0]

(* A successful poll: append the sample, write the summary.  At most one   *)
(* poll per tick.                                                          *)
TakeSample ==
  /\ scorer = "poll"
  /\ \A s \in samples : s.at # now + Skew
  /\ samples' = samples \cup {make_sample}
  /\ \E lag \in Lags \cup {NoLag} : summary' = [fault |-> NoFault, lag |-> lag]
  /\ scorer' = "samples"
  /\ UNCHANGED <<now, offered, committed, diedAt, upSamples, upSummary, gateVars>>

(* The scorer ends: a last summary, without a sample; then every artifact  *)
(* is uploaded, summary.json last.                                         *)
EndScoring ==
  /\ scorer = "poll"
  /\ \E fault \in Faults, lag \in Lags \cup {NoLag} :
       summary' = [fault |-> fault, lag |-> lag]
  /\ scorer' = "lastSamples"
  /\ UNCHANGED <<now, offered, committed, diedAt, samples, upSamples, upSummary, gateVars>>

UploadSamples ==
  /\ scorer \in {"samples", "lastSamples"}
  /\ upSamples' = samples
  /\ scorer' = IF scorer = "samples" THEN "summary" ELSE "lastSummary"
  /\ UNCHANGED <<now, offered, committed, diedAt, samples, summary, upSummary, gateVars>>

UploadSummary ==
  /\ scorer \in {"summary", "lastSummary"}
  /\ upSummary' = summary
  /\ IF scorer = "summary"
     THEN scorer' = "poll" /\ UNCHANGED diedAt
     ELSE scorer' = "gone" /\ diedAt' = now
  /\ UNCHANGED <<now, offered, committed, samples, summary, upSamples, gateVars>>

(* The pod is lost, or an upload failed: nothing replaces it.              *)
LoseScorer ==
  /\ scorer # "gone"
  /\ scorer' = "gone" /\ diedAt' = now
  /\ UNCHANGED <<now, offered, committed, samples, summary, upSamples, upSummary, gateVars>>

(* gate.sh downloads the summary; without one it stops, unjudged.          *)
FetchSummary ==
  /\ gate = "idle" /\ upSummary # None
  /\ gotSummary' = upSummary
  /\ verdict' = "none"
  /\ gate' = "samples"
  /\ UNCHANGED <<now, offered, committed, scorerVars, gotSamples, judgedAt>>

(* Likewise without samples.                                               *)
FetchSamples ==
  /\ gate = "samples"
  /\ gotSamples' = upSamples
  /\ gate' = IF upSamples = {} THEN "idle" ELSE "judge"
  /\ UNCHANGED <<now, offered, committed, scorerVars, gotSummary, verdict, judgedAt>>

Judge ==
  /\ gate = "judge"
  /\ verdict' = gate_verdict(gotSummary, gotSamples, now)
  /\ judgedAt' = now
  /\ gate' = "idle"
  /\ UNCHANGED <<now, offered, committed, scorerVars, gotSummary, gotSamples>>

World == Tick \/ Offer \/ Commit
Scorer == TakeSample \/ EndScoring \/ UploadSamples \/ UploadSummary \/ LoseScorer
Gating == FetchSummary \/ FetchSamples \/ Judge

Next == World \/ Scorer \/ Gating

Spec == Init /\ [][Next]_vars

-----------------------------------------------------------------------------
TypeOK ==
  /\ now \in Nat /\ offered \in Nat /\ committed \in Nat
  /\ scorer \in {"poll", "samples", "summary", "lastSamples", "lastSummary", "gone"}
  /\ diedAt \in Nat \cup {Alive}
  /\ samples \subseteq Sample /\ upSamples \subseteq Sample /\ gotSamples \subseteq Sample
  /\ {summary, upSummary, gotSummary} \subseteq Summary \cup {None}
  /\ gate \in {"idle", "samples", "judge"}
  /\ verdict \in {"none", "PASS", "UNDERSIZED", "VOID"}
  /\ judgedAt \in Nat

(* gate.py:4: a run is not passed on the strength of a summary that looks  *)
(* healthy while nothing measures it.  However the uploads and downloads   *)
(* interleave, a scorer that ended or was lost is passed for StaleAfter    *)
(* ticks at most, and for the skew of its clock; and, whatever StaleAfter, *)
(* for one window (gate.py:78).                                            *)
PassIsMeasured ==
  verdict = "PASS" /\ diedAt # Alive =>
    /\ judgedAt - diedAt <= StaleAfter + Skew
    /\ judgedAt - diedAt <= Window + Skew

(* The three windows reach back over the adaptation period: an equality    *)
(* with the defaults of cli.py (120 s, 60 s) on clocks that agree.         *)
WindowsReachBack == Adaptation <= 2 * Window + Skew

(* Capacity checks wait until the adaptation period ends (methodology.md). *)
(* For the lag the code tests it; for the backlog it only follows when     *)
(* WindowsReachBack, because nothing is offered before the epoch.          *)
CapacityAfterAdaptation ==
  verdict = "UNDERSIZED" => judgedAt >= Epoch + Adaptation

(* gate.py:6: a rising floor tells persistent growth from commit cycles.   *)
(* A fleet whose backlog came back, at any sample of the last window, to   *)
(* what it once was two windows before is not undersized by its backlog.   *)
RecoveredIsNotUndersized ==
  verdict = "UNDERSIZED" /\ gate = "idle" /\ ~Lagging(gotSummary, judgedAt)
    => \E old \in InWindow(gotSamples, judgedAt, 2) :
         \A new \in InWindow(gotSamples, judgedAt, 0) : new.backlog >= old.backlog + 2

(* Why the first two hold: what the samples say of the time they were      *)
(* taken at, and what a verdict rested on.                                 *)
OfferHasEpoch == offered > 0 => now >= Epoch

Dated(S) ==
  \A s \in S :
    /\ s.at <= now + Skew
    /\ diedAt # Alive => s.at <= diedAt + Skew
    /\ s.at < Epoch + Skew => s.backlog = 0

PassRestsOn ==
  verdict = "PASS" =>
    /\ \E s \in samples : judgedAt - s.at <= StaleAfter
    /\ \E s \in samples : judgedAt - s.at <= Window

IInv ==
  /\ TypeOK /\ OfferHasEpoch
  /\ Dated(samples) /\ upSamples \subseteq samples /\ gotSamples \subseteq samples
  /\ diedAt # Alive => scorer = "gone" /\ diedAt <= now
  /\ PassRestsOn /\ (WindowsReachBack => CapacityAfterAdaptation)
=============================================================================
