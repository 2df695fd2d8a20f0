---------------------------------- MODULE Lag ----------------------------------
(***************************************************************************)
(* The figures the scorer draws from what it observed: the lag series and  *)
(* the freshness verdict (scorer/freshness.py), the keep-up figures        *)
(* (scorer/keepup.py) and the way score.py collects their inputs.          *)
(*                                                                         *)
(* Time passes in ticks on the clock of producer and scorer, from the      *)
(* epoch 0. The writer's clock, which stamps the commits, may be off by up *)
(* to WriterSkew ticks, differently for every commit. A batch is one row;  *)
(* Tally has the coverage of larger ones and Scorer the reads that fail.   *)
(***************************************************************************)
EXTENDS Integers, FiniteSets, SequencesExt

CONSTANTS
  Setups,  \* what a run may be set up with
  NoTime   \* a time, a lag or a figure that is not known

LagSetup ==
  [batches   : Nat \ {0}, \* batches of the corpus; batch b is due at tick b
   skew      : Nat,       \* how far the writer's clock may be off
   warmup    : Nat,       \* warmup_s
   bound     : Nat,       \* freshness_bound_s
   behindMax : Nat,       \* behind_max_ms
   grid      : Nat \ {0}, \* grid_ms
   horizon   : Nat,       \* bound: the last tick
   commits   : Nat,       \* bound: commits of the engine
   polls     : Nat,       \* bound: polls that complete
   fails     : Nat]       \* bound: polls that fail

ASSUME LagAssumption == Setups \subseteq LagSetup /\ NoTime \notin Int

VARIABLES
  setup,      \* what this run is set up with
  clock,      \* the clock of producer and scorer
  acked,      \* batch -> when its last row was acknowledged, or NoTime
  commits,    \* the table: [at, ts, batches], in commit order
  place,      \* where the scorer is: sleep, scan, evaluate, failed or done
  doc,        \* commits in the metadata document being scanned
  firstSeen,  \* when that document was read
  seen,       \* how many commits were scanned to the end
  obs,        \* state.observations
  fails,      \* how many polls failed
  records,    \* batches in state.records
  polls,      \* state.samples
  endMs       \* end_ms of _finalize, or NoTime before it

lagVars == <<setup, clock, acked, commits, place, doc, firstSeen, seen, obs, fails,
             records, polls, endMs>>
world == <<setup, acked, commits>>

NBatches   == setup.batches
WriterSkew == setup.skew
Warmup     == setup.warmup
Bound      == setup.bound
BehindMax  == setup.behindMax
Grid       == setup.grid

Batches == 0 .. NBatches - 1

-----------------------------------------------------------------------------
(* Coverage: the largest batch with every batch through it covered.        *)
PrefixOf(batches) ==
  CHOOSE k \in -1 .. NBatches - 1 : 0 .. k \subseteq batches /\ k + 1 \notin batches

CommittedBy(n) == UNION {commits[i].batches : i \in 1 .. n}
Cover(n)       == PrefixOf(CommittedBy(n))

(* emit_times: when a recorded batch was acknowledged.                     *)
Emit(b) == IF b \in records THEN acked[b] ELSE NoTime

(* A trailer comes with its shard's last record: Scorer has the two passes *)
(* over the logs, of which the first ends the offer.                       *)
OfferEnded == records = Batches

-----------------------------------------------------------------------------
(* lag_series. Observations are sorted by the chosen clock and the last    *)
(* one at or before an instant is taken: among equal times, the one        *)
(* observed last.                                                          *)
ClockOf(o, which) == IF which = "timestamp_ms" THEN o.ts ELSE o.seen

VisibleAt(os, which, t) == {i \in DOMAIN os : ClockOf(os[i], which) <= t}

LatestOf(os, which, visible) ==
  CHOOSE i \in visible : \A j \in visible \ {i} :
    \/ ClockOf(os[j], which) < ClockOf(os[i], which)
    \/ ClockOf(os[j], which) = ClockOf(os[i], which) /\ j < i

SampledPrefix(os, which, t) ==
  LET visible == VisibleAt(os, which, t)
  IN  IF visible = {} THEN -1 ELSE os[LatestOf(os, which, visible)].prefix

(* The emit time the lag is measured from: the epoch, 0, before any batch  *)
(* is covered.                                                             *)
Reference(prefix) == IF prefix >= 0 THEN Emit(prefix) ELSE 0

LagOf(t, prefix) == IF Reference(prefix) = NoTime THEN NoTime ELSE t - Reference(prefix)

(* Grid points from the epoch, and the end of the run.                     *)
GridPoints(end) == {t \in 0 .. end : t % Grid = 0 \/ t = end}

LagSeries(which, end) ==
  [t \in GridPoints(end) |->
     LET prefix == SampledPrefix(obs, which, t) IN [prefix |-> prefix, lag |-> LagOf(t, prefix)]]

MissingEmitPrefixes(series) ==
  {series[t].prefix : t \in {u \in DOMAIN series : series[u].lag = NoTime}}

(* The k-th smallest of a series' lags, from 0.                            *)
Ranked(series, k) ==
  CHOOSE v \in {series[t].lag : t \in DOMAIN series} :
    /\ Cardinality({t \in DOMAIN series : series[t].lag < v}) <= k
    /\ k < Cardinality({t \in DOMAIN series : series[t].lag <= v})

(* np.percentile, times 100: linear between the two nearest ranks.         *)
Percentile(series, q) ==
  LET position == q * (Cardinality(DOMAIN series) - 1)
      k        == position \div 100
      part     == position % 100
  IN  (100 - part) * Ranked(series, k) + part * (IF part = 0 THEN 0 ELSE Ranked(series, k + 1))

(* lag_quantiles: one missing emit time leaves none of them.               *)
LagQuantiles(series) ==
  IF DOMAIN series = {} \/ \E t \in DOMAIN series : series[t].lag = NoTime
  THEN [p95 |-> NoTime, max |-> NoTime]
  ELSE [p95 |-> Percentile(series, 95), max |-> Percentile(series, 100)]

(* _observation_lags_s: per observation, on the table's clock.             *)
ObservationLags ==
  {obs[i].ts - Emit(obs[i].prefix) :
     i \in {j \in DOMAIN obs : obs[j].prefix >= 0 /\ Emit(obs[j].prefix) # NoTime}}

ClockSkewSuspected == \E lag \in ObservationLags : lag < 0

(* The window leaves out the warm-up, or is the last grid point of a run   *)
(* that ended within it.                                                   *)
SeriesWindow(series, end) ==
  IF \E t \in DOMAIN series : t >= Warmup THEN {t \in DOMAIN series : t >= Warmup} ELSE {end}

FreshnessResult(end) ==
  LET series  == LagSeries("timestamp_ms", end)
      window  == LagQuantiles([t \in SeriesWindow(series, end) |-> series[t]])
      missing == MissingEmitPrefixes(series)
      drained == obs # <<>> /\ Last(obs).prefix = NBatches - 1
      p95Good == window.p95 # NoTime /\ window.p95 <= 100 * Bound
      maxGood == window.max # NoTime /\ window.max <= 200 * Bound
  IN  [verdict |-> drained /\ missing = {} /\ p95Good /\ maxGood,
       reason  |-> CASE ~drained                                         -> "never drained"
                     [] drained /\ missing # {}                          -> "missing emit"
                     [] drained /\ missing = {} /\ ~p95Good /\ window.p95 # NoTime -> "window p95"
                     [] drained /\ missing = {} /\ p95Good /\ ~maxGood   -> "window max"
                     [] OTHER                                            -> "no lag sample"]

-----------------------------------------------------------------------------
(* keepup_summary and its inputs.                                          *)
(* _offer_end_ms: the last acknowledgement of an offer that has ended.     *)
OfferEndMs ==
  IF OfferEnded THEN CHOOSE t \in {acked[b] : b \in Batches} : \A b \in Batches : acked[b] <= t
  ELSE NoTime

(* behind_ms against its limit; by the mutant, it is not checked.          *)
NeverBound    == FALSE
ProducerBound == \E b \in records : acked[b] - b > BehindMax

(* _drained_ms: the first observation of the whole offer.                  *)
Covering == {i \in DOMAIN obs : obs[i].prefix >= NBatches - 1}
DrainedMs == IF Covering = {} THEN NoTime ELSE obs[CHOOSE i \in Covering : \A j \in Covering : i <= j].seen

(* The sample that counts as absorbed: the last at or before the offer's   *)
(* end.                                                                    *)
WhileOffering(end) == {i \in DOMAIN polls : polls[i].at <= end}

(* absorbed_at_offer_end, as a number of rows.                             *)
Absorbed ==
  IF OfferEndMs = NoTime \/ WhileOffering(OfferEndMs) = {} THEN NoTime
  ELSE polls[CHOOSE i \in WhileOffering(OfferEndMs) :
                 \A j \in WhileOffering(OfferEndMs) : j <= i].committed

(* _live_lag_s: the lag the gate reads, as of the last sample; a record    *)
(* not yet uploaded leaves it unknown.                                     *)
LiveLag == IF polls = <<>> THEN NoTime ELSE LagOf(Last(polls).at, Cover(seen))

-----------------------------------------------------------------------------
LagInit ==
  /\ setup \in Setups
  /\ clock = 0 /\ acked = [b \in Batches |-> NoTime] /\ commits = <<>>
  /\ place = "sleep" /\ doc = 0 /\ firstSeen = 0 /\ seen = 0 /\ obs = <<>> /\ fails = 0
  /\ records = {} /\ polls = <<>> /\ endMs = NoTime

(* Time passes. By the next tick shards may have had the last row of some  *)
(* batches acknowledged, in any order, none before it was due ...          *)
Acknowledged ==
  \E bs \in SUBSET {b \in Batches : acked[b] = NoTime /\ b <= clock'} :
    acked' = [b \in Batches |-> IF b \in bs THEN clock' ELSE acked[b]]

(* ... and the engine may have committed rows it consumed, each once, or   *)
(* nothing; the acknowledgement may reach the producer later than the row  *)
(* the table.                                                              *)
Committed ==
  \/ UNCHANGED commits
  \/ /\ Len(commits) < setup.commits
     /\ \E bs \in SUBSET ({b \in Batches : b <= clock'} \ CommittedBy(Len(commits))),
           off \in -WriterSkew .. WriterSkew :
          commits' = Append(commits, [at |-> clock', ts |-> clock' + off, batches |-> bs])

TimePasses ==
  /\ clock < setup.horizon /\ place \in {"sleep", "scan"}
  /\ clock' = clock + 1
  /\ Acknowledged
  /\ Committed
  /\ UNCHANGED <<setup, place, doc, firstSeen, seen, obs, fails, records, polls, endMs>>

(* _read_inputs up to the metadata document: the records uploaded by then, *)
(* some of those acknowledged, and the commits. A poll follows an interval.*)
ReadInputs ==
  /\ place = "sleep"
  /\ polls # <<>> => Last(polls).at < clock
  /\ records' \in {rs \in SUBSET {b \in Batches : acked[b] # NoTime} : records \subseteq rs}
  /\ doc' = Len(commits) /\ firstSeen' = clock
  /\ place' = "scan"
  /\ UNCHANGED <<clock, world, seen, obs, fails, polls, endMs>>

(* Unseen snapshots are tallied and observed in turn. All commits of a     *)
(* document share the time it was read; the mutant takes the time of the   *)
(* scan.                                                                   *)
ScanTime == clock
DocTime  == firstSeen

Observed(n) ==
  [i \in 1 .. n - seen |-> [ts     |-> commits[seen + i].ts,
                            seen   |-> DocTime,
                            prefix |-> Cover(seen + i)]]

(* The poll is over, and its sample is taken then.                         *)
ScanAll ==
  /\ place = "scan"
  /\ obs' = obs \o Observed(doc)
  /\ seen' = doc
  /\ polls' = Append(polls, [at |-> clock, read |-> firstSeen, doc |-> doc,
                                 committed |-> Cardinality(CommittedBy(doc))])
  /\ place' = "evaluate" /\ doc' = 0 /\ firstSeen' = 0
  /\ UNCHANGED <<clock, world, fails, records, endMs>>

(* A poll that fails keeps what it has observed. If the last of that could *)
(* not be written to snapshots.jsonl, the next poll observes it again. With*)
(* nothing observed the table or its metadata could not be read. There is  *)
(* no sample, but the run may be over all the same.                        *)
ScanFails ==
  /\ place = "scan" /\ fails < setup.fails
  /\ \E n \in seen .. doc :
       /\ obs' = obs \o Observed(n)
       /\ seen' \in {n, n - 1} /\ seen' >= seen
       /\ n = doc /\ n > seen => seen' = n - 1
  /\ fails' = fails + 1
  /\ place' = "failed" /\ doc' = 0 /\ firstSeen' = 0
  /\ UNCHANGED <<clock, world, records, polls, endMs>>

(* What was observed last is what was tallied, except that a poll which    *)
(* failed may have tallied a part of the next commit.                      *)
Tallied == IF obs = <<>> THEN -1 ELSE Last(obs).prefix
Drained == OfferEnded /\ Tallied = NBatches - 1

(* After every poll, a failed one too, the run is over if it has drained,  *)
(* by a part of a commit perhaps, or has been idle for too long, which the *)
(* model allows at any time.                                               *)
Finalize ==
  /\ place \in {"evaluate", "failed"}
  /\ endMs' = clock /\ place' = "done"
  /\ UNCHANGED <<clock, world, doc, firstSeen, seen, obs, fails, records, polls>>

Sleep ==
  /\ place \in {"evaluate", "failed"} /\ ~Drained /\ Len(polls) < setup.polls
  /\ place' = "sleep"
  /\ UNCHANGED <<clock, world, doc, firstSeen, seen, obs, fails, records, polls, endMs>>

LagNext ==
  \/ TimePasses
  \/ ReadInputs \/ ScanAll \/ ScanFails \/ Finalize \/ Sleep

LagSpec == LagInit /\ [][LagNext]_lagVars
-----------------------------------------------------------------------------

Over == endMs # NoTime

(* What a reader of the table saw at an instant.                           *)
TrueCoverage(t) ==
  PrefixOf(UNION {commits[i].batches : i \in {j \in DOMAIN commits : commits[j].at <= t}})

(* The series on the scorer's clock never credits the table with more than *)
(* it held, and has all that a completed poll read from the moment it read *)
(* the metadata, however long the scan of the data files took.             *)
FirstSeenIsConservative ==
  Over => \A t \in GridPoints(endMs) :
    LET sampled == SampledPrefix(obs, "first_seen_ms", t) IN
      /\ sampled <= TrueCoverage(t)
      /\ \A i \in DOMAIN polls :
           polls[i].read <= t => Cover(polls[i].doc) <= sampled

(* The series on the table's clock may run ahead of or fall behind the     *)
(* table, and even recede, by no more than the writer's clock is off: it   *)
(* has every observed commit that is older than WriterSkew and came later  *)
(* than the commits before it by twice that. Without skew it is exact.     *)
TimestampWithinSkew ==
  Over => \A t \in GridPoints(endMs) :
    LET sampled == SampledPrefix(obs, "timestamp_ms", t) IN
      /\ sampled <= TrueCoverage(t + WriterSkew)
      /\ \A c \in 1 .. seen :
           /\ commits[c].at + WriterSkew <= t
           /\ \A e \in 1 .. c - 1 : commits[e].at + 2 * WriterSkew <= commits[c].at
           => Cover(c) <= sampled

(* The diagnostic covers the series: where no commit was stamped before    *)
(* its newest batch was acknowledged, no sampled lag is negative.          *)
UnsuspectedLagIsNotNegative ==
  Over /\ ~ClockSkewSuspected =>
    LET series == LagSeries("timestamp_ms", endMs) IN
      \A t \in DOMAIN series : series[t].lag = NoTime \/ series[t].lag >= 0

(* A run with a fresh verdict and a producer on schedule bounds how stale  *)
(* the table was for a reader: at every sampled instant of the window, a   *)
(* batch that was not visible had been acknowledged no longer than twice   *)
(* the bound and the allowed producer delay before. Acknowledgements that  *)
(* overtake each other make the delay necessary.                           *)
StalenessIsBounded ==
  Over /\ FreshnessResult(endMs).verdict /\ ~ProducerBound =>
    \A t \in {u \in GridPoints(endMs) : u >= Warmup} : \A b \in Batches :
      b > TrueCoverage(t + WriterSkew) /\ acked[b] # NoTime => acked[b] >= t - 2 * Bound - BehindMax

(* A verdict that fails has a condition that failed: a window always holds *)
(* a sample, so the last reason of _freshness_reason is never given.       *)
ReasonNamesFailure ==
  Over /\ ~FreshnessResult(endMs).verdict => FreshnessResult(endMs).reason # "no lag sample"

(* absorbed_at_offer_end is a conservative estimate (methodology.md): no   *)
(* more rows than the table held when the offer ended, whenever the polls  *)
(* came and however late the logs were uploaded.                           *)
AbsorbedIsConservative ==
  Over /\ Absorbed # NoTime =>
    Absorbed <= Cardinality(UNION {commits[i].batches :
                              i \in {j \in DOMAIN commits : commits[j].at <= OfferEndMs}})

(* drain_s ends no earlier than the table was complete, and no later than  *)
(* the first completed poll that read it complete, although the failed     *)
(* poll before may have observed it already.                               *)
DrainWithinPolling ==
  DrainedMs # NoTime =>
    /\ TrueCoverage(DrainedMs) = NBatches - 1
    /\ \A i \in DOMAIN polls :
         Cover(polls[i].doc) = NBatches - 1 => DrainedMs <= polls[i].read

(* The lag the gate reads after a poll is the one the scorer-clock series  *)
(* has at that instant ("matching lag_series", score.py:250).              *)
LiveLagMatchesSeries ==
  place = "evaluate" =>
    LiveLag = LagOf(Last(polls).at, SampledPrefix(obs, "first_seen_ms", Last(polls).at))

(* No figure drawn from the polls is better than the table was: what the   *)
(* series credit it with, on either clock, the rows absorbed by the end of *)
(* the offer, the time of the drain, and the lag the gate is given.        *)
FiguresAreConservative ==
  /\ FirstSeenIsConservative /\ LiveLagMatchesSeries
  /\ AbsorbedIsConservative /\ DrainWithinPolling
  /\ TimestampWithinSkew /\ UnsuspectedLagIsNotNegative

(* What a valid run promises a reader of the table about its staleness,    *)
(* and that a run which is not valid says why.                             *)
ValidRunBoundsStaleness == StalenessIsBounded /\ ReasonNamesFailure

-----------------------------------------------------------------------------
(* Why they hold: what every step preserves.                               *)
LagTypeOK ==
  /\ setup \in Setups /\ clock \in Nat
  /\ acked \in [Batches -> Nat \cup {NoTime}]
  /\ commits \in Seq([at : Nat, ts : Int, batches : SUBSET Batches])
  /\ place \in {"sleep", "scan", "evaluate", "failed", "done"}
  /\ doc \in 0 .. Len(commits) /\ firstSeen \in Nat /\ seen \in 0 .. Len(commits)
  /\ obs \in Seq([ts : Int, seen : Nat, prefix : -1 .. NBatches - 1])
  /\ fails \in Nat /\ records \subseteq Batches
  /\ polls \in Seq([at : Nat, read : Nat, doc : Nat, committed : Nat])
  /\ endMs \in Nat \cup {NoTime}

(* The truth: batches in time, commits in order, clocks within their skew. *)
WorldInOrder ==
  /\ \A b \in Batches : acked[b] # NoTime => b <= acked[b] /\ acked[b] <= clock
  /\ \A b \in records : acked[b] # NoTime
  /\ \A c \in DOMAIN commits :
       /\ commits[c].at <= clock
       /\ commits[c].at - WriterSkew <= commits[c].ts /\ commits[c].ts <= commits[c].at + WriterSkew
       /\ \A d \in DOMAIN commits : c < d => commits[c].at <= commits[d].at

(* A document lists what was committed by the time it was read.            *)
DocIsTheTable ==
  place = "scan" =>
    /\ seen <= doc /\ firstSeen <= clock
    /\ \A c \in DOMAIN commits : c <= doc <=> commits[c].at <= firstSeen

(* Observations are of commits, in the order of both; one made twice is of *)
(* the commit that comes next.                                             *)
ObservationsAreCommits ==
  /\ \A i \in DOMAIN obs :
       /\ \E c \in DOMAIN commits :
            /\ obs[i].ts = commits[c].ts /\ commits[c].at <= obs[i].seen
            /\ obs[i].prefix = Cover(c)
       /\ \A c \in DOMAIN commits : c > seen => obs[i].prefix <= Cover(c)
       /\ obs[i].seen <= clock /\ (place = "scan" => obs[i].seen <= firstSeen)
  /\ \A i, j \in DOMAIN obs : i < j => obs[i].seen <= obs[j].seen /\ obs[i].prefix <= obs[j].prefix
  /\ \A c \in 1 .. seen : \E i \in DOMAIN obs :
       obs[i].ts = commits[c].ts /\ obs[i].prefix = Cover(c)

(* With nothing left to scan, the last observation is the table's coverage.*)
UpToDate == IF obs = <<>> THEN seen = 0 ELSE obs[Len(obs)].prefix = Cover(seen)

CatchesUp ==
  /\ seen = Len(commits) => UpToDate
  /\ place = "scan" /\ seen = doc => UpToDate
  /\ place = "evaluate" => UpToDate /\ polls # <<>> /\ polls[Len(polls)].at = clock

(* What a poll read had been committed, and has been observed.             *)
PollIsObserved(s) ==
  /\ polls[s].read <= polls[s].at /\ polls[s].doc \in 0 .. Len(commits)
  /\ polls[s].committed = Cardinality(CommittedBy(polls[s].doc))
  /\ \A c \in 1 .. polls[s].doc : commits[c].at <= polls[s].read
  /\ \/ Cover(polls[s].doc) = -1
     \/ \E i \in DOMAIN obs :
          obs[i].seen <= polls[s].read /\ Cover(polls[s].doc) <= obs[i].prefix

PollsAreObserved == \A s \in DOMAIN polls : PollIsObserved(s)

LagInv ==
  /\ LagTypeOK /\ WorldInOrder /\ DocIsTheTable
  /\ ObservationsAreCommits /\ CatchesUp /\ PollsAreObserved
=============================================================================
