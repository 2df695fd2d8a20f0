# Verification of lakehouse-ingest-bench

The benchmark replays a corpus of row batches into a Kafka topic, lets a
streaming engine write them into an Iceberg table, and judges the run while it
goes: every offered row must arrive in the table exactly once, and soon enough.
The verdict rests on three parties that share no clock and no lock: the
producer shards, which log what the broker acknowledged; the engine, which
commits snapshots; and one scorer, which polls the logs and the table. These
modules model that core and what surrounds it, from the corpus to the published
result, from the source under `src/`.

## 1. The system

| Component | State it keeps | Operations | What makes it correct |
|---|---|---|---|
| Producer shards (`ingest_bench/producer`) | position in its share, librdkafka queue, delivery counts of a batch, local publish log and its copy in the object store | send a batch, serve delivery reports, flush, append a record, upload (throttled), trailer, stop on an error | the visible log never claims more than the topic holds; a trailer stands for the whole share |
| Scorer (`ingest_bench/scorer/score.py`) | records, offer ended, seen snapshots, applied files, tally, observations, failures, idle clock, artifacts | poll (logs, metadata, data files), retry, sample, drain/idle/void/failed ending, mirror | a file counts once; an ended offer is whole; a valid run is exact; it ends |
| Tally and exactness (`scorer/tally.py`, `exactness.py`) | row count and checksum per batch, prefix | add the identifiers of a file, report violations | agrees with the multiset of rows read |
| Freshness and keep-up (`scorer/freshness.py`, `keepup.py`) | none (functions of observations, samples and logs) | lag series, quantiles, absorption, drain, reasons | never kinder than the truth within the clocks' skew; the live lag agrees with the series |
| File geometry (`scorer/geometry.py`, `snapshots.py`) | none (functions of the metadata) | points at offsets, intervals, files added and live | each commit in one interval; a point shows no later commit; sizes count once |
| Gate (`scorer/gate.py`, `cli.py`, `scripts/gate.sh`) | breach count in a file | fetch summary and samples, verdict, tear down at the limit | a dead scorer is noticed; a pass resets the count |
| Run driver (`scripts/run.sh`, `launch.sh`, `teardown.sh`, `finish.sh`) | epoch, saved metadata, exit status | stage, launch, judge until an end, tear down, collect | ends by its deadline; never leaves a fleet unreported |
| Purge (`scripts/purge.sh`) | none | check, confirm, drop, remove | the catalog never names missing files; a purge that ends well has removed everything |
| Staging (`stage.py`, `kafka_admin.py`, `table/create.py`, `schema_registry.py`, `scripts/stage.sh`) | topic, table, subject, run directory, Job | create in steps, remove the topic on a failure, upload, fetch | what is fetched is one attempt's, with that attempt's topic and table |
| Engine verification (`engines/*/verify.py`, `k8s/fleet.py`, `scripts/stage.sh`) | waits and tries | wait for running, compare, capture the fleet | a managed run goes on only with the fleet it asked for |
| Flink sizing (`engines/flink`) | rendered files | read and validate knobs, render, start, verify | readers, writers and slots agree along every path they are passed down |
| Corpus (`ingest_bench/corpus`, `gen-corpus.sh`) | batch files, manifests, `corpus.json` | draw, encode, verify, write a shard, merge shards | `corpus.json` only over a whole corpus of one generation; sharding decides nothing |
| Collection and publication (`ingest_bench/collect`, `finish.sh`) | `results/`, `RESULTS.md` | fetch, collect, redact, check, write, render, validate | what CI accepts is sound and current |

How they interact. `launch.sh` starts the scorer first, waits for its first
poll, then starts the producer as an Indexed Job; both Jobs have
`backoffLimit: 0`, so a lost pod is never replaced. A shard writes rows to the
topic and uploads its publish log as one whole object each time. The scorer
lists and reads the logs, loads the table's metadata document, and reads the
identifier column of the files each new snapshot added. After every poll that
read everything it writes `summary.json` and uploads it; `gate.sh` fetches that
copy and decides whether the run goes on; `run.sh` loops over the gate until
the summary is final.

What is hard. Shards upload while the scorer is between two reads of the same
logs. A commit may be read in part when a read fails, and retried polls later,
or never, if the snapshot expires first. Compaction rewrites rows that were
already counted. A failing scorer and an idle engine look alike from the
outside. A shard may die with rows in the topic that no log records. A float64
carries the checksums. `PROJECT.json` lists every hazard with its line.

## 2. The modules

| Module | Models | Notes |
|---|---|---|
| `Replay` | `pacing.select_batches`, identifiers, the publish-log format | constants and their assumptions |
| `Offer` | the promise of the publish logs, abstractly | the scorer's environment, and what `Producer` implements |
| `Producer` | `producer/produce.py`, `publish_log.py` | one process per shard |
| `Table` | the Iceberg table and engine | external to the repository |
| `Tally` | what counts, checksums, coverage and exactness mean | functions of a ledger |
| `BatchTally` | `scorer/tally.py` as it computes them | checked against `Tally` |
| `Scorer` | `scorer/score.py`, reading `Offer` and `Table` | one process, one action per read or write |
| `Gate` | `scorer/gate.py`, `cli.py:gate`, the downloads of `gate.sh`, beside the scorer's samples and uploads | one gate, one scorer, two clocks |
| `RunDriver` | `run.sh`, `launch.sh`, `gate.sh`, `teardown.sh`, `finish.sh` | one process that may fail at every command, and the scorer's pod |
| `Lag` | `scorer/freshness.py`, `keepup.py`, the observations of `score.py` | two clocks |
| `Geometry` | `scorer/geometry.py`, `snapshots.py`, `cli.py:file-sizes` | beside a table that appends, rewrites, merges and expires |
| `Corpus` | `corpus/generate.py`, `merge.py`, `metadata.py`, `gen-corpus.sh` as writers of files | pods, merges, readers |
| `Figures` | records, truth, sampled statistics and gates of a corpus, and their merge | one process per shard |
| `Encoding` | `corpus/values.py`, `frames.py`, `verify_batch` | one batch, small words |
| `Calibration` | `calibrate_payload_width` | one computation, all small inputs |
| `Staging` | `stage.py` and what it calls, first half of `stage.sh` | attempts and drivers that race |
| `EngineCheck` | `verify-flink`, `verify-spark`, `engine-fleet`, second half of `stage.sh` | one script, a changing fleet |
| `FlinkJob` | `engines/flink/knobs.py`, `verify.py`, `compose.sh` | from the spec's block to the verified job |
| `Launch` | `launch.sh`, several times, with the clock | one script, the pods it left |
| `Purge` | `purge.sh`, the catalog, `teardown.sh` as far as it matters | several operators |
| `Publish` | `finish.sh`, `ingest_bench/collect` | several commands, days |
| `ProducerProofs`, `ScorerProofs`, `CorpusProofs` | theorems of the module named | need no bounds |
| `MeasuresProofs` | theorems of `Gate` and `Lag` | |
| `ScriptsProofs` | theorems of `RunDriver`, `Launch` and `Purge` | |
| `PreparationProofs` | theorems of `FlinkJob`, `Staging`, `EngineCheck` and `Publish` | what surrounds a run |
| `TallyProofs` | sums over finite sets and what they say of a ledger | used by `RowsProofs`, `ScorerProofs` |
| `RowsProofs` | theorems of `BatchTally`, `Calibration`, `Geometry` and `Figures` | what is counted and written row by row |
| `MCProducer`, `MCScorer`, `MCBatchTally`, `MCGate`, `MCRunDriver` | instances for TLC of the module named | their bounds and reductions |
| `MCRows` | `MCBatchTally`, `Encoding`, `Calibration`, `Figures`, `Geometry` | what is written and counted row by row |
| `MCMeasures` | `MCGate`, `Lag` | what is measured while a run goes on |
| `MCScripts` | `MCRunDriver`, `Launch`, `Purge` | the operator's scripts |
| `MCPrepare` | `FlinkJob`, `Corpus`, `Staging`, `EngineCheck`, `Publish` | what comes before a run and after it |

`Scorer` extends `Table` (hence `Offer`, `Replay`) and `Tally`: the three
parties are composed by interleaving. The producer enters through `Offer`, not
`Producer`: `ProducerRefinement` shows that whatever the program does to the
topic and the uploaded logs, `Offer` allows, so what holds of the scorer beside
`Offer` holds beside the program, and the scorer's state space is spared the
producer's queue.

`Gate` and `RunDriver` stand on the other side of the object store. Each has
its own, smaller scorer, which keeps only the uploads that side can see: the
samples and the summary in `Gate`, the order of the last uploads in
`RunDriver`. `RunDriver` takes the gate's verdict as arbitrary, so that what
holds of it holds for every verdict that `Gate` allows.

The other modules follow a run through its life. `Corpus`, `Figures`,
`Encoding` and `Calibration` are four views of a corpus: which files exist
when, what they say of the rows, the bytes of one batch, and the width of a
row. `Staging`, `EngineCheck` and `FlinkJob` are three of staging: the
resources, the script that waits for an engine, and what a verdict of
`verify-flink` means; `EngineCheck` takes "the settings are as asked" as a
fact, which `FlinkJob` takes apart. `Launch`, `RunDriver` and `Purge` are the
scripts around a run: the first has the clock and launches after the first, the
second follows one launch to the end, the third removes what is left. `Lag` and
`Geometry` compute the published figures, which `Publish` writes down.

### State and code

* A **row** is `<<batch, position>>`, as identifiers are `batch * ID_BLOCK + position`.
* A **publish log** is the set of its batch records and whether its last line
  is the trailer. A record keeps its batch, whether a delivery failed
  (`errors > 0`) and whether its first acknowledgement came later than
  `behind_max_ms` after its due time. Times and byte counts are left out.
* A **data file** is named by its snapshot and a number in it; it holds a set
  of rows. Duplicates are a row in two files: within one file `BatchTally`
  covers them.
* A **poll** of the scorer goes `list`, `trailers`, `records`, `load`, then
  `pick`/`tally`/`line` per snapshot, then `sample`, then `evaluate` (the tests
  of `run`'s loop). `toRead`, `doneSeen`, `newRecs`, `doc` and `current` are
  its locals; the other variables are `ScoreState`'s fields, the files
  `summary.json` on disk (`summary`) and in the object store (`mirrored`).
  `tallied` and, in `BatchTally`, `ledger` are history variables.
* The thread pool of `_apply_added_files` applies files one at a time in the
  order they complete: `TallyFile` takes any pending file.
* A failure is `PollFails`, possible wherever the code reads logs, metadata,
  manifests or data files, or appends to `snapshots.jsonl`. `SampleFails` is a
  failure after those, which the code does not retry.
* Time is `idle`, the ticks since the poll that last returned a new snapshot,
  up to `IdleStop`.

* In `Gate`, time is ticks of the gate's clock; the scorer's clock is `Skew`
  ahead. Rows are totals. `summary`/`samples` are the scorer's files,
  `upSummary`/`upSamples` their copies in the object store and
  `gotSummary`/`gotSamples` the gate's downloads, made in the order of
  `gate.sh`. `fault` stands for a summary whose state, `producer_bound` or
  `aborted` makes the verdict VOID. `diedAt` and `judgedAt` are history.
* In `RunDriver`, `pc` is the place in the scripts, `live` what stands in the
  cluster, `breaches` the file `gate-breaches`, `metadata` whether
  `table-metadata.final.json` exists, `caller` which script called
  `teardown.sh`. A failing `kubectl` or `aws` command may have had its effect
  or not; then the script dies, or goes on, as its `||` says. `remote` and
  `local` hold two artifacts: `summary.json`, which drives the loop, and
  `evidence`, which stands for the files written at the end and uploaded before
  it, in the order of names. `aws s3 sync` lists first and then copies object
  by object. `streak` and `lingered` are history.

* In `Lag`, `acked` and `commits` are the truth and `obs`, `polls`, `records`
  what the scorer kept of it (`polls` is `state.samples`). `setup` is what a run
  is set up with, chosen once: batches, warm-up, bounds, grid. A batch is one
  row. A commit's timestamp is off by up to `WriterSkew`, each commit's on its own.
  Failed polls (`place = "failed"`) meet the drain and idle tests as completed
  ones do (`score.py:584`), and the idle limit may be reached after any poll. A
  trailer is taken to be seen with its shard's last record; `Scorer` has the two
  passes that read them apart.
* In `Geometry`, `snapshots` is the metadata with its manifests, `log` the
  truth of every commit, and `survey` how the table is looked at (offsets, epoch,
  skew, bounds), chosen once. `legacy` is format version 1, whose snapshots have no
  sequence number; staging asks for version 2 (`stage.py:154`).
* In `Corpus`, `store` maps a directory to its files. A batch file is the
  variant it was generated from, a file of metadata the set of its contents
  (empty: not there). `pods` and `merges` are processes: a pod is at a file of
  `WriteOrder`, with the batches `todo` still to be written; a merge at a shard
  of the kind of file it reads. `generation` is the current `gen-corpus.sh`;
  its `alone` and `used`, and a merge's `clean`, are history. A file is written
  whole or not at all (`uri.write_bytes`).
* In `Figures`, `plan` is how a corpus is generated, `drawn` the rows of each
  batch, a function of seed, batch and position, `filling` the batch of a
  shard's loop and `figures` what it has counted. In `Encoding`, `stream`
  is what the counter streams yield; `fill`, `stored` and `record` are
  `fill_batch`'s result, the files and the manifest line. The code's 64-bit
  words and 7-bit varint groups are `WordBits` and `Bits`.
* In `Staging`, `topic` and `table` name the attempt that made them, which the
  real ones do not: it tells whose they are. `stored` is the run's prefix in
  the object store, file by file.
* In `EngineCheck`, `phase` is the fleet, `listed` the pod list as it was read.
* In `FlinkJob`, `knobs` is the block with its defaults, `extra` the overrides,
  `files` everything rendered, `up` the registered TaskManagers, `job` the graph
  the JobManager reports, `drift` the lines `verify-flink` prints. The committer
  is always one and is left out.
* In `Launch`, `scorer` and `producer` map a launch to its pod's state, `rows`
  are launches whose rows arrived, `baseline` what a first reading found.
* In `Purge`, an operator's process is at a place and knows what it has read;
  `catalog`, `files`, `artifacts`, `document` and `others` (the files of other
  tables) are what it acts on.
* In `Publish`, a result document carries its run, day and fields; `fact` is
  what is true of a run. A file that is not `whole` was truncated and not yet
  written. `past` is history: the runs somebody insisted on writing
  (`--publish-invalid`, or `collect --out` by hand), whether two commands ever
  overlapped, and whether the last one rendered `RESULTS.md`.

Which read sees what: a log is read whole by one request
(`uri.read_bytes`), so `ReadTrailer` and `ReadRecords` are atomic per log and
not across logs; both passes list the directory once, so a log that appears
after the listing waits for the next poll.

## 3. What TLC checks

Every property of a run has a mutant in `PROJECT.json`: a change of a modelled
definition, such as a bug would make, under which TLC finds the property
violated. The mutated forms stand before the definitions they replace.

Modules that share no state are instantiated together. `MCRows`, `MCMeasures`,
`MCScripts` and `MCPrepare` are sums: the variable `part` names, from the first
state on, the one instance a behaviour belongs to; its steps are the instance's,
and every other variable keeps one value (`Idle`, or the initial state of a part
that is extended). So
nothing is checked of a sum but what its parts do, the states of a sum are
those of its parts side by side, and a property of a sum is a conjunction of
`part = "..." => ...`, each conjunct a property of one part, or a property of a
component that is extended rather than instantiated, so that theorem and run
state the same definition. Where a component is reduced or bounded, it is so for
its own part only.

| Run | Module | Properties |
|---|---|---|
| `producer` | `MCProducer` | `TypeOK`, `TrailerMeansDelivered`, `OneOwnerPerBatch`, `LoggedBatchIsFinal`, `EveryShardStops`, `ImplementsOffer` |
| `tally` | `MCRows` | `MatchesLedger`, `SubstitutionDetected`, `ExactMeansNoFault`, `StoredIsDrawn`, `ClosestOfAll`, `FiguresAreTheRows`, `ReportIsTheTable` |
| `scorer_offer` | `MCScorer` | `OfferEndedIsWhole`, `ValidRunIsExact` |
| `scorer_commits` | `MCScorer` | `CountedOnce`, `HonestEngineIsExact`, `EvidenceOnlyGrows` |
| `scorer_ends` | `MCScorer` | `ScorerEnds` |
| `gate` | `MCMeasures` | `PassIsMeasured`, `CapacityAfterAdaptation`, `RecoveredIsNotUndersized`, `FiguresAreConservative`, `ValidRunBoundsStaleness` |
| `run_driver` | `MCScripts` | `TypeOK`, `NothingLeftUnreported`, `TornDownForCause`, `PublishedIsWhole`, `LaunchedRunEnds`, `ScoredFromTheStart`, `EpochIsOffered`, `OfferedInTime`, `SavedRunIsPurged` |
| `preparation` | `MCPrepare` | `VerifiedIsAsked`, `OwnSettingsAreNoDrift`, `CorpusIsWhole`, `MergedIsOneGeneration`, `FetchedIsStaged`, `ReturnedIsVerified`, `AcceptedIsSound` |
| `idle_stop_after_failed_polls`, `drained_after_half_read_commit`, `undersized_before_adaptation`, `last_upload_after_finish` | `MCScorer`, `MCGate`, `MCRunDriver` | one each, which the code violates: see Findings |

The properties whose names are not in the modules of the components:

* `FiguresAreTheRows` is `MergedStatsAreTheSample`, `TruthMatchesManifest` and
  `ShardingDoesNotDecide` of `Figures`: what shards counted and a merge put
  together is what the rows of the whole corpus say.
* `ReportIsTheTable`, of `Geometry` itself, joins `PointWithinSkew`,
  `EachCommitOnce`, `AddedIsWritten` and `LiveIsTheTable`.
* `FiguresAreConservative` is six properties of `Lag`: neither clock's series
  credits the table with what it did not hold, within the writer's skew; the
  rows absorbed, the drain time and the live lag agree with them.
  `ValidRunBoundsStaleness` is `StalenessIsBounded` with `ReasonNamesFailure`.
* `AcceptedIsSound`, of `Publish` itself, joins four: what CI accepts is sound
  (`ValidatedIsSound`); an invalid result was insisted on (`OnlyAskedIsInvalid`);
  no result lacks machine types but one collected by hand (`MachinesAreNamed`);
  after commands that ran one at a time, the last of which rendered, `RESULTS.md`
  is current (`CurrentWhenDone`). `CorpusIsWhole` is `ReadableIsWhole` and
  `PrintedIsWhole` of `Corpus`.
* `FetchedIsStaged`, of `Staging` itself, joins what a driver fetches with what
  a done attempt keeps (`StagedIsItsOwn`) and with which topics may be left
  behind (`LeftTopicIsExcused`): only those of attempts that were killed, whose
  creation was not answered or not visible in time, or whose deletion failed.
* `StoredIsDrawn` of `Encoding` includes, on either stream, that `generate` never
  rejects a batch of its own (`NeverRejected`).

The parts and their bounds:

| Part | Instance |
|---|---|
| `MCProducer` | 2 shards, 4 batches of which 3 are offered, one of three rows, queue of 2 |
| `MCScorer` | `scorer_offer`: 2 shards, 2 batches, 2 commits of one file; `scorer_commits`: 1 shard, 2 batches, 3 commits of up to 2 files; `scorer_ends`: 2 shards where 1 is expected, 1 commit |
| `MCRows` tally | batches of 3 and 2 rows, chunks of 2, 4-bit sums, files up to 3 rows, 5 rows in all |
| bytes, longs | 6-bit words, 2-bit groups, texts of 0 to 3 bytes, blocks of 1 to 3 rows; 5-bit words with the integer over its whole range |
| widths | quarters of a byte, targets around zero and around both prefix boundaries |
| sharded, blocks | 3 batches, 2 shards, 2 keys, 3 values, blocks of a row; 2 batches, blocks of 2 rows, stride 3 |
| points, manifests | 3 commits, offsets 0 and 1, skew 1, 2 ticks; 4 commits of every kind with a file each, no clock |
| `MCMeasures` gate | windows of 2 ticks, adaptation of 3 from an epoch at 1, staleness after 1, clock skew of -1, 3 rows, 5 ticks |
| polled, stamped, judged | 2 batches, 2 commits, skew 1, 2 polls and a failing one, 3 ticks; the same with 1 poll and 4 ticks; 3 batches, no skew, 6 ticks |
| `MCScripts` run | limit of 2 breaches, 7 ticks, an interval of 2, a managed engine |
| launch, purge | 2 launches, the second at any point, lead 3, slack 2, 10 ticks; 2 operators, 5 scripts in all |
| `MCPrepare` job | up to 2 TaskManagers of 2 slots, parallelism to 3, 2 partitions, 2 overrides, a loss, both sites |
| corpora | 3 batches, 2 seeds, 1 or 2 shards, 2 generations |
| merges, mixes | 3 batches, 2 or 3 shards, one seed; 3 batches, 2 shards, 2 seeds; 2 generations and a merge by hand of any shard directories |
| stages, drivers | 3 attempts at one run id; 2 attempts at 2 run ids and 2 drivers |
| check | either engine, 1 driver or JobManager, 2 workers of which 1 is wanted, waits of 2, 2 tries |
| alone, together | 1 run, 2 days, 3 commands of any kind one at a time; 2 runs, 2 finishing commands at once |

Why the bounds suffice. *Producer*: two shards are what it takes for one to
act between another's steps; a shard with two batches has a log that grows, is
skipped and grows again; a batch of three rows can fail in part and has one row
more than the queue holds, so its last send waits for a report that only `poll`
serves (were reports served by the final `flush` alone, the mutant of
`EveryShardStops`, it would wait forever); an unoffered batch makes the time limit visible. *Tally*: three
rows exceed a chunk and, unreduced, the mantissa; five rows let a substitution
(one lost, one twice) and a loss beside a duplicate occur. The mantissa is
scaled down with the chunk so that `ChunkRows * (P - 1) < 2^Mantissa` is tight,
which is the inequality the program's 4 000 000, 1 000 000 007 and 53 satisfy.
*Scorer*: two shards make the passes over the logs non-atomic; two commits are
enough for the table to change between a read and its retry, three for a
compaction and an expiry around a commit read in part; two files are the least
that can be read in part; two failures are the least bound that a success can
reset. *Gate*: the last tick lies beyond the adaptation period, and
`Adaptation = 2 * Window + Skew` is tight, so that one sample dated earlier
would break `CapacityAfterAdaptation`; three rows are the least to which a floor
can rise twice from above zero.
*RunDriver*: seven ticks at an interval of two are three gates before the
deadline, the least that allows a breach, a PASS and a breach, and a sleep that
the deadline cuts short; with two gates, a count that is never reset goes
unnoticed.

*Lag*: two commits let one be stamped before the one it follows; a failing and
a completing poll make a commit visible later than it is; a tick beyond
`BehindMax` makes a batch late. *Geometry*: three commits are an append, a
rewrite and an expiry between two points; four let a manifest be merged that
was merged before. *Corpus*: two generations let the second stop anywhere over
the first one's files, with pods of the first still writing; three batches over
two shards are a shard of two. *Figures*: the last batch of a shard follows
batches of the other, blocks and strides are coprime or equal, and a shard that
is alone applies the gates itself. *Encoding*: words
of 5 and 6 bits have varints of one, two and three groups, and `Low` is the
least integer there is, where zigzag uses every bit. *Calibration*: `Growths`
has both places at which the prefix grows, with targets on either side, where
the estimate is farthest off. *Staging*: three attempts at one run id are a
retry beside a race. *EngineCheck*: a retired worker, its replacement and one
that is not Guaranteed; two tries are one that is repeated. *FlinkJob*: two
TaskManagers make a fleet that can be there in part; the numbers reach beyond
what validation allows on each side; two overrides can contradict each other.
*Launch*: the wait for the first reading may use up lead and slack exactly.
*Purge*: two operators interleave at every place, and later scripts follow what
they left. *Publish*: two days distinguish an old document from a new one, two
runs a table with and without a row.

### Reductions and constraints

`MCScorer` cuts the state space in two ways. `Interleaving` is a reduction: the
scorer reads the logs only while listing and reading them, the table only at
`load` and its clock only at `evaluate`, and a step of the environment taken at
another place commutes with the scorer's up to the next such place. The
constraints `SmallWorld` and `GoodOffer` fix details: which batch may fail or
be late, and, where only the commits matter, a good offer and one-row files.
The liveness run and the violation runs use neither. `Interleaving` takes the
loss of a pod only before the final upload; `scorer_ends` has it everywhere.

`MCGate` cuts its own in two ways. `FirstVerdict`: a gate keeps nothing between
two invocations, so the first verdict of every behaviour stands for all.
`Interleaving`: rows are offered and committed where the next sample may still
see them, and between the downloads and the verdict only the clock and the end
of the scorer matter. `MCMeasures`'s `Bounded` bounds how long a scan and an
acknowledgement take and leaves out empty commits that change no figure.

`MCRows`'s `InTurn` takes shards one after another: they share nothing before
the merge. `MCPrepare`'s `Explored` stages one run where
attempts are by hand, and makes two attempts where machines start them; it lets the pods of a Job, which write to
different directories, work one after another where a merge by hand is looked
at, every interruption kept (`corpora` has them
interleaved, and leaves out failures after the last launch, which look to the
others like a process that takes no step any more); and of two runs
to be published at most one is other than good, in any one way. `alone` has
commands of every kind, none of which overlap, on one run over two days;
`together` two finishes at once on both. Its
symmetry exchanges the two seeds, the two drivers and the two finishing
commands, each a set of interchangeable processes or names. `MCProducer` and
`MCScripts` cut nothing.

What single modules simplify. `Staging`: every attempt uploads; one without
`--stamp` gets a run id of its own; a new topic is late only where the code
waits for it; the validation of local inputs changes nothing and is left to
`FlinkJob`. `EngineCheck`: the first wait and the wait for placement are one
counter; settings compare as one value; the endpoint's answers of one
verification are one step (two in `FlinkJob`, where the job may start over
between them). `FlinkJob`: unreadable answers are in `EngineCheck`; memory,
interval and mode are a value asked for and others. `Purge`: the purged run is
stopped, as the usage text asks. `Publish`: geometry and logs may be missing
from a document and are left out.

### Fairness

`Producer`: weak fairness of every shard. Each shard is a process of its own
that never waits for another; `librdkafka` reports on every message within
`message.timeout.ms`, and flush or the send loop return. Crashes are never
forced. `Scorer`: weak fairness of the scorer's process and of its clock. The
offer and the engine have none: producers may die and engines stop. Under
these assumptions `EveryShardStops` and `ScorerEnds` hold. `ScorerEnds` rests
also on the engine's commits being finite: an engine that commits for ever
without draining keeps the scorer going by design, and only `run.sh`'s
`RUN_MAX_S` ends such a run. `RunDriver`: weak fairness of the driver, which is
one process: the waits that the scripts program have deadlines, and that a
`kubectl` or `aws` command returns is assumed. The pod has none, so a scorer
that hangs or never publishes is included in `LaunchedRunEnds`. A wait for a key
before the launch, with an external engine, is before `launched`. The other
modules state no fairness: their properties are safety.

`CHECK_DEADLOCK FALSE` is set because every modelled program does stop: shards
end, the scorer exits and the environment runs out of batches and commits.

### Findings

*Failing reads can end as an idle engine.* `score.py:60` says that persistent
failures "must abort scoring instead of resembling an idle engine". `run` tests
the idle clock after a failed poll as after any other (line 586), and a failed
poll does not restart it. A scorer whose reads fail, slowly or with a short
`idle_stop_s`, ends `idle_stop` before its fifth failure. Run
`idle_stop_after_failed_polls`.

*A failed poll can end a run as drained.* "A partial poll must not advance
snapshot state; retry the whole commit" (`tests/test_score_loop.py:617`).
`_apply_added_files` counts files as they complete, and `run` tests for the
drain after a failed poll too (line 584). If the files counted before the
failure complete the prefix and the offer has ended, the run ends `drained`,
without the commit's other files. The verdict stays safe, because no
observation records the drained prefix: freshness fails and the run is invalid
(`ValidRunIsExact` holds). But its state says drained, its reason that the
table never drained, and duplicates in the unread files go unreported. Run
`drained_after_half_read_commit`.

*UNDERSIZED within the adaptation period.* "Capacity checks wait until the
adaptation period ends" (`docs/methodology.md:203`). The lag check does
(`gate.py:73`); the backlog check has no such condition (line 80). It waits in
effect because nothing is offered before the epoch and three rising windows
take two windows' time: with the defaults, 120 s and twice 60 s, exactly long
enough. A spec that sets `gate_window_s` below half of `gate_adaptation_s`
lets a fleet be called UNDERSIZED while it adapts, and so does a scorer whose
clock is behind the gate's. Run `undersized_before_adaptation`; theorem
`GateWaitsForCapacity` gives the condition.

*The last uploads may be missed.* "finish.sh fetches again to include any final
uploads" (`teardown.sh:149`). Deleting the scorer's Job (line 121) does not
wait for its pod, which may run on through its grace period and upload after
`finish.sh` has fetched. The run directory then keeps older artifacts than the
object store. Run `last_upload_after_finish`. `PublishedIsWhole` states what
does hold: a result published when the pod was gone before `finish.sh` began is
whole.

### Where the promises are narrower than they sound

Read while modelling; each is why a property says what it says and no more.

* The seed is not in a corpus's name (`preset.py:233`, against
  `gen-corpus.sh:27`): a corpus of another seed replaces the first.
  `CorpusIsWhole` speaks of a whole corpus, not of a given seed's.
* `merge.py` compares the seeds of the `corpus.json` files, not those of the
  manifests, and after a generation that stopped between the two files they can
  differ. `MergedIsOneGeneration` excludes such a shard directory.
* A topic that the broker made although its creation failed stays
  (`kafka_admin.py:109` is outside `stage.py`'s `try`): a retry with the same
  stamp is refused. `LeftTopicIsExcused` lists this with the other topics that
  stay, and says that no other failure leaves one.
* While Spark's executors are still placed, drift found earlier in the same
  verification is not reported (`verify.py:183`), so a fleet that never gets
  placed is retried to the end. `ReturnedIsVerified` is about returning.
* A purge without a saved metadata document that stopped after the drop reports
  nothing to purge at the retry. `SavedRunIsPurged` speaks of saved documents.
* `purge.sh:135` asks for the scorer's Job, and the pod of a deleted Job may
  still be stopping.
* A launch that failed after its producers were started leaves them to offer, so
  the first sample of the next launch has their rows. `ScoredFromTheStart`
  still holds, because rows of both epochs are scored; theorem
  `LaunchBaselineIsFree` has the condition.
* `table.py:54` says "not drained" of an invalid run whose state is `drained`.
* The checksum finds one substitution in a batch, not several: rows of a batch
  lost and others of it read twice can have the same sum of residues
  (`violations`, `exactness.py`). `SubstitutionDetected` speaks of one, and
  `ValidRunIsExact` of a batch that lost at most one row: the right number of
  its rows was read in any case. Both need batches no larger than the modulus
  (1 000 000 007 in the program), or two rows would have one residue.
* Locally `extra_flink_conf` does not override slots and memory, which come from
  `flink.env`. `VerifiedIsAsked` and theorem `Reaches` of `PreparationProofs` tell the sites apart.

## 4. What is proved

All theorems hold for every number of shards, batches and rows, under the
named assumptions of the modules that declare the constants.

*ProducerProofs.* `IInv` is inductive (`ProducerInvariant`). It has one part
for each thing a shard must not lose track of: `Accounted` (a share is split
between the batches logged, once each, and those to do), `InHand` (every row of
the batch being sent is unsent, in flight, acknowledged or failed, and no other
row is in flight), `Delivered` (a record without errors has its rows in the
topic), `StopsOnError`, `TrailedWhole` and `Ordered`. The properties are not
inductive alone: that a trailer means delivery needs that a failed batch ended
its shard, which needs the place of the process. The proof treats each step of
a shard on its own (`OwnStep`) and shows the others untouched
(`OthersUntouched`), using that shares are disjoint (`Shares`). From `IInv`
follow `ProducerTypeOK`, `ProducerTrailer`, `ProducerOwner`, `ProducerFinal`
(an action property) and `ProducerRefinement`: each step is a `Deliver`, a
`Publish` of that shard, or leaves the topic and the uploads alone.

*ScorerProofs.* `ScorerOfferWhole`: if the scorer expects the shards there are,
an ended offer is whole. `OfferInv` has `LogsKept` (what `Offer` maintains),
`PollKnows` (a shard seen done has a complete log, which the second pass has
still to read or has read) and `EndedKnows` (the records of an ended offer are
the union of all logs, and all are done; as done logs never change, no later
step can disturb that). Without the assumption `ExpectedShards = NShards`, set
by `launch.sh` from one variable, the theorem is false.
`ScorerCountsOnce` rests on `TallyInv`: `TalliedOnce` relates the ledger to the
files counted, and the files already applied of a commit under way to those
still to read; snapshots not seen are not counted except in part.
`ScorerEvidenceGrows` adds that what was observed is covered, so that the prefix
an observation records never falls. `ScorerFailsOnlyFaults`: a file counted once
by an engine that appends no row twice leaves no row read twice, and a drained
run has the count of every batch, so each row was read once and the checksum is
right. `ScorerValidIsExact` reads the same facts backwards, from the count and
the checksum of a complete batch to its rows, by `CompleteMeansOnce`; the run
checks it with one-row batches, the theorem has batches of any size up to `P`.

*TallyProofs.* The sums of `Tally` are the community modules' folds over sets.
`SumStep` (an element can be added to a sum) is derived from their definition:
`SumsExist` shows that a function with the fold's equations exists on the
subsets of a finite set, by `SubsetInduction`, which is induction over a set of
subsets and follows from the subset ordering being well-founded; `SumsUnique`
shows that there is one only. From `SumStep` follow monotonicity, sums
of sums, sums taken by classes (`SumByFibers`), and what count and checksum
say: a batch read right, row by row, is complete (`OnceIsComplete`); moving one
count from one row to another changes the checksum (`SubstitutionShows`, as row
positions differ by less than `P`); so a complete batch that lost at most one
row was read exactly once (`CompleteMeansOnce`).

*RowsProofs*, of `BatchTally`. `TallyMatchesLedger`: a file of any length, cut into chunks,
counted and summed chunk by chunk, in floats and reduced each time, gives the
counts, residues and prefix that the ledger of its rows has. The invariant is
`MatchesLedger` with the type invariant; the step follows the fold over the
chunks, slice by slice, with the residue of the sums so far. That no float loses
a bit rests on `ChunkRows * (P - 1) < 2^Mantissa`. `TallyDetectsSubstitution`
assumes batches no larger than `P`; `TallyExactMeansNoFault` assumes nothing.

*RowsProofs*, of `Calibration`. `WidthIsClosest` (`ClosestOfAll`): the three
candidates are enough. From the estimate, `GrownBy` of it bytes over by the
prefix, the correction lands where the prefix has grown as far or once less
(`GrowsOnce`: over a distance of at most the number of growths it grows once,
because the assumption keeps them as far apart, as 64, 8192, 1048576 ... are).
So the mean of the candidate below is at most the target, and no narrower width
is closer; that of the candidate above exceeds it, or misses it by at most half
a byte, and no wider width is closer, as means ascend by a byte at least
(`MeansAre`); for any parts of a byte, other columns, targets and growths.
It covers the rounding of halves to even (`RoundsToEven`) and the cut at zero.

*RowsProofs*, of `Geometry`. `GeometryIsTheTable` (`ReportIsTheTable`) for any
number of commits, files, offsets and ticks, any skew, both format versions. The
invariant says that what is read from a snapshot's manifests is what its
commit wrote and left (`ReadAsWritten`), which needs that an entry names a
snapshot no later than its own (`EntriesSettled`): then a later commit finds no
`added` entry of its own among those it carries over or merges (`CarriedFiles`,
`MergedFiles`), and `CommitKeeps` takes each kind of commit from there. Clocks
are near (`ClocksAreNear`) and commits in turn. The report sorts the snapshots:
that an order exists (`OrderIs`) is shown by ranks, which are a bijection; with
sequence numbers it is the order of the commits (`OrderIsCommits`). `PrefixIs`
and `PrefixGrows` say what an offset sees, `SinceIs` where a point's commits
begin. That the history ends at the first later timestamp is what puts a point
within one skew of its offset: the commit after it is later on the writers'
clock, whatever those behind it say.

*MeasuresProofs*, of `Gate`. `IInv` (`GateInvariant`) says that samples are dated by
the scorer's clock (`Dated`: none is of the future, none is of after the end of
the scorer, and one from before the epoch has no backlog), that the uploads and
downloads hold nothing else, and that a PASS rests on a recent sample
(`PassRestsOn`, needed because a scorer may end after it was passed). From it
follow `GatePassIsMeasured` and, under `WindowsReachBack`,
`GateWaitsForCapacity`: the oldest of three rising floors is above zero, so its
window holds a sample with a backlog, taken after the epoch. `GateSparesRecovered`
(`RecoveredIsNotUndersized`) turns the rise of three floors into a statement
about each sample of the windows: a floor is the least backlog of its window
(`FloorIsLeast`), and it rose twice by at least one row. Between
two invocations the gate's downloads are those its verdict rests on.

*MeasuresProofs*, of `Lag`. `LagInv` (`LagInductive`; TLC checked it first)
says that commits are in the order of their times and stamped within the skew
(`WorldInOrder`), that a document read by the scorer lists what was committed by
then (`DocIsTheTable`), and what observations are: each is of a commit, made
after it, in the order of both, and every commit scanned has one, although a
poll that failed may have observed the last one twice (`ObservationsAreCommits`).
`CatchesUp` (with nothing left to scan the last observation is the table's
coverage) and `PollsAreObserved` (what a completed poll read is observed no
later than it was read) are what the figures need. `FiguresConserve`
(`FiguresAreConservative`) compares each figure with the table. On the scorer's
clock the latest visible observation is also the last one made; on the table's
clock it need not be, and `TimestampConserves` shows that a commit twice the skew
after those before it is never stamped below one of them. `ValidRunBoundsStale`
(`ValidRunBoundsStaleness`) needs what a percentile of a series is:
`RankedIs` shows that a finite series has a value of every rank and that the
last bounds them all, so a `max` within its bound bounds the lag of every
sample of the window; the batch a reader misses is later than the one sampled,
and a producer on schedule acknowledged that one no later than `behind_max_ms`
after it was due. Both hold for any number of batches, commits, polls and
failures, any grid, warm-up and bounds, and any skew.

*RowsProofs*, of `Figures`. `FiguresAreOfTheRows` (`FiguresAreTheRows`) for any
plan: any number of batches, shards, keys and values, blocks of any size, any
budget, modulus, stride, sketch and tolerances. `FiguresInv` gives every piece
of the figures as a function of a set of rows or batches: a shard's are
`FiguresOf` its batches done and its rows sampled (`ShardsCount`), a merge's of
all of them (`MergedIsWhole`). A block adds its rows to the sample
(`BlockObserved`, `SampledAre`: the rows picked from a block are those whose
position in the corpus is a multiple of the stride), a batch its record and its
truth (`BatchCounted`), a shard both (`ShardAdds`); the sets are disjoint, since
a shard takes every n-th batch (`Turns`). The sketch is one because an element
dropped from it has enough smaller ones that stay (`SmallestTwice`,
`MergeAdds`). Truth and manifest agree because the checksum of a dense block is
the sum of an arithmetic series (`SeriesIs`), reduced once or at every step
(`SumResidue`), and rows by key are all rows (`BatchTruthIs`): so for any batch
what is accumulated by key is the closed form (`BatchChecksumsAgree`), the
assertion in `generate`. A refused shard had a batch too long, or was alone and
had the figures of the whole corpus (`OutcomesAre`). The folds over blocks and
shards are compared with what they should yield, on the prefixes of an interval
(`FoldsAgree`). TLC checked `FiguresInv` on the plans of the run first.

*ScriptsProofs*, for each of three modules. `IInv` of `RunDriver` (`RunDriverInvariant`) has
`Launching`, `Deleted` (which resources are gone at each place of
`teardown.sh`, and that saved metadata means nothing stands), `Counted` (the
file counts the streak; the gate is called below the limit only), `Uploaded`
(a final summary stands over final evidence) and `Fetched` (outside the grace
period, what is not still to be copied equals its object). The properties need
it because a gate's failed teardown is only logged: that nothing is left then
follows from the places `finish.sh` is reached from, either by saved metadata
or by a teardown of `run.sh`'s own. The
proof has a lemma per phase and covers every deadline, interval and limit, with
a managed engine and an external one. Theorems: `RunTypeOK`,
`RunReportsLeftovers`, `RunTornDownForCause`, `RunPublishesWhole`.

`LaunchInv` (`LaunchInvariant`) says for each place of `launch.sh` which of its
launch's pods may exist, that every launch before it is over or left its pods to
die, and how far the epoch is away. `LaunchScoredFromStart` (no row before the
scorer of its epoch has read) and `LaunchEpochIsOffered` hold for any number of
launches at any point; `LaunchOfferedInTime` uses that a step of the script
lasts less than the slack; `LaunchBaselineIsFree`, that the first sample is free
of rows (`BaselineIsFree`), needs the assumption that no run is launched again
after its offer.

`PurgeInv` (`PurgeInvariant`) relates what each operator of `purge.sh` has read
to what is still there: entries are dropped before files, once dropped they stay
dropped, and a saved document names the location for good. From it
`PurgeSavedIsPurged`, `PurgeNamedIsWhole` (`CatalogNamesFiles`: no reader finds
an entry without its files) and `PurgeOthersStay` (`OtherTablesStay`) follow for
any set of operators.

*PreparationProofs*, of `FlinkJob`. `IInv` says that the files are the rendering of
a valid block from staging on, that a job has the widths planned from them, and
what each reading of `verify-flink` has established by its place. `Plan`
computes the widths from the settings, `Cancel` turns "as many slots as the
fleet has" into "the whole fleet", and `NoTimeOut` shows that a job of its own
settings needs no more. `Asked` (`VerifiedIsAsked`) and `NoFalseDrift`
(`OwnSettingsAreNoDrift`) are also checked by the run `preparation`. `Filled`
(`EverySlotWrites`), `Accepted` (`ValidatedIsAccepted`) and `Reaches`
(`OverrideReachesDeployment`) are theorems only. All cover every block, every
set of overrides and any losses. What
Flink does with the files (planning, slot sharing, restarts) is assumed as
`Planned`, `Demand`, `Lose`, `Schedule` and `SlotsTimeOut` state it.

*PreparationProofs*, of what `stage.sh` does. `StagingInv` of `Staging` treats a topic's name as a lock: an
attempt from the topic's creation to its removal or completion holds the topic
(`HoldsTopic`), because it is created only where there is none and removed only
by an attempt's own cleanup. So two attempts beyond the creation are of
different runs (`HoldersDiffer`), and neither's table, subject or uploads can be
touched by another (`HoldsTable`, `IsRegistered`, `HasSent`: the files sent so
far carry this attempt's name). An attempt that failed where its cleanup can
act names no topic any more (`LeavesTopic`). What a driver reads once the Job is done is of an
attempt that is done (`ReadDone`), and a done attempt changes no more, whatever
Job has the name by then. `StagingFetchesWhole` (`FetchedIsStaged`) follows for
any number of attempts, run ids, machines and files. That attempts are numbered
in the order they begin is used by the model's fresh run ids only, not by the
proof. `EngineReturnsVerified` (`ReturnedIsVerified`) needs little: no verdict
but `OK` leads to the capture (`OkIsAsked`), the settings do not change, and the
capture counts the pods it writes down.

*CorpusProofs.* The invariant has one part for each claim, and one for types
(`CorpusTypes`). `Saved` is about a preset generated from one seed: a batch that
is there is of that seed, one that a pod has passed is there, and whatever a
manifest, a pod past its batches or a merge names was written, so it stays, for
rewriting it with the same seed changes nothing; that makes a readable corpus
whole in any interleaving, with any leftover process. `Cleanly` follows a merge
that started alone over complete directories: until it writes, nothing changes
them, as no pod works and each other merge is over; the records it has collected
are those of the `corpus.json` files it has read; all are of one seed once
`Accepts` holds, and cover the batches once `Covers` does; then each of its
three files is this union. `Undisturbed` follows a generation that nobody else
was alive to disturb: each pod's directory has just what that pod has written so
far, whatever was there before; when all pods are done every shard directory is
complete and of the generation's seed, so the merge is a clean one; and when
the URI is printed nobody is at work. A single shard needs no merge, and that
its records cover the batches takes a bijection between records and batches.
From the three follow `CorpusWhole` (`CorpusIsWhole`) and `MergedOneGeneration`
(`MergedIsOneGeneration`), for any number of batches, seeds, shard counts,
generations and merges by hand, over any directories. TLC checked the invariant
on the parts `corpora`, `merges` and `mixes` first.

*PreparationProofs*, of `Publish`. `PublishInv` says that the run directory holds
what is the run's (`RunDirTold`: a fleet in `run.json` is still the fleet a new
collection would find, a valid summary is the last), that every document in the
results directory, or about to be put back there, says what is true of its run
(`DocTold`), that what `finish.sh` has checked still holds when it writes, as
nothing it checked is ever taken back (`MayWrite`, `Onward`), and that while
commands do not overlap the rows a command has loaded are those of the documents
there (`OneAtATime`). `PublishAccepts` (`AcceptedIsSound`) follows for any runs,
commands, days, roots and facts, with any number of commands at a time.

Only model-checked: liveness under fairness (`EveryShardStops`, `ScorerEnds`,
`LaunchedRunEnds`), and `StoredIsDrawn` of `MCRows`. `Encoding` computes by
recursion over the data (varints, chunks, streams), and the provers cannot say
what a recursion yields for every input. The type invariants of
`Launch`, `Purge` and `FlinkJob` are proved (`LaunchTypeCorrect`,
`PurgeTypeCorrect`, `TypeCorrect`) and no run repeats them.

## 5. What is not modelled

* In `Scorer` whether the freshness quantiles meet their bounds is an arbitrary
  outcome of `Verdict`, and in `Gate` the lag of a summary is arbitrary; `Lag`
  has how they come about.
* A `gate-breaches` file that holds no number, two gates or teardowns run at
  once by operators (the breach file has no lock), and signals to the scripts.
* Distributions of the columns, schemas and key sidecars' loading. A mismatching
  key sidecar ends a shard like a crash.
* A relaunch with another number of shards over old publish logs.
* `_load_inputs` failing before the first poll: the scorer then ends without
  any artifact.
* Spark's rendering and driver program (`engines/spark/knobs.py`,
  `stream_to_iceberg.py`): conversion of settings to text and one call into
  Spark. Its verification is in `EngineCheck`.
* Parsing of run specifications and site configuration (`specs/`), SQL types,
  connector and security options, Terraform and manifests of `deploy/`, cost
  arithmetic, and the formatting of cells: no state, and no property looks at
  their text.

## 6. Plan

Done: every module of section 2. What would come next:

1. An abstract run (staged, offered, judged, torn down, collected) that
   `RunDriver` implements.
2. `FlinkJob`'s counterpart for Spark's fleet, whose pods' requests decide QoS.
