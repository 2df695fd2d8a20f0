-------------------------------- MODULE Scorer --------------------------------
(***************************************************************************)
(* The scorer (ingest_bench/scorer/score.py) beside the producer's logs    *)
(* and the table. Each poll lists the logs and reads them one by one for   *)
(* their completion trailers, lists and reads them again for their         *)
(* records, and then reads the table's metadata and the data files of      *)
(* every snapshot it has not seen, one file at a time; the shards and the  *)
(* engine go on meanwhile, and any read may fail.                          *)
(*                                                                         *)
(* Lag figures are left out: whether the freshness quantiles meet their    *)
(* bounds is an arbitrary outcome of _finalize. Time is the count idle of  *)
(* ticks since the last poll that returned a new snapshot, capped at       *)
(* IdleStop, the idle-stop limit.                                          *)
(***************************************************************************)
EXTENDS Table, Tally

CONSTANTS
  ExpectedShards,   \* --publish-shards
  MaxReadFailures,  \* MAX_CONSECUTIVE_READ_FAILURES
  IdleStop          \* idle_stop_s, in ticks

ASSUME ScorerAssumption ==
  /\ ExpectedShards \in Nat \ {0}
  /\ MaxReadFailures \in Nat \ {0}
  /\ IdleStop \in Nat \ {0}

VARIABLES
  pc,            \* where the scorer is
  toRead,        \* shards whose logs were listed and are still to be read
  doneSeen,      \* shards whose trailer this poll has seen
  newRecs,       \* records this poll has read
  doc,           \* snapshots in the metadata document this poll reads
  current,       \* the snapshot it is reading
  seenNew,       \* whether this poll has completed a new snapshot
  records,       \* state.records
  offerEnded,    \* state.offer_ended
  schema,        \* state.schema_mismatches: unchecked, match or mismatch
  seen,          \* state.seen
  applied,       \* state.applied_files
  ledger,        \* state.tally: how often each row was tallied
  observed,      \* prefix of the last of state.observations
  readFailures,  \* state.read_failures
  idle,          \* ticks since last_new_ms
  summary,       \* summary.json in the scorer's own directory
  mirrored,      \* summary.json in the object store
  tallied        \* history: every data file ever tallied

pollVars   == <<toRead, doneSeen, newRecs, doc, current>>
tallyVars  == <<schema, seen, applied, ledger, observed, tallied>>
scorerVars == <<pc, pollVars, seenNew, records, offerEnded, tallyVars,
                readFailures, idle, summary, mirrored>>
vars       == <<offerVars, tableVars, scorerVars>>

Expected      == 0 .. ExpectedShards - 1
NoObservation == -2

-----------------------------------------------------------------------------
(* ScoreState's derived figures.                                           *)
OfferedBatches == BatchesIn(records)

(* The last batch of the corpus, or, once the offer has ended, of those    *)
(* recorded; -1 if none was.                                               *)
LastBatch ==
  IF offerEnded
  THEN CHOOSE b \in OfferedBatches \cup {-1} : \A c \in OfferedBatches : c <= b
  ELSE NBatches - 1

ProducerBound == \E rec \in records : rec.late \/ rec.errors

NoSnapshot == 0

(* The data files of the snapshot being read that are not yet tallied. The *)
(* first definition is a mutant: a retry takes all of the files again.     *)
AllFiles == table[current].files
Pending  == table[current].files \ applied

(* The prefix of everything tallied; by the mutant, of this commit alone.  *)
PrefixOfCommit ==
  CoveredPrefix([r \in RowIds |-> Cardinality({f \in applied : r \in f.rows})])
Prefix == CoveredPrefix(ledger)

(* Only an append is tallied; by the mutant, every operation is.           *)
AnyOperation(n) == TRUE
IsAppend(n)     == table[n].op = "append"

(* Whether the offer has ended, tested once the records are read: by what  *)
(* the poll saw before it read them, or by the mutant, by what is visible  *)
(* now.                                                                    *)
TrailersNow  == \A s \in Expected : log[s].done
TrailersSeen == doneSeen = Expected

(* The idle clock after a poll: a poll with a new snapshot restarts it; by *)
(* the mutant, every poll does.                                            *)
EveryPollRestarts == 0
IdleAfterPoll     == IF seenNew THEN 0 ELSE idle

(* The bound on consecutive failures.                                     *)
GivesUp(failures) == failures >= MaxReadFailures

(* _write_summary of a run that did not end with a verdict: run_valid is   *)
(* false. Before the first poll that reads everything there is no summary. *)
Unfinished(state, aborted, reason) ==
  [state |-> state, aborted |-> aborted, valid |-> FALSE, reason |-> reason]
NoSummary == Unfinished("absent", FALSE, "none")
Running   == Unfinished("running", FALSE, "none")
-----------------------------------------------------------------------------
ScorerInit ==
  /\ pc = "list" /\ toRead = {} /\ doneSeen = {} /\ newRecs = {} /\ doc = {}
  /\ current = NoSnapshot
  /\ seenNew = FALSE /\ records = {} /\ offerEnded = FALSE
  /\ schema = "unchecked" /\ seen = {} /\ applied = {} /\ ledger = EmptyLedger
  /\ observed = NoObservation /\ readFailures = 0 /\ idle = 0
  /\ summary = NoSummary /\ mirrored = NoSummary /\ tallied = {}

(* A log is listed once its shard has uploaded it for the first time.      *)
Listed == {s \in Shards : log[s] # EmptyLog}

(* shards_done lists the logs and reads each of them, in some order.       *)
ListLogs ==
  /\ pc = "list"
  /\ toRead' = Listed
  /\ pc' = "trailers"
  /\ UNCHANGED <<doneSeen, newRecs, doc, current, seenNew, records, offerEnded, tallyVars,
                 readFailures, idle, summary, mirrored>>

ReadTrailer ==
  /\ pc = "trailers"
  /\ \E s \in toRead :
       /\ doneSeen' = IF log[s].done THEN doneSeen \cup {s} ELSE doneSeen
       /\ toRead'   = toRead \ {s}
  /\ UNCHANGED <<pc, newRecs, doc, current, seenNew, records, offerEnded, tallyVars,
                 readFailures, idle, summary, mirrored>>

(* Every trailer is read; one past the expected shards raises, so that the *)
(* poll can then only fail. Otherwise read_all lists the logs afresh.      *)
ListAgain ==
  /\ pc = "trailers" /\ toRead = {} /\ doneSeen \subseteq Expected
  /\ toRead' = Listed
  /\ pc' = "records"
  /\ UNCHANGED <<doneSeen, newRecs, doc, current, seenNew, records, offerEnded, tallyVars,
                 readFailures, idle, summary, mirrored>>

ReadRecords ==
  /\ pc = "records"
  /\ \E s \in toRead :
       /\ newRecs' = newRecs \cup log[s].recs
       /\ toRead'  = toRead \ {s}
  /\ UNCHANGED <<pc, doneSeen, doc, current, seenNew, records, offerEnded, tallyVars,
                 readFailures, idle, summary, mirrored>>

(* The records are kept, and the offer has ended if every expected shard   *)
(* was done before the records were read.                                  *)
TakeRecords ==
  /\ pc = "records" /\ toRead = {}
  /\ records'    = newRecs
  /\ offerEnded' = TrailersSeen
  /\ pc' = "load"
  /\ UNCHANGED <<pollVars, seenNew, tallyVars, readFailures, idle, summary, mirrored>>

(* An engine-owned table does not exist before its engine creates it.      *)
TableAbsent ==
  /\ pc = "load" /\ table = <<>>
  /\ pc' = "sample"
  /\ UNCHANGED <<pollVars, seenNew, records, offerEnded, tallyVars,
                 readFailures, idle, summary, mirrored>>

(* The first load checks the schema; a table that does not conform is not  *)
(* read any further.                                                       *)
LoadTable ==
  /\ pc = "load"
  /\ schema' = IF schema = "unchecked"
               THEN IF conforms THEN "match" ELSE "mismatch"
               ELSE schema
  /\ IF schema' = "mismatch"
     THEN pc' = "sample" /\ UNCHANGED doc
     ELSE pc' = "pick" /\ doc' = DOMAIN table \ expired
  /\ UNCHANGED <<toRead, doneSeen, newRecs, current, seenNew, records, offerEnded, seen, applied,
                 ledger, observed, tallied, readFailures, idle, summary, mirrored>>

(* added_files of the next unseen snapshot of the document, in commit      *)
(* order; only an append is tallied.                                       *)
PickSnapshot ==
  /\ pc = "pick"
  /\ \E n \in doc \ seen :
       /\ \A m \in doc \ seen : n <= m
       /\ current' = n
       /\ pc' = IF IsAppend(n) THEN "tally" ELSE "line"
  /\ UNCHANGED <<toRead, doneSeen, newRecs, doc, seenNew, records, offerEnded, tallyVars,
                 readFailures, idle, summary, mirrored>>

(* Every snapshot of the document is seen.                                 *)
ReadAll ==
  /\ pc = "pick" /\ doc \subseteq seen
  /\ pc' = "sample"
  /\ UNCHANGED <<pollVars, seenNew, records, offerEnded, tallyVars,
                 readFailures, idle, summary, mirrored>>

(* The reader pool completes a file: it is tallied, and remembered so that *)
(* a retry of the commit does not tally it again.                          *)
TallyFile ==
  /\ pc = "tally"
  /\ \E f \in Pending :
       /\ ledger'  = AddRows(ledger, f.rows)
       /\ applied' = applied \cup {f}
       /\ tallied' = tallied \cup {f}
  /\ UNCHANGED <<pc, pollVars, seenNew, records, offerEnded, schema, seen, observed,
                 readFailures, idle, summary, mirrored>>

(* Every file of the commit is tallied: the prefix is observed.            *)
Observe ==
  /\ pc = "tally" /\ Pending = {}
  /\ observed' = Prefix
  /\ pc' = "line"
  /\ UNCHANGED <<pollVars, seenNew, records, offerEnded, schema, seen, applied, ledger, tallied,
                 readFailures, idle, summary, mirrored>>

(* The snapshot's line is appended to snapshots.jsonl, and it is seen.     *)
SeeSnapshot ==
  /\ pc = "line"
  /\ seen'    = seen \cup {current}
  /\ applied' = {}
  /\ seenNew' = TRUE
  /\ pc'      = "pick"
  /\ UNCHANGED <<pollVars, records, offerEnded, schema, ledger, observed, tallied,
                 readFailures, idle, summary, mirrored>>

(* The locals of a poll end with it.                                       *)
EndPoll == toRead' = {} /\ doneSeen' = {} /\ newRecs' = {} /\ doc' = {} /\ current' = NoSnapshot

(* Where something can raise: every read of a log, the metadata, a         *)
(* manifest or a data file, and the append to snapshots.jsonl.             *)
MayFail ==
  \/ pc \in {"list", "trailers", "records", "load", "line"}
  \/ pc = "pick" /\ ~(doc \subseteq seen)
  \/ pc = "tally" /\ Pending # {}

(* The poll returns False and leaves sample and summary alone, until the   *)
(* bound on consecutive failures is reached. What was tallied stays.       *)
PollFails ==
  /\ MayFail
  /\ readFailures' = readFailures + 1
  /\ seenNew' = FALSE
  /\ pc' = IF GivesUp(readFailures') THEN "abort" ELSE "evaluate"
  /\ EndPoll
  /\ UNCHANGED <<records, offerEnded, tallyVars, idle, summary, mirrored>>

(* A poll that read everything appends its sample, writes the summary and  *)
(* mirrors both for the gate.                                              *)
Sample ==
  /\ pc = "sample"
  /\ readFailures' = 0
  /\ summary'  = Running
  /\ mirrored' = summary'
  /\ pc' = "evaluate"
  /\ EndPoll
  /\ UNCHANGED <<seenNew, records, offerEnded, tallyVars, idle>>

(* Writing them or uploading them is outside the retried reads: a failure  *)
(* ends the scoring.                                                       *)
SampleFails ==
  /\ pc = "sample"
  /\ readFailures' = 0
  /\ summary' \in {summary, Running}
  /\ pc' = "abort"
  /\ EndPoll
  /\ UNCHANGED <<seenNew, records, offerEnded, tallyVars, idle, mirrored>>

(* _finalize, for a loop that ended in the given way. The freshness verdict *)
(* needs a last observation at the last batch; within stands for its gap,  *)
(* quantile and maximum conditions.                                        *)
Verdict(ending, within) ==
  LET fresh == observed = LastBatch /\ within
      exact == Exact(ledger, OfferedBatches)
  IN
  [state   |-> IF ending # "void" /\ ProducerBound THEN "producer_bound" ELSE ending,
   aborted |-> ending = "idle_stop",
   valid   |-> ending = "drained" /\ fresh /\ exact /\ ~ProducerBound,
   reason  |-> CASE ending = "void"      -> "table schema mismatch"
                 [] ending = "idle_stop" -> "idle_stop_before_drain"
                 [] ending = "drained" /\ ProducerBound -> "producer_bound"
                 [] ending = "drained" /\ ~ProducerBound /\ ~exact -> "exactness"
                 [] OTHER -> IF fresh THEN "none" ELSE "freshness"]

(* The verdict is written to the scorer's disk; when a write fails, run's  *)
(* except clause marks it failed, unless that write fails as well.         *)
Finalize(ending) ==
  /\ \E within \in BOOLEAN :
       LET verdict == Verdict(ending, within) IN
       summary' \in {verdict, Unfinished(verdict.state, TRUE, "scorer_failed"), summary}
  /\ pc' = "mirror"
  /\ UNCHANGED <<pollVars, seenNew, records, offerEnded, tallyVars,
                 readFailures, idle, mirrored>>

Drained == offerEnded /\ Prefix = LastBatch

FinishVoid ==
  /\ pc = "evaluate" /\ schema = "mismatch"
  /\ Finalize("void")

FinishDrained ==
  /\ pc = "evaluate" /\ schema # "mismatch" /\ Drained
  /\ Finalize("drained")

(* A poll that returned new snapshots has just restarted the idle clock.   *)
FinishIdle ==
  /\ pc = "evaluate" /\ schema # "mismatch" /\ ~Drained
  /\ IdleAfterPoll >= IdleStop
  /\ Finalize("idle_stop")

(* Sleep until the next poll.                                              *)
Sleep ==
  /\ pc = "evaluate" /\ schema # "mismatch" /\ ~Drained
  /\ IdleAfterPoll < IdleStop
  /\ idle' = IdleAfterPoll
  /\ pc' = "list"
  /\ seenNew' = FALSE
  /\ UNCHANGED <<pollVars, records, offerEnded, tallyVars, readFailures, summary, mirrored>>

(* run's except clause, for the failure that ends the scoring.             *)
Abort ==
  /\ pc = "abort"
  /\ summary' \in {Unfinished("running", TRUE, "scorer_failed"), summary}
  /\ pc' = "mirror"
  /\ UNCHANGED <<pollVars, seenNew, records, offerEnded, tallyVars,
                 readFailures, idle, mirrored>>

(* run's finally clause; the upload may fail, and the process ends.        *)
MirrorEverything ==
  /\ pc = "mirror"
  /\ mirrored' \in {summary, mirrored}
  /\ pc' = "exited"
  /\ UNCHANGED <<pollVars, seenNew, records, offerEnded, tallyVars,
                 readFailures, idle, summary>>

(* The pod is lost; its Job does not start another.                        *)
Lost ==
  /\ pc # "exited"
  /\ pc' = "exited"
  /\ UNCHANGED <<pollVars, seenNew, records, offerEnded, tallyVars,
                 readFailures, idle, summary, mirrored>>

Tick ==
  /\ pc # "exited" /\ idle < IdleStop
  /\ idle' = idle + 1
  /\ UNCHANGED <<pc, pollVars, seenNew, records, offerEnded, tallyVars,
                 readFailures, summary, mirrored>>

ScorerStep ==
  \/ ListLogs \/ ReadTrailer \/ ListAgain \/ ReadRecords \/ TakeRecords
  \/ TableAbsent \/ LoadTable \/ PickSnapshot \/ ReadAll
  \/ TallyFile \/ Observe \/ SeeSnapshot \/ PollFails
  \/ Sample \/ SampleFails
  \/ FinishVoid \/ FinishDrained \/ FinishIdle \/ Sleep
  \/ Abort \/ MirrorEverything
-----------------------------------------------------------------------------
Init == OfferInit /\ TableInit /\ ScorerInit

Process     == ScorerStep /\ UNCHANGED <<offerVars, tableVars>>
Clock       == Tick /\ UNCHANGED <<offerVars, tableVars>>
PodLost     == Lost /\ UNCHANGED <<offerVars, tableVars>>
Environment ==
  \/ OfferNext /\ UNCHANGED <<tableVars, scorerVars>>
  \/ TableNext /\ UNCHANGED <<offerVars, scorerVars>>

Next == Process \/ Clock \/ PodLost \/ Environment

(* The scorer's process runs and its clock moves; producers and engine may *)
(* stop at any point.                                                      *)
Fairness == WF_vars(Process) /\ WF_vars(Clock)

Spec == Init /\ [][Next]_vars /\ Fairness
-----------------------------------------------------------------------------

SeenAppends == {n \in seen : table[n].op = "append"}

(* How often the scorer read a row, and the rows of a batch it never read. *)
Reads(r) == Cardinality({f \in tallied : r \in f.rows})
Unread(b) == {r \in RowsOf(b) : Reads(r) = 0}

(* A data file is counted once however many polls it took to read its      *)
(* commit, and seeing an append means having counted all of its files: the *)
(* point of seen and applied_files. A commit left half read is finished by *)
(* a later poll unless it expires first; then what was counted of it stays.*)
CountedOnce ==
  /\ \A r \in RowIds : ledger[r] = Reads(r)
  /\ UNION {table[n].files : n \in SeenAppends} \subseteq tallied
  /\ applied \subseteq tallied

(* Once the scorer takes the offer as ended, its records are the whole     *)
(* offer, delivered without an error: the trailers are read before the     *)
(* records, while the shards go on uploading.                              *)
OfferEndedIsWhole ==
  offerEnded =>
    /\ OfferedBatches = Offered
    /\ \A rec \in records : ~rec.errors /\ RowsOf(rec.batch) \subseteq topic

(* A run published as valid was offered whole and on schedule, each of its *)
(* batches was read in the right number of rows out of the files the       *)
(* engine appended, and no single row was lost for another: of a batch     *)
(* that lost at most one row, each was read in exactly one file            *)
(* (run_valid, _finalize). Substitutions of several rows may cancel in the *)
(* checksum.                                                               *)
ValidRunIsExact ==
  mirrored.valid =>
    /\ OfferedBatches = Offered /\ conforms
    /\ \A rec \in records : ~rec.errors /\ ~rec.late
    /\ \A b \in Offered :
         /\ RowsOf(b) \subseteq topic
         /\ Count([r \in RowIds |-> Reads(r)], b) = RowCount[b]
         /\ Cardinality(Unread(b)) <= 1 => \A r \in RowsOf(b) : Reads(r) = 1

(* An engine that commits no row twice is never failed on exactness by a   *)
(* drained run: what it had not committed yet keeps the run undrained, and *)
(* retries do not count a file again.                                      *)
HonestEngineIsExact ==
  LET appends == {n \in DOMAIN table : table[n].op = "append"}
      files   == UNION {table[n].files : n \in appends}
      honest  == \A r \in RowIds : Cardinality({f \in files : r \in f.rows}) <= 1
  IN  honest /\ summary.state = "drained" => summary.reason # "exactness"

(* What the scorer has established is never withdrawn by a later poll.     *)
EvidenceOnlyGrows ==
  [][/\ records \subseteq records'
     /\ offerEnded => offerEnded'
     /\ seen \subseteq seen'
     /\ observed <= observed']_vars

(* The scorer ends: drained, abandoned, void or failed.                    *)
ScorerEnds == <>(pc = "exited")

(* "Persistent failures must abort scoring instead of resembling an idle   *)
(* engine" (score.py): an idle stop is the finding of a poll that read     *)
(* everything. The code does not keep this: run tests the idle clock after *)
(* a failed poll too, and a failed poll does not restart it.               *)
IdleStopWasRead ==
  summary.state = "idle_stop" => readFailures = 0

(* "A partial poll must not advance snapshot state; retry the whole        *)
(* commit" (test_score_loop.py): a run does not end as drained with a      *)
(* commit read in part. The code does not keep this: run tests for the     *)
(* drain after a failed poll too, and the files tallied before the failure *)
(* may have completed the prefix; what the others duplicate is missed.     *)
DrainedReadWholeCommits ==
  summary.state = "drained" =>
    \A n \in DOMAIN table :
      table[n].files \cap applied # {} => table[n].files \subseteq applied
=============================================================================
