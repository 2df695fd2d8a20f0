---------------------------- MODULE ScorerProofs ----------------------------
(***************************************************************************)
(* Proofs about Scorer, for any number of shards, any corpus and any       *)
(* bounds on the engine: reading the trailers before the records makes the *)
(* records of an ended offer whole.                                        *)
(***************************************************************************)
EXTENDS Scorer, TallyProofs, TLAPS

(* What the logs promise: Offer's own invariant.                           *)
LogsKept ==
  /\ log \in [Shards -> Log]
  /\ \A s \in Shards : \A rec \in log[s].recs :
       ~rec.errors => RowsOf(rec.batch) \subseteq topic
  /\ \A s \in Shards : BatchesIn(log[s].recs) \subseteq Selected(s)
  /\ \A s \in Shards : log[s].done =>
       BatchesIn(log[s].recs) = Selected(s) /\ ~Faulty(log[s].recs)

(* What a poll knows of the logs: a shard seen done has a complete log,    *)
(* which the second pass has listed and, once its turn has come, read.     *)
PollKnows ==
  /\ \A s \in doneSeen : s \in Shards /\ log[s].done
  /\ newRecs \subseteq UNION {log[s].recs : s \in Shards}
  /\ toRead \subseteq Shards
  /\ pc = "records" =>
       \A s \in doneSeen \ toRead : log[s].recs \subseteq newRecs

(* The records of an ended offer are those of all logs, all complete.      *)
EndedKnows ==
  offerEnded =>
    /\ \A s \in Shards : log[s].done
    /\ records = UNION {log[s].recs : s \in Shards}

OfferInv == LogsKept /\ PollKnows /\ EndedKnows

(* A trailer that the shards promise: a published log keeps the promise.   *)
LEMMA PublishKeeps ==
  ASSUME LogsKept, NEW s \in Shards, Publish(s)
  PROVE  /\ LogsKept'
         /\ \A t \in Shards : log[t].recs \subseteq log'[t].recs
         /\ \A t \in Shards : log[t].done => log'[t] = log[t]
<1> DEFINE old == log[s].recs
<1>1. PICK sent \in SUBSET (Selected(s) \ BatchesIn(old)), done \in BOOLEAN :
        \E bad \in SUBSET sent, late \in SUBSET sent :
          /\ \A b \in sent : Before(s, b) \subseteq BatchesIn(old) \cup sent
          /\ \A b \in bad, c \in sent : c <= b
          /\ \A b \in sent \ bad : RowsOf(b) \subseteq topic
          /\ done => bad = {} /\ Selected(s) \subseteq BatchesIn(old) \cup sent
          /\ log' = [log EXCEPT ![s] =
               [recs |-> old \cup Lines(sent, bad, late), done |-> done]]
  BY DEF Publish
<1>2. PICK bad \in SUBSET sent, late \in SUBSET sent :
          /\ \A b \in sent \ bad : RowsOf(b) \subseteq topic
          /\ done => bad = {} /\ Selected(s) \subseteq BatchesIn(old) \cup sent
          /\ log' = [log EXCEPT ![s] =
               [recs |-> old \cup Lines(sent, bad, late), done |-> done]]
  BY <1>1
<1> DEFINE lines == Lines(sent, bad, late)
<1>3. log'[s].recs = old \cup lines /\ log'[s].done = done /\ topic' = topic
  BY <1>2 DEF LogsKept, Publish
<1>4. \A t \in Shards : t # s => log'[t] = log[t]
  BY <1>2 DEF LogsKept
<1>5. ~log[s].done /\ ~Faulty(old)
  BY DEF Publish
<1>6. Selected(s) \subseteq Batches
  BY ReplayAssumption DEF Selected, Offered, Batches
<1>7. \A rec \in lines : rec \in Record /\ rec.batch \in sent /\ (rec.errors => rec.batch \in bad)
                         /\ (~rec.errors => rec.batch \notin bad)
  <2> SUFFICES ASSUME NEW rec \in lines
               PROVE  /\ rec \in Record /\ rec.batch \in sent
                      /\ rec.errors => rec.batch \in bad
                      /\ ~rec.errors => rec.batch \notin bad
    OBVIOUS
  <2>1. PICK b \in sent : rec = [batch |-> b, errors |-> b \in bad, late |-> b \in late]
    BY DEF Lines
  <2>2. (b \in bad) \in BOOLEAN /\ (b \in late) \in BOOLEAN /\ b \in Batches
    BY <1>6
  <2>3. rec \in Record
    BY <2>1, <2>2 DEF Record
  <2>4. rec.batch = b /\ rec.errors = (b \in bad)
    BY <2>1
  <2>5. QED
    BY <2>3, <2>4
<1>8. BatchesIn(lines) = sent
  <2>1. \A b \in sent : \E rec \in lines : rec.batch = b
    <3> SUFFICES ASSUME NEW b \in sent PROVE \E rec \in lines : rec.batch = b
      OBVIOUS
    <3> DEFINE r == [batch |-> b, errors |-> b \in bad, late |-> b \in late]
    <3>1. r.batch = b
      OBVIOUS
    <3>2. r \in lines
      BY DEF Lines
    <3> HIDE DEF r
    <3>3. QED
      BY <3>1, <3>2
  <2>2. QED
    BY <1>7, <2>1 DEF BatchesIn
<1> HIDE DEF lines
<1>9. log' \in [Shards -> Log]
  <2>1. old \cup lines \in SUBSET Record
    BY <1>7 DEF LogsKept, Log
  <2>2. [recs |-> old \cup lines, done |-> done] \in Log
    BY <2>1 DEF Log
  <2>3. QED
    BY <1>2, <2>2 DEF LogsKept, lines
<1>10. \A t \in Shards : \A rec \in log'[t].recs :
         ~rec.errors => RowsOf(rec.batch) \subseteq topic'
  BY <1>2, <1>3, <1>4, <1>7 DEF LogsKept
<1>11. BatchesIn(log'[s].recs) = BatchesIn(old) \cup sent
  BY <1>3, <1>8 DEF BatchesIn
<1>12. BatchesIn(log'[s].recs) \subseteq Selected(s)
  BY <1>11 DEF LogsKept
<1>13. ASSUME done PROVE BatchesIn(log'[s].recs) = Selected(s) /\ ~Faulty(log'[s].recs)
  <2>1. ~Faulty(log'[s].recs)
    BY <1>2, <1>3, <1>5, <1>7, <1>13 DEF Faulty
  <2>2. QED
    BY <1>2, <1>13, <1>11, <1>12, <2>1
<1>14. LogsKept'
  <2>1. \A t \in Shards : BatchesIn(log'[t].recs) \subseteq Selected(t)
    BY <1>4, <1>12 DEF LogsKept
  <2>2. \A t \in Shards : log'[t].done =>
          BatchesIn(log'[t].recs) = Selected(t) /\ ~Faulty(log'[t].recs)
    BY <1>3, <1>4, <1>13 DEF LogsKept
  <2>3. QED
    BY <1>9, <1>10, <2>1, <2>2 DEF LogsKept, Selected, Offered, Faulty
<1>15. QED
  BY <1>3, <1>4, <1>5, <1>14

(* The environment: the offer only grows, and done logs stay.              *)
LEMMA OfferKeeps ==
  ASSUME LogsKept, OfferNext
  PROVE  /\ LogsKept'
         /\ topic \subseteq topic'
         /\ \A t \in Shards : log[t].recs \subseteq log'[t].recs
         /\ \A t \in Shards : log[t].done => log'[t] = log[t]
<1>1. CASE Deliver
  BY <1>1 DEF Deliver, LogsKept
<1>2. ASSUME NEW s \in Shards, Publish(s)
      PROVE  /\ LogsKept'
             /\ topic \subseteq topic'
             /\ \A t \in Shards : log[t].recs \subseteq log'[t].recs
             /\ \A t \in Shards : log[t].done => log'[t] = log[t]
  BY <1>2, PublishKeeps DEF Publish
<1>3. QED
  BY <1>1, <1>2 DEF OfferNext

LEMMA InitOfferInv == Init => OfferInv
BY DEF Init, OfferInit, TableInit, ScorerInit, OfferInv, LogsKept, PollKnows,
   EndedKnows, EmptyLog, Log, BatchesIn

(* A log that is done has been uploaded, so it is listed.                  *)
LEMMA DoneIsListed == \A s \in Shards : log[s].done => s \in Listed
BY DEF Listed, EmptyLog

(* Two passes over the logs.                                               *)
LEMMA PassesKeep ==
  ASSUME OfferInv, ListLogs \/ ReadTrailer \/ ListAgain \/ ReadRecords, UNCHANGED offerVars
  PROVE  OfferInv'
<1> USE DEF OfferInv, offerVars
<1>1. LogsKept'
  BY DEF LogsKept, Selected, Offered, Faulty, BatchesIn
<1>2. EndedKnows'
  BY DEF ListLogs, ReadTrailer, ListAgain, ReadRecords, EndedKnows
<1>3. CASE ListLogs
  BY <1>1, <1>2, <1>3 DEF ListLogs, PollKnows, Listed
<1>4. CASE ReadTrailer
  BY <1>1, <1>2, <1>4 DEF ReadTrailer, PollKnows
<1>5. CASE ListAgain
  <2>1. doneSeen \subseteq Listed
    BY DoneIsListed DEF PollKnows
  <2>2. PollKnows'
    BY <1>5, <2>1 DEF ListAgain, PollKnows, Listed
  <2>3. QED
    BY <1>1, <1>2, <2>2
<1>6. CASE ReadRecords
  <2>1. PICK s \in toRead :
          /\ newRecs' = newRecs \cup log[s].recs
          /\ toRead'  = toRead \ {s}
    BY <1>6 DEF ReadRecords
  <2>2. UNCHANGED <<pc, doneSeen, log>> /\ pc = "records"
    BY <1>6 DEF ReadRecords
  <2>3. PollKnows'
    BY <2>1, <2>2 DEF PollKnows
  <2>4. QED
    BY <1>1, <1>2, <2>3
<1>7. QED
  BY <1>3, <1>4, <1>5, <1>6

(* The offer is taken as ended only with every record of every log.        *)
LEMMA TakeRecordsKeeps ==
  ASSUME OfferInv, TakeRecords, UNCHANGED offerVars, ExpectedShards = NShards
  PROVE  OfferInv'
<1> USE DEF OfferInv, offerVars
<1>1. LogsKept'
  BY DEF LogsKept, Selected, Offered, Faulty, BatchesIn
<1>2. PollKnows'
  BY DEF TakeRecords, PollKnows, pollVars
<1>3. EndedKnows'
  <2> SUFFICES ASSUME offerEnded'
               PROVE  /\ \A s \in Shards : log[s].done
                      /\ newRecs = UNION {log[s].recs : s \in Shards}
    BY DEF EndedKnows, TakeRecords
  <2>1. doneSeen = Shards /\ toRead = {} /\ pc = "records"
    BY ExpectedShards = NShards DEF TakeRecords, TrailersSeen, Expected, Shards
  <2>2. \A s \in Shards : log[s].done /\ log[s].recs \subseteq newRecs
    BY <2>1 DEF PollKnows
  <2>3. UNION {log[s].recs : s \in Shards} \subseteq newRecs
    BY <2>2
  <2>4. QED
    BY <2>2, <2>3 DEF PollKnows
<1>4. QED
  BY <1>1, <1>2, <1>3

(* A step that reads no log and keeps, or forgets, what the poll has read. *)
LEMMA NoLogReadKeeps ==
  ASSUME OfferInv, UNCHANGED offerVars, UNCHANGED <<records, offerEnded>>,
         UNCHANGED <<toRead, doneSeen, newRecs>> \/ EndPoll,
         pc' = "records" => UNCHANGED <<pc, toRead, doneSeen, newRecs>>
  PROVE  OfferInv'
<1>1. LogsKept'
  BY DEF OfferInv, offerVars, LogsKept, Selected, Offered, Faulty, BatchesIn
<1>2. EndedKnows'
  BY DEF OfferInv, offerVars, EndedKnows
<1>3. PollKnows'
  BY DEF OfferInv, offerVars, PollKnows, EndPoll
<1>4. QED
  BY <1>1, <1>2, <1>3 DEF OfferInv

LEMMA ProcessKeeps ==
  ASSUME OfferInv, Process, ExpectedShards = NShards
  PROVE  OfferInv'
<1> USE DEF pollVars
<1>1. UNCHANGED offerVars
  BY DEF Process
<1>2. CASE ListLogs \/ ReadTrailer \/ ListAgain \/ ReadRecords
  BY <1>1, <1>2, PassesKeep
<1>3. CASE TakeRecords
  BY <1>1, <1>3, TakeRecordsKeeps
<1>4. CASE TableAbsent \/ LoadTable \/ PickSnapshot \/ ReadAll \/ TallyFile \/ Observe \/ SeeSnapshot
  BY <1>1, <1>4, NoLogReadKeeps
  DEF TableAbsent, LoadTable, PickSnapshot, ReadAll, TallyFile, Observe, SeeSnapshot
<1>5. CASE PollFails \/ Sample \/ SampleFails
  BY <1>1, <1>5, NoLogReadKeeps DEF PollFails, Sample, SampleFails
<1>6. CASE FinishVoid \/ FinishDrained \/ FinishIdle
  BY <1>1, <1>6, NoLogReadKeeps DEF FinishVoid, FinishDrained, FinishIdle, Finalize
<1>7. CASE Sleep \/ Abort \/ MirrorEverything
  BY <1>1, <1>7, NoLogReadKeeps DEF Sleep, Abort, MirrorEverything
<1>8. QED
  BY <1>2, <1>3, <1>4, <1>5, <1>6, <1>7 DEF Process, ScorerStep

LEMMA EnvironmentKeeps ==
  ASSUME OfferInv, Environment PROVE OfferInv'
<1>1. CASE OfferNext /\ UNCHANGED <<tableVars, scorerVars>>
  <2>1. /\ LogsKept' /\ \A t \in Shards : log[t].recs \subseteq log'[t].recs
        /\ \A t \in Shards : log[t].done => log'[t] = log[t]
    BY <1>1, OfferKeeps DEF OfferInv
  <2>2. UNCHANGED <<pc, toRead, doneSeen, newRecs, records, offerEnded>>
    BY <1>1 DEF scorerVars, pollVars
  <2>3. PollKnows'
    <3>1. newRecs \subseteq UNION {log'[s].recs : s \in Shards}
      BY <2>1 DEF OfferInv, PollKnows
    <3>2. \A s \in doneSeen : s \in Shards /\ log'[s].done /\ log'[s] = log[s]
      BY <2>1 DEF OfferInv, PollKnows
    <3>3. QED
      BY <2>2, <3>1, <3>2 DEF OfferInv, PollKnows
  <2>4. EndedKnows'
    <3> SUFFICES ASSUME offerEnded
                 PROVE  /\ \A s \in Shards : log'[s].done
                        /\ records = UNION {log'[s].recs : s \in Shards}
      BY <2>2 DEF EndedKnows
    <3>1. \A s \in Shards : log[s].done /\ log'[s] = log[s]
      BY <2>1 DEF OfferInv, EndedKnows
    <3>2. QED
      BY <3>1 DEF OfferInv, EndedKnows
  <2>5. QED
    BY <2>1, <2>3, <2>4 DEF OfferInv
<1>2. CASE TableNext /\ UNCHANGED <<offerVars, scorerVars>>
  BY <1>2, NoLogReadKeeps DEF scorerVars, pollVars
<1>3. QED
  BY <1>1, <1>2 DEF Environment

LEMMA NextOfferInv ==
  ASSUME ExpectedShards = NShards, OfferInv, [Next]_vars
  PROVE  OfferInv'
<1>1. CASE Process
  BY <1>1, ProcessKeeps
<1>2. CASE Environment
  BY <1>2, EnvironmentKeeps
<1>3. CASE Clock \/ PodLost \/ UNCHANGED vars
  BY <1>3, NoLogReadKeeps DEF Clock, PodLost, Tick, Lost, vars, scorerVars, pollVars
<1>4. QED
  BY <1>1, <1>2, <1>3 DEF Next

(* The whole offer is the union of the shares.                             *)
LEMMA EveryBatchSelected == Offered = UNION {Selected(s) : s \in Shards}
<1>1. \A b \in Offered : b % NShards \in Shards
  BY ReplayAssumption DEF Offered, Shards
<1>2. QED
  BY <1>1 DEF Selected

LEMMA EndedIsWhole == OfferInv => OfferEndedIsWhole
<1> SUFFICES ASSUME OfferInv, offerEnded
             PROVE  /\ OfferedBatches = Offered
                    /\ \A rec \in records : ~rec.errors /\ RowsOf(rec.batch) \subseteq topic
  BY DEF OfferEndedIsWhole
<1>1. /\ records = UNION {log[s].recs : s \in Shards}
      /\ \A s \in Shards : /\ BatchesIn(log[s].recs) = Selected(s)
                           /\ \A rec \in log[s].recs :
                                ~rec.errors /\ RowsOf(rec.batch) \subseteq topic
  BY DEF OfferInv, EndedKnows, LogsKept, Faulty
<1>2. OfferedBatches = UNION {Selected(s) : s \in Shards}
  <2>1. \A rec \in records : \E s \in Shards : rec.batch \in Selected(s)
    BY <1>1 DEF BatchesIn
  <2>2. \A s \in Shards : \A b \in Selected(s) : \E rec \in records : rec.batch = b
    BY <1>1 DEF BatchesIn
  <2>3. QED
    BY <2>1, <2>2 DEF OfferedBatches, BatchesIn
<1>3. QED
  BY <1>1, <1>2, EveryBatchSelected

(* A scorer that expects as many shards as there are never takes a partial *)
(* record list for the whole offer, however the shards' uploads fall       *)
(* between its reads (_read_inputs reads the trailers first).              *)
THEOREM ScorerOfferWhole ==
  ASSUME ExpectedShards = NShards
  PROVE  Spec => []OfferEndedIsWhole
BY EndedIsWhole, InitOfferInv, NextOfferInv, PTL DEF Spec

-----------------------------------------------------------------------------
(* The table: each file belongs to the snapshot that added it.             *)
File     == [snapshot : Nat, part : Nat, rows : SUBSET RowIds]
Snapshot == [op : {"append", "replace"}, files : SUBSET File]

TableInv ==
  /\ topic \subseteq RowIds
  /\ table \in Seq(Snapshot)
  /\ expired \subseteq DOMAIN table
  /\ \A n \in DOMAIN table : IsFiniteSet(table[n].files) /\ \A f \in table[n].files : f.snapshot = n

(* Snapshots a poll may still come to read.                                *)
Live == ((DOMAIN table \ expired) \cup doc) \ seen

(* Snapshots are read in commit order: nothing unseen lies behind a file   *)
(* already tallied, and a file of an unseen snapshot that is read again is *)
(* still remembered in applied.                                            *)
ReadInOrder ==
  /\ doc \subseteq DOMAIN table /\ seen \subseteq DOMAIN table
  /\ \A d \in doc, k \in DOMAIN table : k <= d /\ k \notin doc => k \in expired
  /\ pc \in {"tally", "line"} => current \in doc \ seen /\ \A m \in Live : current <= m
  /\ pc = "tally" => table[current].op = "append"
  /\ pc = "line" /\ table[current].op = "append" => table[current].files \subseteq applied

AppendFiles == UNION {table[n].files : n \in {k \in DOMAIN table : table[k].op = "append"}}

TalliedOnce ==
  /\ IsFiniteSet(tallied) /\ applied \subseteq tallied /\ tallied \subseteq AppendFiles
  /\ \A f \in tallied, m \in Live : f.snapshot <= m
  /\ \A f \in tallied \ applied : f.snapshot \notin Live
  /\ \A n \in SeenAppends : table[n].files \subseteq tallied
  /\ ledger = [r \in RowIds |-> Reads(r)]

TallyInv == TableInv /\ ReadInOrder /\ TalliedOnce

LEMMA InitTallyInv == Init => TallyInv
<1> SUFFICES ASSUME Init PROVE TallyInv
  OBVIOUS
<1> USE DEF Init, OfferInit, TableInit, ScorerInit
<1>1. TableInv
  BY DEF TableInv
<1>2. ReadInOrder
  BY DEF ReadInOrder
<1>3. \A r \in RowIds : Reads(r) = 0
  BY FS_EmptySet DEF Reads
<1>4. TalliedOnce
  BY <1>3, FS_EmptySet DEF TalliedOnce, SeenAppends, EmptyLedger, AppendFiles
<1>5. QED
  BY <1>1, <1>2, <1>4 DEF TallyInv

(* A commit adds a snapshot above all others; expiry only removes.         *)
LEMMA CommitKeeps ==
  ASSUME TallyInv, NEW s \in Snapshot, IsFiniteSet(s.files), \A f \in s.files : f.snapshot = Len(table) + 1,
         table' = Append(table, s), UNCHANGED <<topic, expired, scorerVars>>
  PROVE  TallyInv'
<1> DEFINE n == Len(table) + 1
<1>1. /\ n \in Nat /\ DOMAIN table' = DOMAIN table \cup {n} /\ n \notin DOMAIN table
      /\ table'[n] = s /\ \A k \in DOMAIN table : table'[k] = table[k] /\ k \in Nat /\ k < n
      /\ table' \in Seq(Snapshot)
  BY DEF TallyInv, TableInv
<1>2. UNCHANGED <<pc, doc, current, seen, applied, ledger, tallied, topic, expired>>
  BY DEF scorerVars, pollVars, tallyVars
<1> HIDE DEF n
<1>3. TableInv'
  BY <1>1, <1>2 DEF TallyInv, TableInv, n
<1>4. n \notin seen /\ n \notin expired /\ Live' = Live \cup {n} /\ n \notin Live
  BY <1>1, <1>2 DEF TallyInv, TableInv, ReadInOrder, Live
<1>5. Live \subseteq DOMAIN table
  BY DEF TallyInv, ReadInOrder, Live
<1>6. ReadInOrder'
  BY <1>1, <1>2, <1>4, <1>5 DEF TallyInv, ReadInOrder
<1>7. AppendFiles \subseteq AppendFiles'
  BY <1>1 DEF AppendFiles
<1>8. SeenAppends' = SeenAppends
  BY <1>1, <1>2 DEF SeenAppends, TallyInv, ReadInOrder
<1>9. \A f \in tallied : f.snapshot \in DOMAIN table
  BY DEF TallyInv, TalliedOnce, TableInv, AppendFiles
<1>10. ledger' = [r \in RowIds |-> Reads(r)']
  BY <1>2 DEF TallyInv, TalliedOnce, Reads
<1>11. TalliedOnce'
  BY <1>1, <1>2, <1>4, <1>7, <1>8, <1>9, <1>10 DEF TallyInv, TalliedOnce, SeenAppends, ReadInOrder
<1>12. QED
  BY <1>3, <1>6, <1>11 DEF TallyInv

LEMMA TableKeeps ==
  ASSUME TallyInv, TableNext, UNCHANGED <<offerVars, scorerVars>>
  PROVE  TallyInv'
<1>1. UNCHANGED <<topic, pc, doc, current, seen, applied, ledger, tallied>>
  BY DEF offerVars, scorerVars, pollVars, tallyVars
<1>2. Len(table) \in Nat
  BY DEF TallyInv, TableInv
<1>3. CASE AppendCommit
  <2>1. PICK parts \in 1 .. MaxFiles : \E content \in [1 .. parts -> (SUBSET topic) \ {{}}] :
          table' = Append(table, [op |-> "append", files |-> {NewFile(i, content[i]) : i \in 1 .. parts}])
    BY <1>3 DEF AppendCommit
  <2>2. PICK content \in [1 .. parts -> (SUBSET topic) \ {{}}] :
          table' = Append(table, [op |-> "append", files |-> {NewFile(i, content[i]) : i \in 1 .. parts}])
    BY <2>1
  <2> DEFINE files == {NewFile(i, content[i]) : i \in 1 .. parts}
             s == [op |-> "append", files |-> files]
  <2>3. \A i \in 1 .. parts : NewFile(i, content[i]) \in File /\ NewFile(i, content[i]).snapshot = Len(table) + 1
    BY <1>2 DEF NewFile, File, TallyInv, TableInv
  <2>4. \A f \in files : f \in File /\ f.snapshot = Len(table) + 1
    BY <2>3
  <2>9. IsFiniteSet(files)
    <3> DEFINE file == [i \in 1 .. parts |-> NewFile(i, content[i])]
    <3>1. files = {file[i] : i \in 1 .. parts}
      OBVIOUS
    <3>2. IsFiniteSet(1 .. parts)
      BY FS_Interval, TableAssumption
    <3> HIDE DEF file, files
    <3>3. QED
      BY <3>1, <3>2, ImageIsFinite
  <2> HIDE DEF files
  <2>5. s \in Snapshot /\ s.files = files
    BY <2>4 DEF Snapshot
  <2>6. table' = Append(table, s)
    BY <2>2 DEF files
  <2> HIDE DEF s
  <2>7. expired' = expired
    BY <1>3 DEF AppendCommit
  <2>8. QED
    BY <1>1, <2>4, <2>5, <2>6, <2>7, <2>9, CommitKeeps
<1>4. CASE Compact
  <2> DEFINE f == NewFile(1, Committed)
             s == [op |-> "replace", files |-> {f}]
  <2>1. Committed \subseteq RowIds
    <3>1. \A n \in DOMAIN table : table[n] \in Snapshot
      BY DEF TallyInv, TableInv
    <3>2. \A n \in DOMAIN table : \A g \in table[n].files : g.rows \subseteq RowIds
      BY <3>1 DEF Snapshot, File
    <3>3. QED
      BY <3>2 DEF Committed
  <2>2. f \in File /\ f.snapshot = Len(table) + 1
    BY <1>2, <2>1 DEF NewFile, File
  <2> HIDE DEF f
  <2>3. s \in Snapshot /\ s.files = {f}
    BY <2>2 DEF Snapshot
  <2>4. table' = Append(table, s) /\ expired' = expired
    BY <1>4 DEF Compact, f
  <2> HIDE DEF s
  <2>5. QED
    BY <1>1, <2>2, <2>3, <2>4, FS_Singleton, CommitKeeps
<1>5. CASE Expire
  <2>1. PICK n \in 1 .. Len(table) - 1 : expired' = expired \cup {n} /\ table' = table
    BY <1>5 DEF Expire
  <2>2. n \in DOMAIN table
    BY <2>1, <1>2 DEF TallyInv, TableInv
  <2>3. Live' \subseteq Live
    BY <1>1, <2>1 DEF Live
  <2>4. TableInv'
    BY <1>1, <2>1, <2>2 DEF TallyInv, TableInv
  <2>5. ReadInOrder'
    BY <1>1, <2>1, <2>3 DEF TallyInv, ReadInOrder
  <2>6. AppendFiles' = AppendFiles /\ SeenAppends' = SeenAppends
    BY <1>1, <2>1 DEF AppendFiles, SeenAppends
  <2>7. ledger' = [r \in RowIds |-> Reads(r)']
    BY <1>1 DEF TallyInv, TalliedOnce, Reads
  <2>8. TalliedOnce'
    BY <1>1, <2>1, <2>3, <2>6, <2>7 DEF TallyInv, TalliedOnce, SeenAppends
  <2>9. QED
    BY <2>4, <2>5, <2>8 DEF TallyInv
<1>6. QED
  BY <1>3, <1>4, <1>5 DEF TableNext

(* Steps that tally nothing and do not begin a commit.                     *)
LEMMA QuietKeeps ==
  ASSUME TallyInv, topic' \subseteq RowIds, UNCHANGED <<table, expired, seen, applied, ledger, tallied>>,
         UNCHANGED <<doc, current>> \/ EndPoll,
         pc' \in {"tally", "line"} => UNCHANGED <<pc, doc, current>>
  PROVE  TallyInv'
<1>1. doc' \subseteq doc /\ Live' \subseteq Live /\ (doc' = doc \/ doc' = {})
  BY DEF EndPoll, Live
<1>2. TableInv'
  BY DEF TallyInv, TableInv
<1>3. ReadInOrder'
  BY <1>1 DEF TallyInv, ReadInOrder
<1>4. AppendFiles' = AppendFiles /\ SeenAppends' = SeenAppends
  BY DEF AppendFiles, SeenAppends
<1>5. ledger' = [r \in RowIds |-> Reads(r)']
  BY DEF TallyInv, TalliedOnce, Reads
<1>6. TalliedOnce'
  BY <1>1, <1>4, <1>5 DEF TallyInv, TalliedOnce, SeenAppends
<1>7. QED
  BY <1>2, <1>3, <1>6 DEF TallyInv

LEMMA LoadKeeps ==
  ASSUME TallyInv, LoadTable, UNCHANGED <<offerVars, tableVars>>
  PROVE  TallyInv'
<1>1. UNCHANGED <<topic, table, expired, current, seen, applied, ledger, tallied>> /\ pc' \notin {"tally", "line"}
  BY DEF LoadTable, offerVars, tableVars
<1>2. CASE doc' = doc
  BY <1>1, <1>2, QuietKeeps DEF TallyInv, TableInv
<1>3. CASE doc' = DOMAIN table \ expired
  <2>1. Live' \subseteq Live
    BY <1>1, <1>3 DEF Live
  <2>2. TableInv'
    BY <1>1 DEF TallyInv, TableInv
  <2>3. ReadInOrder'
    BY <1>1, <1>3 DEF TallyInv, ReadInOrder
  <2>4. AppendFiles' = AppendFiles /\ SeenAppends' = SeenAppends
    BY <1>1 DEF AppendFiles, SeenAppends
  <2>5. ledger' = [r \in RowIds |-> Reads(r)']
    BY <1>1 DEF TallyInv, TalliedOnce, Reads
  <2>6. TalliedOnce'
    BY <1>1, <2>1, <2>4, <2>5 DEF TallyInv, TalliedOnce, SeenAppends
  <2>7. QED
    BY <2>2, <2>3, <2>6 DEF TallyInv
<1>4. QED
  BY <1>2, <1>3 DEF LoadTable

(* A commit begun is the first the poll has not seen.                      *)
LEMMA PickKeeps ==
  ASSUME TallyInv, PickSnapshot, UNCHANGED <<offerVars, tableVars>>
  PROVE  TallyInv'
<1>1. PICK n \in doc \ seen :
        /\ \A m \in doc \ seen : n <= m
        /\ current' = n
        /\ pc' = IF IsAppend(n) THEN "tally" ELSE "line"
  BY DEF PickSnapshot
<1>2. UNCHANGED <<topic, table, expired, doc, seen, applied, ledger, tallied>>
  BY DEF PickSnapshot, offerVars, tableVars, tallyVars
<1>3. \A m \in DOMAIN table : m \in Nat
  BY DEF TallyInv, TableInv
<1>4. \A m \in Live : n <= m
  BY <1>1, <1>3 DEF TallyInv, ReadInOrder, Live
<1>5. TableInv' /\ Live' = Live
  BY <1>2 DEF TallyInv, TableInv, Live
<1>6. ReadInOrder'
  BY <1>1, <1>2, <1>4, <1>5 DEF TallyInv, ReadInOrder, IsAppend
<1>7. AppendFiles' = AppendFiles /\ SeenAppends' = SeenAppends
  BY <1>2 DEF AppendFiles, SeenAppends
<1>8. ledger' = [r \in RowIds |-> Reads(r)']
  BY <1>2 DEF TallyInv, TalliedOnce, Reads
<1>9. TalliedOnce'
  BY <1>2, <1>5, <1>7, <1>8 DEF TallyInv, TalliedOnce, SeenAppends
<1>10. QED
  BY <1>5, <1>6, <1>9 DEF TallyInv

(* The file that is tallied has not been tallied before: it is of a commit *)
(* not yet seen, and those of its files that were are in applied.          *)
LEMMA TallyFileKeeps ==
  ASSUME TallyInv, TallyFile, UNCHANGED <<offerVars, tableVars>>
  PROVE  /\ TallyInv'
         /\ \A r \in RowIds : ledger[r] <= ledger'[r]
<1>1. PICK f \in table[current].files \ applied :
        /\ ledger'  = AddRows(ledger, f.rows)
        /\ applied' = applied \cup {f}
        /\ tallied' = tallied \cup {f}
  BY DEF TallyFile, Pending
<1>2. UNCHANGED <<topic, table, expired, pc, current, doc, seen>> /\ pc = "tally"
  BY DEF TallyFile, offerVars, tableVars, pollVars
<1>3. current \in doc \ seen /\ current \in Live /\ current \in DOMAIN table /\ \A m \in Live : current <= m
  BY <1>2 DEF TallyInv, ReadInOrder, Live
<1>4. f.snapshot = current /\ f \notin tallied
  BY <1>1, <1>3 DEF TallyInv, TableInv, TalliedOnce
<1>5. TableInv' /\ Live' = Live
  BY <1>2 DEF TallyInv, TableInv, Live
<1>6. ReadInOrder'
  BY <1>1, <1>2, <1>5 DEF TallyInv, ReadInOrder
<1>7. AppendFiles' = AppendFiles /\ SeenAppends' = SeenAppends
  BY <1>2 DEF AppendFiles, SeenAppends
<1>8. f \in AppendFiles
  BY <1>1, <1>2, <1>3 DEF AppendFiles, TallyInv, ReadInOrder
<1>9. ASSUME NEW r \in RowIds
      PROVE  /\ ledger[r] \in Nat /\ ledger[r] = Reads(r)
             /\ Reads(r)' = IF r \in f.rows THEN ledger[r] + 1 ELSE ledger[r]
  <2> DEFINE F == {g \in tallied : r \in g.rows}
  <2>1. IsFiniteSet(F)
    BY FS_Subset DEF TallyInv, TalliedOnce
  <2>2. ledger[r] = Cardinality(F) /\ Reads(r) = Cardinality(F)
    BY DEF TallyInv, TalliedOnce, Reads
  <2>3. Cardinality(F) \in Nat
    BY <2>1, FS_CardinalityType
  <2>4. ASSUME r \in f.rows PROVE Reads(r)' = ledger[r] + 1
    <3>1. {g \in tallied' : r \in g.rows} = F \cup {f} /\ f \notin F
      BY <1>1, <1>4, <2>4
    <3> HIDE DEF F
    <3>2. Cardinality(F \cup {f}) = Cardinality(F) + 1
      BY <2>1, <3>1, FS_AddElement
    <3>3. Reads(r)' = Cardinality(F \cup {f})
      BY <3>1 DEF Reads
    <3>4. QED
      BY <2>2, <3>2, <3>3
  <2>5. ASSUME r \notin f.rows PROVE Reads(r)' = ledger[r]
    <3>1. {g \in tallied' : r \in g.rows} = F
      BY <1>1, <2>5
    <3> HIDE DEF F
    <3>2. QED
      BY <2>2, <2>3, <2>5, <3>1 DEF Reads
  <2>6. QED
    <3> HIDE DEF F
    <3>1. QED
      BY <2>2, <2>3, <2>4, <2>5
<1>10. ledger' = [r \in RowIds |-> Reads(r)']
  BY <1>1, <1>9 DEF AddRows
<1>11. IsFiniteSet(tallied')
  BY <1>1, FS_AddElement DEF TallyInv, TalliedOnce
<1>12. TalliedOnce'
  BY <1>1, <1>3, <1>4, <1>5, <1>7, <1>8, <1>10, <1>11, <1>2 DEF TallyInv, TalliedOnce, SeenAppends
<1>13. \A r \in RowIds : ledger[r] <= ledger'[r]
  BY <1>9, <1>10
<1>14. QED
  BY <1>5, <1>6, <1>12, <1>13 DEF TallyInv

LEMMA ObserveKeeps ==
  ASSUME TallyInv, Observe, UNCHANGED <<offerVars, tableVars>>
  PROVE  TallyInv'
<1>1. UNCHANGED <<topic, table, expired, doc, current, seen, applied, ledger, tallied>>
      /\ pc = "tally" /\ pc' = "line" /\ table[current].files \subseteq applied
  BY DEF Observe, offerVars, tableVars, pollVars, Pending
<1>2. TableInv' /\ Live' = Live
  BY <1>1 DEF TallyInv, TableInv, Live
<1>3. ReadInOrder'
  BY <1>1, <1>2 DEF TallyInv, ReadInOrder
<1>4. AppendFiles' = AppendFiles /\ SeenAppends' = SeenAppends
  BY <1>1 DEF AppendFiles, SeenAppends
<1>5. ledger' = [r \in RowIds |-> Reads(r)']
  BY <1>1 DEF TallyInv, TalliedOnce, Reads
<1>6. TalliedOnce'
  BY <1>1, <1>2, <1>4, <1>5 DEF TallyInv, TalliedOnce, SeenAppends
<1>7. QED
  BY <1>2, <1>3, <1>6 DEF TallyInv

(* A commit is seen with all of its files tallied; files of an earlier one *)
(* left half read are of a snapshot that has expired.                      *)
LEMMA SeeKeeps ==
  ASSUME TallyInv, SeeSnapshot, UNCHANGED <<offerVars, tableVars>>
  PROVE  TallyInv'
<1>1. UNCHANGED <<topic, table, expired, doc, current, ledger, tallied>>
      /\ pc = "line" /\ pc' = "pick" /\ seen' = seen \cup {current} /\ applied' = {}
  BY DEF SeeSnapshot, offerVars, tableVars, pollVars
<1>2. current \in Live /\ current \in DOMAIN table /\ \A m \in Live : current <= m
  BY <1>1 DEF TallyInv, ReadInOrder, Live
<1>3. TableInv' /\ Live' = Live \ {current}
  BY <1>1 DEF TallyInv, TableInv, Live
<1>4. ReadInOrder'
  BY <1>1, <1>2, <1>3 DEF TallyInv, ReadInOrder
<1>5. \A f \in tallied : f.snapshot \in DOMAIN table
  BY DEF TallyInv, TalliedOnce, TableInv, AppendFiles
<1>6. Live \subseteq DOMAIN table /\ \A m \in DOMAIN table : m \in Nat
  BY DEF TallyInv, TableInv, ReadInOrder, Live
<1>7. \A f \in tallied : f.snapshot \notin Live \ {current}
  BY <1>2, <1>5, <1>6 DEF TallyInv, TalliedOnce
<1>8. AppendFiles' = AppendFiles
  BY <1>1 DEF AppendFiles
<1>9. \A n \in SeenAppends' : table[n].files \subseteq tallied
  BY <1>1 DEF TallyInv, TalliedOnce, ReadInOrder, SeenAppends
<1>10. ledger' = [r \in RowIds |-> Reads(r)']
  BY <1>1 DEF TallyInv, TalliedOnce, Reads
<1>11. TalliedOnce'
  BY <1>1, <1>3, <1>7, <1>8, <1>9, <1>10 DEF TallyInv, TalliedOnce
<1>12. QED
  BY <1>3, <1>4, <1>11 DEF TallyInv

LEMMA ProcessTallyKeeps ==
  ASSUME TallyInv, Process
  PROVE  TallyInv'
<1> USE DEF pollVars, tallyVars
<1>1. UNCHANGED <<offerVars, tableVars>> /\ UNCHANGED <<topic, table, expired>> /\ topic' \subseteq RowIds
  BY DEF Process, offerVars, tableVars, TallyInv, TableInv
<1>2. CASE ListLogs \/ ReadTrailer \/ ListAgain \/ ReadRecords \/ TakeRecords \/ TableAbsent \/ ReadAll
  BY <1>1, <1>2, QuietKeeps DEF ListLogs, ReadTrailer, ListAgain, ReadRecords, TakeRecords, TableAbsent, ReadAll
<1>3. CASE LoadTable
  BY <1>1, <1>3, LoadKeeps
<1>4. CASE PickSnapshot
  BY <1>1, <1>4, PickKeeps
<1>5. CASE TallyFile
  BY <1>1, <1>5, TallyFileKeeps
<1>6. CASE Observe
  BY <1>1, <1>6, ObserveKeeps
<1>7. CASE SeeSnapshot
  BY <1>1, <1>7, SeeKeeps
<1>8. CASE PollFails \/ Sample \/ SampleFails
  BY <1>1, <1>8, QuietKeeps DEF PollFails, Sample, SampleFails
<1>9. CASE FinishVoid \/ FinishDrained \/ FinishIdle
  BY <1>1, <1>9, QuietKeeps DEF FinishVoid, FinishDrained, FinishIdle, Finalize
<1>10. CASE Sleep \/ Abort \/ MirrorEverything
  BY <1>1, <1>10, QuietKeeps DEF Sleep, Abort, MirrorEverything
<1>11. QED
  BY <1>2, <1>3, <1>4, <1>5, <1>6, <1>7, <1>8, <1>9, <1>10 DEF Process, ScorerStep

LEMMA NextTallyInv ==
  ASSUME TallyInv, [Next]_vars
  PROVE  TallyInv'
<1>1. CASE Process
  BY <1>1, ProcessTallyKeeps
<1>2. CASE OfferNext /\ UNCHANGED <<tableVars, scorerVars>>
  <2>1. topic' \subseteq RowIds
    BY <1>2 DEF OfferNext, Deliver, Publish, TallyInv, TableInv
  <2>2. QED
    BY <1>2, <2>1, QuietKeeps DEF scorerVars, pollVars, tallyVars, tableVars
<1>3. CASE TableNext /\ UNCHANGED <<offerVars, scorerVars>>
  BY <1>3, TableKeeps
<1>4. CASE Clock \/ PodLost \/ UNCHANGED vars
  BY <1>4, QuietKeeps
  DEF Clock, PodLost, Tick, Lost, vars, scorerVars, pollVars, tallyVars, offerVars, tableVars, TallyInv, TableInv
<1>5. QED
  BY <1>1, <1>2, <1>3, <1>4 DEF Next, Environment

(* A data file is counted once, over any number of failed polls, commits   *)
(* and expiries (tally_commit, applied_files, seen).                       *)
THEOREM ScorerCountsOnce == Spec => []CountedOnce
<1>1. TallyInv => CountedOnce
  <2> SUFFICES ASSUME TallyInv PROVE CountedOnce
    OBVIOUS
  <2>1. \A r \in RowIds : ledger[r] = Reads(r)
    BY DEF TallyInv, TalliedOnce
  <2>2. UNION {table[n].files : n \in SeenAppends} \subseteq tallied
    BY DEF TallyInv, TalliedOnce
  <2>3. QED
    BY <2>1, <2>2 DEF CountedOnce, TallyInv, TalliedOnce
<1>2. QED
  BY <1>1, InitTallyInv, NextTallyInv, PTL DEF Spec

-----------------------------------------------------------------------------
(* What a poll that is under way will have read when it takes the records: *)
(* at least what the last one took, since logs only grow.                  *)
LogsReread ==
  /\ doneSeen \subseteq {s \in Shards : log[s].done} /\ toRead \subseteq Shards
  /\ newRecs \subseteq UNION {log[s].recs : s \in Shards}
  /\ records \subseteq UNION {log[s].recs : s \in Shards}
  /\ pc = "records" => records \subseteq newRecs \cup UNION {log[s].recs : s \in toRead}

(* An offer once ended is found ended again: its shards are seen done.     *)
EndReread ==
  offerEnded =>
    /\ Expected \subseteq {s \in Shards : log[s].done}
    /\ pc = "trailers" => Expected \subseteq doneSeen \cup toRead
    /\ pc = "records" => doneSeen = Expected

(* The prefix last observed is covered.                                    *)
ObservedIsCovered == observed \in -2 .. NBatches - 1 /\ observed <= Prefix

EvidenceInv == LogsKept /\ LogsReread /\ EndReread /\ TallyInv /\ ObservedIsCovered

LEMMA InitEvidenceInv == Init => EvidenceInv
<1> SUFFICES ASSUME Init PROVE EvidenceInv
  OBVIOUS
<1>1. LogsKept
  BY InitOfferInv DEF OfferInv
<1>2. TallyInv
  BY InitTallyInv
<1>3. LogsReread /\ EndReread
  BY DEF Init, ScorerInit, LogsReread, EndReread
<1>4. observed = -2 /\ Prefix \in -1 .. NBatches - 1 /\ NBatches \in Nat
  BY PrefixIsDefined, ReplayAssumption DEF Init, ScorerInit, NoObservation, Prefix
<1>5. ObservedIsCovered
  BY <1>4 DEF ObservedIsCovered
<1>6. QED
  BY <1>1, <1>2, <1>3, <1>5 DEF EvidenceInv

LEMMA LogsStayKept ==
  ASSUME LogsKept, [Next]_vars
  PROVE  /\ LogsKept'
         /\ \A t \in Shards : log[t].recs \subseteq log'[t].recs
         /\ \A t \in Shards : log[t].done => log'[t] = log[t]
<1>1. CASE OfferNext
  BY <1>1, OfferKeeps
<1>2. CASE UNCHANGED offerVars
  BY <1>2 DEF offerVars, LogsKept, Selected, Offered, Faulty, BatchesIn
<1>3. QED
  BY <1>1, <1>2 DEF Next, Process, Clock, PodLost, Environment, vars

LEMMA LedgerIsTyped == TallyInv => ledger \in Ledger
<1> SUFFICES ASSUME TallyInv PROVE ledger \in Ledger
  OBVIOUS
<1>1. ASSUME NEW r \in RowIds PROVE Reads(r) \in Nat
  <2>1. IsFiniteSet({f \in tallied : r \in f.rows})
    BY FS_Subset DEF TallyInv, TalliedOnce
  <2>2. QED
    BY <2>1, FS_CardinalityType DEF Reads
<1>2. QED
  BY <1>1 DEF Ledger, TallyInv, TalliedOnce

(* The ledger only grows.                                                  *)
LEMMA LedgerGrows ==
  ASSUME TallyInv, [Next]_vars
  PROVE  /\ ledger \in Ledger /\ ledger' \in Ledger
         /\ \A r \in RowIds : ledger[r] <= ledger'[r]
<1>1. TallyInv'
  BY NextTallyInv
<1>2. ledger = [r \in RowIds |-> Reads(r)] /\ ledger' = [r \in RowIds |-> Reads(r)']
  BY <1>1 DEF TallyInv, TalliedOnce
<1>3. \A r \in RowIds : Reads(r) \in Nat
  <2> SUFFICES ASSUME NEW r \in RowIds PROVE Reads(r) \in Nat
    OBVIOUS
  <2>1. IsFiniteSet({f \in tallied : r \in f.rows})
    BY FS_Subset DEF TallyInv, TalliedOnce
  <2>2. QED
    BY <2>1, FS_CardinalityType DEF Reads
<1>4. \A r \in RowIds : Reads(r)' \in Nat
  <2> SUFFICES ASSUME NEW r \in RowIds PROVE Reads(r)' \in Nat
    OBVIOUS
  <2>1. IsFiniteSet({f \in tallied' : r \in f.rows})
    BY <1>1, FS_Subset DEF TallyInv, TalliedOnce
  <2>2. QED
    BY <2>1, FS_CardinalityType DEF Reads
<1>5. ledger \in Ledger /\ ledger' \in Ledger
  BY <1>2, <1>3, <1>4 DEF Ledger
<1>6. CASE TallyFile /\ UNCHANGED <<offerVars, tableVars>>
  BY <1>5, <1>6, TallyFileKeeps
<1>7. CASE ledger' = ledger
  BY <1>5, <1>7 DEF Ledger
<1>8. ledger' = ledger \/ (TallyFile /\ UNCHANGED <<offerVars, tableVars>>)
  <2> USE DEF tallyVars
  <2>1. CASE Process
    <3>1. CASE TallyFile
      BY <2>1, <3>1 DEF Process
    <3>2. CASE ListLogs \/ ReadTrailer \/ ListAgain \/ ReadRecords \/ TakeRecords \/ TableAbsent \/ LoadTable
               \/ PickSnapshot \/ ReadAll \/ Observe \/ SeeSnapshot
      BY <3>2 DEF ListLogs, ReadTrailer, ListAgain, ReadRecords, TakeRecords, TableAbsent, LoadTable,
                  PickSnapshot, ReadAll, Observe, SeeSnapshot
    <3>3. CASE PollFails \/ Sample \/ SampleFails \/ FinishVoid \/ FinishDrained \/ FinishIdle \/ Sleep
               \/ Abort \/ MirrorEverything
      BY <3>3 DEF PollFails, Sample, SampleFails, FinishVoid, FinishDrained, FinishIdle, Finalize, Sleep,
                  Abort, MirrorEverything
    <3>4. QED
      BY <2>1, <3>1, <3>2, <3>3 DEF Process, ScorerStep
  <2>2. CASE Environment \/ UNCHANGED vars
    BY <2>2 DEF Environment, vars, scorerVars
  <2>3. CASE Clock \/ PodLost
    BY <2>3 DEF Clock, PodLost, Tick, Lost
  <2>4. QED
    BY <2>1, <2>2, <2>3 DEF Next
<1>9. QED
  BY <1>5, <1>6, <1>7, <1>8

(* Reading the logs: each step keeps what will have been read.             *)
LEMMA RereadKeeps ==
  ASSUME LogsKept, LogsReread, EndReread, UNCHANGED log,
         ListLogs \/ ReadTrailer \/ ListAgain \/ ReadRecords \/ TakeRecords
  PROVE  LogsReread' /\ EndReread' /\ records \subseteq records' /\ (offerEnded => offerEnded')
<1>1. \A s \in Shards : log[s].recs # {} \/ log[s].done => s \in Listed
  BY DEF Listed, EmptyLog
<1>2. Listed \subseteq Shards
  BY DEF Listed
<1>3. CASE ListLogs
  BY <1>1, <1>2, <1>3 DEF ListLogs, LogsReread, EndReread
<1>4. CASE ReadTrailer
  <2>1. PICK s \in toRead : /\ doneSeen' = IF log[s].done THEN doneSeen \cup {s} ELSE doneSeen
                            /\ toRead'   = toRead \ {s}
    BY <1>4 DEF ReadTrailer
  <2>2. UNCHANGED <<pc, newRecs, records, offerEnded>> /\ pc = "trailers"
    BY <1>4 DEF ReadTrailer
  <2>3. LogsReread'
    BY <2>1, <2>2 DEF LogsReread
  <2>4. EndReread'
    BY <2>1, <2>2 DEF EndReread, Expected
  <2>5. QED
    BY <2>2, <2>3, <2>4
<1>5. CASE ListAgain
  <2>1. UNCHANGED <<doneSeen, newRecs, records, offerEnded>> /\ pc' = "records" /\ toRead' = Listed
        /\ pc = "trailers" /\ toRead = {} /\ doneSeen \subseteq Expected
    BY <1>5 DEF ListAgain
  <2>2. records \subseteq UNION {log[s].recs : s \in Listed}
    BY <1>1, <1>2 DEF LogsReread
  <2>3. LogsReread'
    BY <1>2, <2>1, <2>2 DEF LogsReread
  <2>4. EndReread'
    BY <2>1 DEF EndReread, Expected
  <2>5. QED
    BY <2>1, <2>3, <2>4
<1>6. CASE ReadRecords
  <2>1. PICK s \in toRead : newRecs' = newRecs \cup log[s].recs /\ toRead' = toRead \ {s}
    BY <1>6 DEF ReadRecords
  <2>2. UNCHANGED <<pc, doneSeen, records, offerEnded>> /\ pc = "records"
    BY <1>6 DEF ReadRecords
  <2>3. LogsReread'
    BY <2>1, <2>2 DEF LogsReread
  <2>4. EndReread'
    BY <2>2 DEF EndReread, Expected
  <2>5. QED
    BY <2>2, <2>3, <2>4
<1>7. CASE TakeRecords
  <2>1. /\ records' = newRecs /\ offerEnded' = (doneSeen = Expected)
        /\ pc = "records" /\ toRead = {} /\ pc' = "load"
        /\ UNCHANGED <<toRead, doneSeen, newRecs>>
    BY <1>7 DEF TakeRecords, TrailersSeen, pollVars
  <2>2. LogsReread' /\ records \subseteq records'
    BY <2>1 DEF LogsReread
  <2>3. EndReread' /\ (offerEnded => offerEnded')
    BY <2>1 DEF EndReread, Expected, LogsReread
  <2>4. QED
    BY <2>2, <2>3
<1>8. QED
  BY <1>3, <1>4, <1>5, <1>6, <1>7

LEMMA NoRereadKeeps ==
  ASSUME LogsReread, EndReread, UNCHANGED <<records, offerEnded>>,
         \A t \in Shards : log[t].recs \subseteq log'[t].recs,
         \A t \in Shards : log[t].done => log'[t] = log[t],
         UNCHANGED <<toRead, doneSeen, newRecs>> \/ EndPoll,
         pc' \in {"trailers", "records"} => UNCHANGED <<pc, toRead, doneSeen, newRecs>>
  PROVE  LogsReread' /\ EndReread'
<1>1. \A S \in SUBSET Shards : UNION {log[s].recs : s \in S} \subseteq UNION {log'[s].recs : s \in S}
  OBVIOUS
<1>2. {s \in Shards : log[s].done} \subseteq {s \in Shards : log'[s].done}
  OBVIOUS
<1>3. doneSeen' \subseteq doneSeen /\ toRead' \subseteq toRead /\ newRecs' \subseteq newRecs
  BY DEF EndPoll
<1>4. LogsReread'
  <2>1. doneSeen' \subseteq {s \in Shards : log'[s].done} /\ toRead' \subseteq Shards
    BY <1>2, <1>3 DEF LogsReread
  <2>2. /\ newRecs' \subseteq UNION {log'[s].recs : s \in Shards}
        /\ records' \subseteq UNION {log'[s].recs : s \in Shards}
    BY <1>1, <1>3 DEF LogsReread
  <2>3. ASSUME pc' = "records"
        PROVE  records' \subseteq newRecs' \cup UNION {log'[s].recs : s \in toRead'}
    BY <1>1, <2>3 DEF LogsReread
  <2>4. QED
    BY <2>1, <2>2, <2>3 DEF LogsReread
<1>5. EndReread'
  BY <1>2 DEF EndReread, Expected
<1>6. QED
  BY <1>4, <1>5

(* No step withdraws what was established, and each keeps the invariant.   *)
LEMMA NextEvidence ==
  ASSUME EvidenceInv, [Next]_vars
  PROVE  /\ LogsReread' /\ EndReread' /\ records \subseteq records' /\ (offerEnded => offerEnded')
         /\ seen \subseteq seen' /\ (observed' = observed \/ (observed' = Prefix /\ ledger' = ledger))
<1> USE DEF EvidenceInv, pollVars, tallyVars
<1>1. /\ \A t \in Shards : log[t].recs \subseteq log'[t].recs
      /\ \A t \in Shards : log[t].done => log'[t] = log[t]
  BY LogsStayKept
<1>2. CASE Process
  <2>1. UNCHANGED log
    BY <1>2 DEF Process, offerVars
  <2>2. CASE ListLogs \/ ReadTrailer \/ ListAgain \/ ReadRecords \/ TakeRecords
    <3>1. UNCHANGED <<seen, observed>>
      BY <2>2 DEF ListLogs, ReadTrailer, ListAgain, ReadRecords, TakeRecords
    <3>2. QED
      BY <2>1, <2>2, <3>1, RereadKeeps
  <2>3. CASE TableAbsent \/ LoadTable \/ PickSnapshot \/ ReadAll \/ TallyFile \/ Observe \/ SeeSnapshot
    <3>1. /\ UNCHANGED <<records, offerEnded, toRead, doneSeen, newRecs>>
          /\ pc' \notin {"trailers", "records"}
          /\ seen \subseteq seen' /\ (observed' = observed \/ (observed' = Prefix /\ ledger' = ledger))
      BY <2>3 DEF TableAbsent, LoadTable, PickSnapshot, ReadAll, TallyFile, Observe, SeeSnapshot
    <3>2. QED
      BY <1>1, <3>1, NoRereadKeeps
  <2>4. CASE PollFails \/ Sample \/ SampleFails
    <3>1. /\ UNCHANGED <<records, offerEnded, seen, observed>> /\ EndPoll
          /\ pc' \notin {"trailers", "records"}
      BY <2>4 DEF PollFails, Sample, SampleFails
    <3>2. QED
      BY <1>1, <3>1, NoRereadKeeps
  <2>5. CASE FinishVoid \/ FinishDrained \/ FinishIdle \/ Sleep \/ Abort \/ MirrorEverything
    <3>1. /\ UNCHANGED <<records, offerEnded, seen, observed, toRead, doneSeen, newRecs>>
          /\ pc' \notin {"trailers", "records"}
      BY <2>5 DEF FinishVoid, FinishDrained, FinishIdle, Finalize, Sleep, Abort, MirrorEverything
    <3>2. QED
      BY <1>1, <3>1, NoRereadKeeps
  <2>6. QED
    BY <1>2, <2>2, <2>3, <2>4, <2>5 DEF Process, ScorerStep
<1>3. CASE Environment \/ Clock \/ PodLost \/ UNCHANGED vars
  <2>1. /\ UNCHANGED <<records, offerEnded, seen, observed, toRead, doneSeen, newRecs>>
        /\ pc' \in {"trailers", "records"} => UNCHANGED pc
    BY <1>3 DEF Environment, Clock, PodLost, Tick, Lost, vars, scorerVars
  <2>2. QED
    BY <1>1, <2>1, NoRereadKeeps
<1>4. QED
  BY <1>2, <1>3 DEF Next

LEMMA NextEvidenceInv ==
  ASSUME EvidenceInv, [Next]_vars
  PROVE  EvidenceInv' /\ observed <= observed'
<1>1. LogsKept' /\ LogsReread' /\ EndReread' /\ TallyInv'
  BY LogsStayKept, NextEvidence, NextTallyInv DEF EvidenceInv
<1>2. Prefix \in -1 .. NBatches - 1 /\ Prefix' \in -1 .. NBatches - 1 /\ Prefix <= Prefix'
  <2>1. ledger \in Ledger /\ ledger' \in Ledger /\ \A r \in RowIds : ledger[r] <= ledger'[r]
    BY LedgerGrows DEF EvidenceInv
  <2>2. CoveredPrefix(ledger) <= CoveredPrefix(ledger')
    BY <2>1, PrefixMonotonic
  <2>3. QED
    BY <2>2, PrefixIsDefined DEF Prefix
<1>3. observed \in -2 .. NBatches - 1 /\ observed <= Prefix /\ NBatches \in Nat
  BY ReplayAssumption DEF EvidenceInv, ObservedIsCovered
<1>4. observed' = observed \/ observed' = Prefix
  BY NextEvidence
<1>5. observed' \in -2 .. NBatches - 1 /\ observed' <= Prefix' /\ observed <= observed'
  BY <1>2, <1>3, <1>4
<1>6. QED
  BY <1>1, <1>5 DEF EvidenceInv, ObservedIsCovered

(* Polls that fail half-way, shards that upload meanwhile and snapshots    *)
(* that expire withdraw nothing the scorer has established.                *)
THEOREM ScorerEvidenceGrows == Spec => EvidenceOnlyGrows
<1>1. ASSUME EvidenceInv, [Next]_vars
      PROVE  [/\ records \subseteq records'
              /\ offerEnded => offerEnded'
              /\ seen \subseteq seen'
              /\ observed <= observed']_vars
  BY <1>1, NextEvidence, NextEvidenceInv
<1>2. QED
  BY <1>1, InitEvidenceInv, NextEvidenceInv, PTL DEF Spec, EvidenceOnlyGrows

-----------------------------------------------------------------------------
(* An honest engine: no row in two of the files it appended.               *)
Honest == \A r \in RowIds : Cardinality({f \in AppendFiles : r \in f.rows}) <= 1

NotFailedOnExactness == Honest /\ summary.state = "drained" => summary.reason # "exactness"

LEMMA AppendFilesAreFinite ==
  ASSUME NEW t \in Seq(Snapshot), \A n \in DOMAIN t : IsFiniteSet(t[n].files)
  PROVE  IsFiniteSet(UNION {t[n].files : n \in {k \in DOMAIN t : t[k].op = "append"}})
<1> DEFINE K == {k \in DOMAIN t : t[k].op = "append"}
           files == [k \in K |-> t[k].files]
           A == {files[k] : k \in K}
<1>1. K \in SUBSET (1 .. Len(t)) /\ Len(t) \in Nat
  OBVIOUS
<1>2. IsFiniteSet(K)
  <2> HIDE DEF K
  <2>1. IsFiniteSet(1 .. Len(t))
    BY <1>1, FS_Interval
  <2>2. QED
    BY <1>1, <2>1, FS_Subset
<1>3. \A F \in A : IsFiniteSet(F)
  OBVIOUS
<1>4. IsFiniteSet(A)
  <2> HIDE DEF K, files
  <2>1. QED
    BY <1>2, ImageIsFinite
<1>5. IsFiniteSet(UNION A)
  <2> HIDE DEF A
  <2>1. QED
    BY <1>3, <1>4, FS_UNION
<1>6. UNION A = UNION {t[n].files : n \in K}
  OBVIOUS
<1>7. QED
  BY <1>5, <1>6

(* The files appended only grow, so an engine honest now was honest.       *)
LEMMA HonestBefore ==
  ASSUME TallyInv, [Next]_vars, Honest' PROVE Honest
<1>1. AppendFiles \subseteq AppendFiles'
  <2>1. CASE AppendCommit \/ Compact
    <3>1. \E s : table' = Append(table, s)
      BY <2>1 DEF AppendCommit, Compact
    <3>2. \A n \in DOMAIN table : n \in DOMAIN table' /\ table'[n] = table[n]
      BY <3>1 DEF TallyInv, TableInv
    <3>3. QED
      BY <3>2 DEF AppendFiles
  <2>2. CASE table' = table
    BY <2>2 DEF AppendFiles
  <2>3. table' = table \/ AppendCommit \/ Compact
    BY DEF Next, Process, Clock, PodLost, Environment, vars, tableVars, TableNext, Expire
  <2>4. QED
    BY <2>1, <2>2, <2>3
<1>2. IsFiniteSet(AppendFiles')
  <2>1. table' \in Seq(Snapshot) /\ \A n \in DOMAIN table' : IsFiniteSet(table'[n].files)
    BY NextTallyInv DEF TallyInv, TableInv
  <2>2. QED
    BY <2>1, AppendFilesAreFinite DEF AppendFiles
<1>3. ASSUME NEW r \in RowIds PROVE Cardinality({f \in AppendFiles : r \in f.rows}) <= 1
  <2> DEFINE F == {f \in AppendFiles : r \in f.rows}
             G == {f \in AppendFiles' : r \in f.rows}
  <2>1. F \in SUBSET G /\ G \in SUBSET AppendFiles'
    BY <1>1
  <2>2. Cardinality(G) <= 1
    BY DEF Honest
  <2> HIDE DEF F, G
  <2>3. IsFiniteSet(G)
    BY <1>2, <2>1, FS_Subset
  <2>4. IsFiniteSet(F) /\ Cardinality(F) <= Cardinality(G) /\ Cardinality(F) \in Nat /\ Cardinality(G) \in Nat
    BY <2>1, <2>3, FS_Subset, FS_CardinalityType
  <2>5. Cardinality(F) <= 1
    BY <2>2, <2>4
  <2>6. QED
    BY <2>5 DEF F
<1>4. QED
  BY <1>3 DEF Honest

(* The records are of batches of the corpus, the last of which is the      *)
(* greatest of them.                                                       *)
LEMMA LastOfEndedOffer ==
  ASSUME LogsKept, LogsReread, offerEnded
  PROVE  /\ OfferedBatches \subseteq Batches
         /\ LastBatch \in OfferedBatches \cup {-1}
         /\ \A c \in OfferedBatches : c <= LastBatch
<1> DEFINE M == OfferedBatches \cup {-1}
<1>1. \A rec \in records : rec.batch \in Batches
  BY DEF LogsKept, LogsReread, Log, Record
<1>2. OfferedBatches \subseteq Batches
  BY <1>1 DEF OfferedBatches, BatchesIn
<1>3. M \in SUBSET Int /\ M # {} /\ NBatches \in Int /\ \A m \in M : m <= NBatches
  BY <1>2, ReplayAssumption DEF Batches
<1> HIDE DEF M
<1>4. \E m \in M : \A k \in M : k <= m
  BY <1>3, GreatestNumber
<1>5. \E m \in M : \A c \in OfferedBatches : c <= m
  BY <1>4 DEF M
<1>6. QED
  BY <1>2, <1>5 DEF LastBatch, M

(* Drained over an honest engine, the tally is exact.                      *)
LEMMA HonestIsExact ==
  ASSUME LogsKept, LogsReread, TallyInv, Honest, Drained
  PROVE  Exact(ledger, OfferedBatches)
<1>1. IsFiniteSet(AppendFiles) /\ tallied \subseteq AppendFiles
  BY AppendFilesAreFinite DEF TallyInv, TalliedOnce, TableInv, AppendFiles
<1>2. ASSUME NEW r \in RowIds PROVE ledger[r] \in Nat /\ ledger[r] <= 1
  <2> DEFINE F == {f \in tallied : r \in f.rows}
             G == {f \in AppendFiles : r \in f.rows}
  <2>1. F \in SUBSET G /\ G \in SUBSET AppendFiles
    BY <1>1
  <2>2. Cardinality(G) <= 1
    BY DEF Honest
  <2>3. ledger[r] = Cardinality(F)
    BY DEF TallyInv, TalliedOnce, Reads
  <2> HIDE DEF F, G
  <2>4. IsFiniteSet(G)
    BY <1>1, <2>1, FS_Subset
  <2>5. IsFiniteSet(F) /\ Cardinality(F) <= Cardinality(G) /\ Cardinality(F) \in Nat /\ Cardinality(G) \in Nat
    BY <2>1, <2>4, FS_Subset, FS_CardinalityType
  <2>6. QED
    BY <2>2, <2>3, <2>5
<1>3. ledger \in Ledger
  BY <1>2 DEF Ledger, TallyInv, TalliedOnce
<1>4. offerEnded /\ Prefix = LastBatch
  BY DEF Drained
<1>5. ASSUME NEW b \in OfferedBatches PROVE Complete(ledger, b)
  <2>1. b \in Batches /\ b <= Prefix
    BY <1>4, LastOfEndedOffer
  <2>2. Prefix \in -1 .. NBatches - 1 /\ \A c \in 0 .. Prefix : Covered(ledger, c)
    BY PrefixIsDefined DEF Prefix
  <2>3. Covered(ledger, b)
    BY <2>1, <2>2, ReplayAssumption DEF Batches
  <2>4. \A r \in RowsOf(b) : ledger[r] <= 1
    BY <1>2, <2>1, RowsAreFinite
  <2>5. \A r \in RowsOf(b) : ledger[r] = 1
    BY <1>3, <2>1, <2>3, <2>4, CoveredAtMostOnce
  <2>6. QED
    BY <1>3, <2>1, <2>5, OnceIsComplete
<1>6. QED
  BY <1>5 DEF Exact

(* What a step can write to the summary.                                   *)
LEMMA SummaryStep ==
  ASSUME [Next]_vars
  PROVE  \/ UNCHANGED summary
         \/ summary' \in {Running, Unfinished("running", TRUE, "scorer_failed")} /\ pc \in {"sample", "abort"}
         \/ \E ending \in {"void", "drained", "idle_stop"}, within \in BOOLEAN :
              /\ ending = "drained" => schema # "mismatch" /\ Drained
              /\ summary' \in {Verdict(ending, within), summary,
                               Unfinished(Verdict(ending, within).state, TRUE, "scorer_failed")}
              /\ pc = "evaluate" /\ pc' = "mirror"
<1>1. CASE Process
  <2>1. CASE ListLogs \/ ReadTrailer \/ ListAgain \/ ReadRecords \/ TakeRecords \/ TableAbsent \/ LoadTable
             \/ PickSnapshot \/ ReadAll \/ TallyFile \/ Observe \/ SeeSnapshot \/ PollFails
    BY <2>1 DEF ListLogs, ReadTrailer, ListAgain, ReadRecords, TakeRecords, TableAbsent, LoadTable,
                PickSnapshot, ReadAll, TallyFile, Observe, SeeSnapshot, PollFails
  <2>2. CASE Sample \/ SampleFails \/ Sleep \/ Abort \/ MirrorEverything
    BY <2>2 DEF Sample, SampleFails, Sleep, Abort, MirrorEverything
  <2>3. CASE FinishVoid
    <3>1. pc = "evaluate" /\ Finalize("void")
      BY <2>3 DEF FinishVoid
    <3>2. QED
      BY <3>1 DEF Finalize
  <2>4. CASE FinishDrained
    <3>1. pc = "evaluate" /\ schema # "mismatch" /\ Drained /\ Finalize("drained")
      BY <2>4 DEF FinishDrained
    <3>2. QED
      BY <3>1 DEF Finalize
  <2>5. CASE FinishIdle
    <3>1. pc = "evaluate" /\ Finalize("idle_stop")
      BY <2>5 DEF FinishIdle
    <3>2. QED
      BY <3>1 DEF Finalize
  <2>6. QED
    BY <1>1, <2>1, <2>2, <2>3, <2>4, <2>5 DEF Process, ScorerStep
<1>2. CASE Environment \/ Clock \/ PodLost \/ UNCHANGED vars
  BY <1>2 DEF Environment, Clock, PodLost, Tick, Lost, vars, scorerVars
<1>3. QED
  BY <1>1, <1>2 DEF Next

LEMMA NextNotFailed ==
  ASSUME EvidenceInv, NotFailedOnExactness, [Next]_vars
  PROVE  NotFailedOnExactness'
<1> SUFFICES ASSUME Honest', summary'.state = "drained" PROVE summary'.reason # "exactness"
  BY DEF NotFailedOnExactness
<1>1. Honest
  BY HonestBefore DEF EvidenceInv
<1>2. CASE summary' = summary
  BY <1>1, <1>2 DEF NotFailedOnExactness
<1>3. CASE summary' \in {Running, Unfinished("running", TRUE, "scorer_failed")}
  BY <1>3 DEF Running, Unfinished
<1>4. ASSUME NEW ending \in {"void", "drained", "idle_stop"}, NEW within \in BOOLEAN,
             ending = "drained" => schema # "mismatch" /\ Drained,
             summary' \in {Verdict(ending, within), summary,
                           Unfinished(Verdict(ending, within).state, TRUE, "scorer_failed")}
      PROVE  summary'.reason # "exactness"
  <2>1. CASE summary' = Unfinished(Verdict(ending, within).state, TRUE, "scorer_failed")
    <3> DEFINE st == Verdict(ending, within).state
    <3> HIDE DEF st
    <3>1. summary'.reason = "scorer_failed"
      BY <2>1 DEF Unfinished, st
    <3>2. QED
      BY <3>1
  <2>2. CASE summary' = Verdict(ending, within) /\ ending = "drained"
    <3>1. Exact(ledger, OfferedBatches)
      BY <1>1, <1>4, <2>2, HonestIsExact DEF EvidenceInv
    <3>2. QED
      BY <2>2, <3>1 DEF Verdict
  <2>3. CASE summary' = Verdict(ending, within) /\ ending # "drained"
    BY <2>3 DEF Verdict
  <2>4. QED
    BY <1>2, <1>4, <2>1, <2>2, <2>3
<1>5. QED
  BY <1>2, <1>3, <1>4, SummaryStep

(* A drained run fails on exactness only by a row that the engine really   *)
(* appended twice, or that it lost: a row not yet appended keeps the run   *)
(* undrained, and no retry of a failed read counts one again.              *)
THEOREM ScorerFailsOnlyFaults == Spec => []HonestEngineIsExact
<1>1. NotFailedOnExactness => HonestEngineIsExact
  BY DEF NotFailedOnExactness, HonestEngineIsExact, Honest, AppendFiles
<1>2. Init => NotFailedOnExactness
  BY DEF Init, ScorerInit, NotFailedOnExactness, NoSummary, Unfinished
<1>3. QED
  BY <1>1, <1>2, InitEvidenceInv, NextEvidenceInv, NextNotFailed, PTL DEF Spec

-----------------------------------------------------------------------------
(* What the scorer knows when it writes a valid verdict, and what stays    *)
(* true when it has: it reads no more.                                     *)
Established ==
  /\ offerEnded /\ ~ProducerBound /\ schema = "match" /\ conforms
  /\ Exact(ledger, OfferedBatches)

SchemaChecked ==
  /\ schema \in {"unchecked", "match", "mismatch"} /\ (schema = "match" => conforms)
  /\ pc \in {"pick", "tally", "line"} \/ observed # NoObservation => schema = "match"

ValidInv ==
  /\ SchemaChecked
  /\ summary.valid => pc \in {"mirror", "exited"} /\ Established
  /\ mirrored.valid => pc = "exited" /\ Established

LEMMA InitValidInv == Init => ValidInv
BY DEF Init, ScorerInit, ValidInv, SchemaChecked, NoSummary, Unfinished

LEMMA SchemaKeeps ==
  ASSUME SchemaChecked, [Next]_vars
  PROVE  SchemaChecked'
<1> USE DEF SchemaChecked, tallyVars, pollVars, tableVars
<1>1. CASE Process
  <2>1. conforms' = conforms
    BY <1>1 DEF Process
  <2>2. CASE ListLogs \/ ReadTrailer \/ ListAgain \/ ReadRecords \/ TakeRecords \/ TableAbsent
    BY <2>1, <2>2 DEF ListLogs, ReadTrailer, ListAgain, ReadRecords, TakeRecords, TableAbsent
  <2>3. CASE LoadTable
    BY <2>1, <2>3 DEF LoadTable
  <2>4. CASE PickSnapshot \/ ReadAll \/ TallyFile \/ Observe \/ SeeSnapshot
    BY <2>1, <2>4 DEF PickSnapshot, ReadAll, TallyFile, Observe, SeeSnapshot
  <2>5. CASE PollFails \/ Sample \/ SampleFails
    BY <2>1, <2>5 DEF PollFails, Sample, SampleFails
  <2>6. CASE FinishVoid \/ FinishDrained \/ FinishIdle \/ Sleep \/ Abort \/ MirrorEverything
    BY <2>1, <2>6 DEF FinishVoid, FinishDrained, FinishIdle, Finalize, Sleep, Abort, MirrorEverything
  <2>7. QED
    BY <1>1, <2>2, <2>3, <2>4, <2>5, <2>6 DEF Process, ScorerStep
<1>2. CASE Environment \/ UNCHANGED vars
  <2>1. UNCHANGED <<pc, schema, observed, conforms>>
    BY <1>2 DEF Environment, TableNext, AppendCommit, Compact, Expire, vars, scorerVars
  <2>2. QED
    BY <2>1
<1>3. CASE Clock \/ PodLost
  BY <1>3 DEF Clock, PodLost, Tick, Lost
<1>4. QED
  BY <1>1, <1>2, <1>3 DEF Next

(* Once the scorer has ended its loop, what it went by does not change.    *)
LEMMA EstablishedStays ==
  ASSUME Established, pc \in {"mirror", "exited"}, [Next]_vars
  PROVE  Established' /\ pc' \in {"mirror", "exited"} /\ (pc = "exited" => pc' = "exited")
<1>1. /\ UNCHANGED <<offerEnded, records, schema, ledger, conforms>>
      /\ pc' \in {"mirror", "exited"} /\ (pc = "exited" => pc' = "exited")
  <2> USE DEF tallyVars, pollVars, tableVars
  <2>1. CASE Process
    <3>1. MirrorEverything
      BY <2>1 DEF Process, ScorerStep, ListLogs, ReadTrailer, ListAgain, ReadRecords, TakeRecords, TableAbsent,
         LoadTable, PickSnapshot, ReadAll, TallyFile, Observe, SeeSnapshot, PollFails, MayFail, Sample,
         SampleFails, FinishVoid, FinishDrained, FinishIdle, Sleep, Abort
    <3>2. QED
      BY <2>1, <3>1 DEF Process, MirrorEverything
  <2>2. CASE Environment \/ UNCHANGED vars
    BY <2>2 DEF Environment, TableNext, AppendCommit, Compact, Expire, vars, scorerVars
  <2>3. CASE Clock \/ PodLost
    BY <2>3 DEF Clock, PodLost, Tick, Lost
  <2>4. QED
    BY <2>1, <2>2, <2>3 DEF Next
<1>2. QED
  BY <1>1 DEF Established, ProducerBound, Exact, OfferedBatches

(* What a step can mirror.                                                 *)
LEMMA MirrorStep ==
  ASSUME [Next]_vars
  PROVE  \/ UNCHANGED mirrored
         \/ mirrored' = Running
         \/ mirrored' = summary /\ summary' = summary /\ pc' = "exited"
<1>1. CASE Process
  <2>1. CASE ListLogs \/ ReadTrailer \/ ListAgain \/ ReadRecords \/ TakeRecords \/ TableAbsent \/ LoadTable
             \/ PickSnapshot \/ ReadAll \/ TallyFile \/ Observe \/ SeeSnapshot \/ PollFails
    BY <2>1 DEF ListLogs, ReadTrailer, ListAgain, ReadRecords, TakeRecords, TableAbsent, LoadTable,
                PickSnapshot, ReadAll, TallyFile, Observe, SeeSnapshot, PollFails
  <2>2. CASE Sample \/ SampleFails \/ Sleep \/ Abort \/ MirrorEverything
    BY <2>2 DEF Sample, SampleFails, Sleep, Abort, MirrorEverything
  <2>3. CASE FinishVoid \/ FinishDrained \/ FinishIdle
    BY <2>3 DEF FinishVoid, FinishDrained, FinishIdle, Finalize
  <2>4. QED
    BY <1>1, <2>1, <2>2, <2>3 DEF Process, ScorerStep
<1>2. CASE Environment \/ Clock \/ PodLost \/ UNCHANGED vars
  BY <1>2 DEF Environment, Clock, PodLost, Tick, Lost, vars, scorerVars
<1>3. QED
  BY <1>1, <1>2 DEF Next

LEMMA NextValidInv ==
  ASSUME EvidenceInv, ValidInv, [Next]_vars
  PROVE  ValidInv'
<1>1. SchemaChecked'
  BY SchemaKeeps DEF ValidInv
<1>2. ASSUME summary'.valid PROVE pc' \in {"mirror", "exited"} /\ Established'
  <2>1. CASE summary' = summary
    BY <1>2, <2>1, EstablishedStays DEF ValidInv
  <2>2. ASSUME NEW ending \in {"void", "drained", "idle_stop"}, NEW within \in BOOLEAN,
               ending = "drained" => schema # "mismatch" /\ Drained,
               summary' \in {Verdict(ending, within), summary,
                             Unfinished(Verdict(ending, within).state, TRUE, "scorer_failed")},
               summary' # summary, pc = "evaluate", pc' = "mirror"
        PROVE  Established'
    <3>1. summary' # Unfinished(Verdict(ending, within).state, TRUE, "scorer_failed")
      BY <1>2 DEF Unfinished
    <3>2. Verdict(ending, within).valid
      BY <1>2, <2>2, <3>1
    <3>3. /\ ending = "drained" /\ observed = LastBatch /\ ~ProducerBound
          /\ Exact(ledger, OfferedBatches)
      BY <3>2 DEF Verdict
    <3>4. offerEnded
      BY <2>2, <3>3 DEF Drained
    <3>5. LastBatch # NoObservation
      BY <3>4, LastOfEndedOffer DEF EvidenceInv, NoObservation, Batches
    <3>6. schema = "match" /\ conforms
      BY <3>3, <3>5 DEF ValidInv, SchemaChecked
    <3>7. UNCHANGED <<offerEnded, records, schema, ledger, conforms>>
      <4>1. FinishVoid \/ FinishDrained \/ FinishIdle
        BY <2>2 DEF Next, Process, ScorerStep, ListLogs, ReadTrailer, ListAgain, ReadRecords, TakeRecords,
           TableAbsent, LoadTable, PickSnapshot, ReadAll, TallyFile, Observe, SeeSnapshot, PollFails, Sample,
           SampleFails, Sleep, Abort, MirrorEverything, Environment, Clock, PodLost, Tick, Lost, vars, scorerVars
      <4>2. Process
        BY <2>2 DEF Next, Environment, Clock, PodLost, Tick, Lost, vars, scorerVars
      <4>3. QED
        BY <4>1, <4>2 DEF FinishVoid, FinishDrained, FinishIdle, Finalize, Process, tallyVars, tableVars
    <3>8. Established
      BY <3>3, <3>4, <3>6 DEF Established
    <3>9. QED
      BY <3>7, <3>8 DEF Established, ProducerBound, Exact, OfferedBatches
  <2>3. CASE summary' \in {Running, Unfinished("running", TRUE, "scorer_failed")}
    BY <1>2, <2>3 DEF Running, Unfinished
  <2>4. QED
    BY <2>1, <2>2, <2>3, SummaryStep
<1>3. ASSUME mirrored'.valid PROVE pc' = "exited" /\ Established'
  <2>1. CASE mirrored' = mirrored
    BY <1>3, <2>1, EstablishedStays DEF ValidInv
  <2>2. CASE mirrored' = Running
    BY <1>3, <2>2 DEF Running, Unfinished
  <2>3. CASE mirrored' = summary /\ summary' = summary /\ pc' = "exited"
    BY <1>2, <1>3, <2>3
  <2>4. QED
    BY <2>1, <2>2, <2>3, MirrorStep
<1>4. QED
  BY <1>1, <1>2, <1>3 DEF ValidInv

(* A batch found complete was read in the right number of rows, and row by *)
(* row once unless two of its rows were lost.                              *)
LEMMA CompleteBatch ==
  ASSUME TallyInv, NEW b \in Batches, RowCount[b] <= P, Complete(ledger, b)
  PROVE  /\ Count([r \in RowIds |-> Reads(r)], b) = RowCount[b]
         /\ Cardinality(Unread(b)) <= 1 => \A r \in RowsOf(b) : Reads(r) = 1
<1>1. ledger = [r \in RowIds |-> Reads(r)] /\ RowsOf(b) \subseteq RowIds /\ IsFiniteSet(RowsOf(b))
  BY RowsAreFinite DEF TallyInv, TalliedOnce
<1>2. ledger \in Ledger
  BY LedgerIsTyped
<1>3. Count([r \in RowIds |-> Reads(r)], b) = RowCount[b]
  BY <1>1 DEF Complete
<1>4. ASSUME Cardinality(Unread(b)) <= 1 PROVE \A r \in RowsOf(b) : Reads(r) = 1
  <2>1. \A r \in RowsOf(b) : ledger[r] = Reads(r)
    BY <1>1
  <2>2. IsFiniteSet(Unread(b))
    BY <1>1, FS_Subset DEF Unread
  <2>3. \A r, s \in Unread(b) : r = s
    BY <1>4, <2>2, AtMostOne
  <2>4. \A r, s \in RowsOf(b) : ledger[r] = 0 /\ ledger[s] = 0 => r = s
    BY <2>1, <2>3 DEF Unread
  <2>5. \A r \in RowsOf(b) : ledger[r] = 1
    BY <1>2, <2>4, CompleteMeansOnce
  <2>6. QED
    BY <2>1, <2>5
<1>5. QED
  BY <1>3, <1>4

(* A run that the gate can find valid was offered whole and on schedule to *)
(* a table of the right schema, and every offered batch was read in its    *)
(* number of rows with no single row lost, for batches of no more rows     *)
(* than the checksum's modulus.                                            *)
THEOREM ScorerValidIsExact ==
  ASSUME ExpectedShards = NShards, \A b \in Batches : RowCount[b] <= P
  PROVE  Spec => []ValidRunIsExact
<1>1. OfferInv /\ TallyInv /\ ValidInv => ValidRunIsExact
  <2> SUFFICES ASSUME OfferInv, TallyInv, ValidInv, mirrored.valid
               PROVE  /\ OfferedBatches = Offered /\ conforms
                      /\ \A rec \in records : ~rec.errors /\ ~rec.late
                      /\ \A b \in Offered :
                           /\ RowsOf(b) \subseteq topic
                           /\ Count([r \in RowIds |-> Reads(r)], b) = RowCount[b]
                           /\ Cardinality(Unread(b)) <= 1 => \A r \in RowsOf(b) : Reads(r) = 1
    BY DEF ValidRunIsExact
  <2>1. offerEnded /\ ~ProducerBound /\ conforms /\ Exact(ledger, OfferedBatches)
    BY DEF ValidInv, Established
  <2>2. OfferedBatches = Offered /\ \A rec \in records : ~rec.errors /\ RowsOf(rec.batch) \subseteq topic
    BY <2>1, EndedIsWhole DEF OfferEndedIsWhole
  <2>3. \A b \in Offered : b \in Batches /\ RowsOf(b) \subseteq topic
    <3>1. \A b \in Offered : b \in Batches
      BY ReplayAssumption DEF Offered, Batches
    <3>2. \A b \in Offered : \E rec \in records : b = rec.batch
      BY <2>2 DEF OfferedBatches, BatchesIn
    <3>3. QED
      BY <2>2, <3>1, <3>2
  <2>4. \A b \in Offered : Complete(ledger, b)
    BY <2>1, <2>2 DEF Exact
  <2>5. QED
    BY <2>1, <2>2, <2>3, <2>4, CompleteBatch DEF ProducerBound
<1>2. QED
  BY <1>1, InitOfferInv, NextOfferInv, InitEvidenceInv, NextEvidenceInv, InitValidInv, NextValidInv,
     PTL DEF Spec, EvidenceInv
=============================================================================
