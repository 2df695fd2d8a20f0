------------------------------ MODULE Producer ------------------------------
(***************************************************************************)
(* The producer shards (ingest_bench/producer): each sends its share of    *)
(* the corpus batch by batch, waits for every delivery report of a batch   *)
(* before the next, appends the outcome to a local publish log, uploads    *)
(* the whole log at most every UPLOAD_INTERVAL_MS, stops on a delivery     *)
(* error, and ends a complete log with a trailer.                          *)
(*                                                                         *)
(* Time is left out: a batch may start at any moment (its due time has     *)
(* come), an upload may or may not be due, and a batch that was            *)
(* acknowledged at all may have been acknowledged late.                    *)
(***************************************************************************)
EXTENDS Replay

CONSTANT QueueLimit  \* librdkafka's bounded send queue, in rows

ASSUME QueueAssumption == QueueLimit \in Nat \ {0}

VARIABLES
  topic,     \* rows the broker has accepted
  pc,        \* where each shard's process is
  todo,      \* the batches of its share not yet logged
  current,   \* the batch it sends, or sent last
  unsent,    \* rows of the current batch not yet handed to librdkafka
  inflight,  \* rows in librdkafka's queue, without a delivery report
  acked,     \* rows of the current batch acknowledged
  failed,    \* rows of the current batch reported as failed
  local,     \* the publish log on the shard's own disk
  uploaded   \* its copy in the object store

vars == <<topic, pc, todo, current, unsent, inflight, acked, failed, local, uploaded>>

Stopped == {"done", "failed", "crashed"}
Places  == {"idle", "sending", "logged", "trailed"} \cup Stopped

NoBatch == -1

Init ==
  /\ topic    = {}
  /\ pc       = [s \in Shards |-> "idle"]
  /\ todo     = [s \in Shards |-> Selected(s)]
  /\ current  = [s \in Shards |-> NoBatch]
  /\ unsent   = [s \in Shards |-> {}]
  /\ inflight = [s \in Shards |-> {}]
  /\ acked    = [s \in Shards |-> {}]
  /\ failed   = [s \in Shards |-> {}]
  /\ local    = [s \in Shards |-> EmptyLog]
  /\ uploaded = [s \in Shards |-> EmptyLog]

(* The next batch is due: produce_batch starts on it.                      *)
Begin(s) ==
  /\ pc[s] = "idle"
  /\ \E b \in todo[s] :
       /\ \A c \in todo[s] : b <= c
       /\ current' = [current EXCEPT ![s] = b]
       /\ unsent'  = [unsent EXCEPT ![s] = RowsOf(b)]
  /\ pc'     = [pc EXCEPT ![s] = "sending"]
  /\ acked'  = [acked EXCEPT ![s] = {}]
  /\ failed' = [failed EXCEPT ![s] = {}]
  /\ UNCHANGED <<topic, todo, inflight, local, uploaded>>

(* produce() takes the next frame. With the queue full it raises           *)
(* BufferError and the loop polls until a delivery report frees a place.   *)
Send(s) ==
  /\ pc[s] = "sending" /\ unsent[s] # {}
  /\ Cardinality(inflight[s]) < QueueLimit
  /\ \E r \in unsent[s] :
       /\ \A other \in unsent[s] : r[2] <= other[2]
       /\ unsent'   = [unsent EXCEPT ![s] = @ \ {r}]
       /\ inflight' = [inflight EXCEPT ![s] = @ \cup {r}]
  /\ UNCHANGED <<topic, pc, todo, current, acked, failed, local, uploaded>>

(* Mutant: delivery reports are served by flush() alone.                   *)
ServedInFlush(s) == IF unsent[s] = {} THEN inflight[s] ELSE {}

(* poll(), called when the queue is full and every POLL_EVERY_ROWS rows,   *)
(* and flush() serve the reports of whatever is in the queue.              *)
Served(s) == inflight[s]

(* The broker accepts a row and its delivery report is served.             *)
Ack(s) ==
  /\ pc[s] = "sending"
  /\ \E r \in Served(s) :
       /\ inflight' = [inflight EXCEPT ![s] = @ \ {r}]
       /\ acked'    = [acked EXCEPT ![s] = @ \cup {r}]
       /\ topic'    = topic \cup {r}
  /\ UNCHANGED <<pc, todo, current, unsent, failed, local, uploaded>>

(* A delivery report with an error: the row may have reached the broker    *)
(* all the same, its acknowledgement lost past the message timeout.        *)
Fail(s) ==
  /\ pc[s] = "sending"
  /\ \E r \in Served(s) :
       /\ inflight' = [inflight EXCEPT ![s] = @ \ {r}]
       /\ failed'   = [failed EXCEPT ![s] = @ \cup {r}]
       /\ topic' \in {topic, topic \cup {r}}
  /\ UNCHANGED <<pc, todo, current, unsent, acked, local, uploaded>>

(* Mutant: flush() is trusted to have waited for every report.             *)
FlushReturns(s) == unsent[s] = {}

(* flush() has returned and left nothing without a report.                 *)
Flushed(s) == unsent[s] = {} /\ inflight[s] = {}

(* Mutant: a batch counts as failed only if none of it was acknowledged.   *)
NothingDelivered(s) == failed[s] # {} /\ acked[s] = {}

(* errors > 0 of the record.                                               *)
HasErrors(s) == failed[s] # {}

(* The outcome of the batch is appended to the local log. A batch with no  *)
(* acknowledged row has first_ack_ms = 0, and so never counts as behind.   *)
Finish(s) ==
  /\ pc[s] = "sending" /\ Flushed(s)
  /\ \E late \in BOOLEAN :
       /\ late => acked[s] # {}
       /\ local' = [local EXCEPT ![s].recs = @ \cup
            {[batch |-> current[s], errors |-> HasErrors(s), late |-> late]}]
  /\ todo' = [todo EXCEPT ![s] = @ \ {current[s]}]
  /\ pc'   = [pc EXCEPT ![s] = "logged"]
  /\ UNCHANGED <<topic, current, unsent, inflight, acked, failed, uploaded>>

(* Mutant: the process goes on after a delivery error.                     *)
GoesOn(s) == "idle"

AfterUpload(s) == IF failed[s] # {} THEN "failed" ELSE "idle"

(* The log is uploaded because its interval has passed or because the      *)
(* batch failed; a failed batch then ends the process without a trailer.   *)
Upload(s) ==
  /\ pc[s] = "logged"
  /\ uploaded' = [uploaded EXCEPT ![s] = local[s]]
  /\ pc' = [pc EXCEPT ![s] = AfterUpload(s)]
  /\ UNCHANGED <<topic, todo, current, unsent, inflight, acked, failed, local>>

(* The upload interval has not passed, and the batch was delivered.        *)
SkipUpload(s) ==
  /\ pc[s] = "logged" /\ failed[s] = {}
  /\ pc' = [pc EXCEPT ![s] = "idle"]
  /\ UNCHANGED <<topic, todo, current, unsent, inflight, acked, failed, local, uploaded>>

(* The share is sent: append_done writes the trailer.                      *)
Trail(s) ==
  /\ pc[s] = "idle" /\ todo[s] = {}
  /\ local' = [local EXCEPT ![s].done = TRUE]
  /\ pc'    = [pc EXCEPT ![s] = "trailed"]
  /\ UNCHANGED <<topic, todo, current, unsent, inflight, acked, failed, uploaded>>

(* The complete log is uploaded, and the process ends.                     *)
FinalUpload(s) ==
  /\ pc[s] = "trailed"
  /\ uploaded' = [uploaded EXCEPT ![s] = local[s]]
  /\ pc'       = [pc EXCEPT ![s] = "done"]
  /\ UNCHANGED <<topic, todo, current, unsent, inflight, acked, failed, local>>

(* The process ends where it stands: the pod is lost, an upload raises,    *)
(* the key sidecar does not match, or flush() returned with reports        *)
(* outstanding and produce_batch raised. Rows in flight may have reached   *)
(* the broker. The Job does not retry (backoffLimit 0, restart Never).     *)
Crash(s) ==
  /\ pc[s] \notin Stopped
  /\ \E rows \in SUBSET inflight[s] : topic' = topic \cup rows
  /\ pc'       = [pc EXCEPT ![s] = "crashed"]
  /\ inflight' = [inflight EXCEPT ![s] = {}]
  /\ UNCHANGED <<todo, current, unsent, acked, failed, local, uploaded>>

Step(s) ==
  \/ Begin(s) \/ Send(s) \/ Ack(s) \/ Fail(s) \/ Finish(s)
  \/ Upload(s) \/ SkipUpload(s) \/ Trail(s) \/ FinalUpload(s)

Next == \E s \in Shards : Step(s) \/ Crash(s)

(* Every shard is a process of its own; librdkafka reports on every        *)
(* message within message.timeout.ms.                                      *)
Fairness == \A s \in Shards : WF_vars(Step(s))

Spec == Init /\ [][Next]_vars /\ Fairness
-----------------------------------------------------------------------------
(* Every variable has its type.                                            *)
TypeOK ==
  /\ topic    \subseteq RowIds
  /\ pc       \in [Shards -> Places]
  /\ todo     \in [Shards -> SUBSET Batches]
  /\ current  \in [Shards -> Batches \cup {NoBatch}]
  /\ unsent   \in [Shards -> SUBSET RowIds]
  /\ inflight \in [Shards -> SUBSET RowIds]
  /\ acked    \in [Shards -> SUBSET RowIds]
  /\ failed   \in [Shards -> SUBSET RowIds]
  /\ local    \in [Shards -> Log]
  /\ uploaded \in [Shards -> Log]

(* A visible trailer means that the whole share was delivered: every       *)
(* selected batch is recorded without an error and all of its rows are in  *)
(* the topic. The scorer ends the offer on these trailers alone (run,      *)
(* append_done, shards_done).                                              *)
TrailerMeansDelivered ==
  \A s \in Shards : uploaded[s].done =>
    /\ BatchesIn(uploaded[s].recs) = Selected(s)
    /\ \A rec \in uploaded[s].recs :
         ~rec.errors /\ RowsOf(rec.batch) \subseteq topic

(* No batch is recorded by two shards, or twice by one, so read_all never  *)
(* rejects the logs of one run.                                            *)
OneOwnerPerBatch ==
  \A s, t \in Shards : \A rec1 \in local[s].recs, rec2 \in local[t].recs :
    rec1.batch = rec2.batch => s = t /\ rec1 = rec2

(* A logged batch is never sent again: its rows in the topic are final,    *)
(* whatever became of the process afterwards (produce_batch flushes before *)
(* the record is written, and nothing retries).                            *)
LoggedBatchIsFinal ==
  [][\A s \in Shards : \A b \in BatchesIn(local[s].recs) :
       topic' \cap RowsOf(b) = topic \cap RowsOf(b)]_vars

(* Every shard stops, and a shard that was not interrupted and had no      *)
(* failed delivery has published its trailer.                              *)
EveryShardStops ==
  \A s \in Shards :
    <>(/\ pc[s] \in Stopped
       /\ uploaded[s].done <=> pc[s] = "done")

(* Why the properties hold: the inductive invariant, shard by shard.       *)
Clean(recs) == \A rec \in recs : ~rec.errors

(* A share is split between the batches logged, each once, and those left. *)
Accounted(s) ==
  /\ todo[s] \cap BatchesIn(local[s].recs) = {}
  /\ todo[s] \cup BatchesIn(local[s].recs) = Selected(s)
  /\ \A rec1, rec2 \in local[s].recs : rec1.batch = rec2.batch => rec1 = rec2

(* Every row of the batch being sent is somewhere, and none of another is. *)
InHand(s) ==
  /\ pc[s] = "sending" =>
       /\ current[s] \in todo[s]
       /\ RowsOf(current[s]) = unsent[s] \cup inflight[s] \cup acked[s] \cup failed[s]
  /\ pc[s] # "sending" => inflight[s] = {}
  /\ acked[s] \subseteq topic

Delivered(s) ==
  \A rec \in local[s].recs : ~rec.errors => RowsOf(rec.batch) \subseteq topic

(* A failed batch is the last of its shard.                                *)
StopsOnError(s) ==
  /\ pc[s] \in {"idle", "sending", "trailed", "done"} => Clean(local[s].recs)
  /\ pc[s] = "logged" /\ failed[s] = {} => Clean(local[s].recs)

TrailedWhole(s) ==
  /\ local[s].done => todo[s] = {} /\ Clean(local[s].recs)
  /\ pc[s] \in {"idle", "sending", "logged"} => ~local[s].done
  /\ uploaded[s].done => uploaded[s] = local[s]

(* Batches are logged in order, a failed one last, and the visible log is  *)
(* what the local one was at some earlier time.                            *)
Ordered(s) ==
  /\ \A b \in BatchesIn(local[s].recs), c \in todo[s] : b < c
  /\ pc[s] = "sending" => \A c \in todo[s] : current[s] <= c
  /\ \A rec \in local[s].recs : rec.errors =>
       \A b \in BatchesIn(local[s].recs) : b <= rec.batch
  /\ uploaded[s].recs \subseteq local[s].recs
  /\ pc[s] \notin Stopped => Clean(uploaded[s].recs) /\ ~uploaded[s].done

ShardInv(s) ==
  /\ Accounted(s) /\ InHand(s) /\ Delivered(s)
  /\ StopsOnError(s) /\ TrailedWhole(s) /\ Ordered(s)

IInv == TypeOK /\ \A s \in Shards : ShardInv(s)

(* The program implements the promise its readers rely on.                 *)
Promise == INSTANCE Offer WITH log <- uploaded
ImplementsOffer == Promise!OfferSpec
=============================================================================
