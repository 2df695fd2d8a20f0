--------------------------- MODULE ProducerProofs ---------------------------
(***************************************************************************)
(* Proofs about Producer, for any number of shards, any corpus and any     *)
(* queue limit.                                                            *)
(***************************************************************************)
EXTENDS Producer, TLAPS

(* The offered batches are batches of the corpus, and a shard's share is   *)
(* disjoint from every other's.                                            *)
LEMMA Shares ==
  /\ \A s \in Shards : Selected(s) \subseteq Batches
  /\ \A s, t \in Shards : s # t => Selected(s) \cap Selected(t) = {}
<1>1. Offered \subseteq Batches
  BY ReplayAssumption DEF Offered, Batches
<1>2. QED
  BY <1>1 DEF Selected

(* A batch has rows of the corpus, and two batches have none in common.    *)
LEMMA Rows ==
  /\ \A b \in Batches : RowsOf(b) \subseteq RowIds
  /\ \A b, c \in Batches : b # c => RowsOf(b) \cap RowsOf(c) = {}
BY DEF RowsOf, RowIds

(* The invariant holds initially.                                          *)
LEMMA InitIInv == Init => IInv
<1> SUFFICES ASSUME Init PROVE IInv
  OBVIOUS
<1>1. TypeOK
  BY Shares DEF Init, TypeOK, Places, Log, EmptyLog, Record
<1>2. \A s \in Shards : ShardInv(s)
  BY DEF Init, ShardInv, Accounted, InHand, Delivered, StopsOnError, TrailedWhole, Ordered,
         EmptyLog, BatchesIn, Clean
<1>3. QED
  BY <1>1, <1>2 DEF IInv

(* Every variable keeps its type.                                          *)
LEMMA NextTypeOK ==
  ASSUME IInv, NEW s \in Shards, Step(s) \/ Crash(s)
  PROVE  TypeOK'
<1> USE DEF IInv, TypeOK, Places, Stopped
<1>1. CASE Begin(s)
  BY <1>1, Rows DEF Begin
<1>2. CASE Send(s)
  BY <1>2 DEF Send
<1>3. CASE Ack(s)
  BY <1>3 DEF Ack, Served
<1>4. CASE Fail(s)
  BY <1>4 DEF Fail, Served
<1>5. CASE Finish(s)
  <2>1. current[s] \in Batches
    BY <1>5 DEF Finish, ShardInv, InHand
  <2>2. PICK late \in BOOLEAN : local' = [local EXCEPT ![s].recs = @ \cup
          {[batch |-> current[s], errors |-> HasErrors(s), late |-> late]}]
    BY <1>5 DEF Finish
  <2>3. [batch |-> current[s], errors |-> HasErrors(s), late |-> late] \in Record
    BY <2>1 DEF Record, HasErrors
  <2>4. local' \in [Shards -> Log]
    BY <2>2, <2>3 DEF Log
  <2>5. QED
    BY <1>5, <2>4 DEF Finish
<1>6. CASE Upload(s)
  BY <1>6 DEF Upload, AfterUpload
<1>7. CASE SkipUpload(s)
  BY <1>7 DEF SkipUpload
<1>8. CASE Trail(s)
  BY <1>8 DEF Trail, Log
<1>9. CASE FinalUpload(s)
  BY <1>9 DEF FinalUpload
<1>10. CASE Crash(s)
  BY <1>10 DEF Crash
<1>11. QED
  BY <1>1, <1>2, <1>3, <1>4, <1>5, <1>6, <1>7, <1>8, <1>9, <1>10 DEF Step

(* A step of shard s leaves what another shard relies on.                  *)
LEMMA OthersUntouched ==
  ASSUME IInv, NEW s \in Shards, Step(s) \/ Crash(s), NEW t \in Shards, t # s
  PROVE  ShardInv(t)'
<1>1. /\ pc'[t] = pc[t] /\ todo'[t] = todo[t] /\ current'[t] = current[t]
      /\ unsent'[t] = unsent[t] /\ inflight'[t] = inflight[t]
      /\ acked'[t] = acked[t] /\ failed'[t] = failed[t]
      /\ local'[t] = local[t] /\ uploaded'[t] = uploaded[t]
  BY DEF IInv, TypeOK, Step, Begin, Send, Ack, Fail, Served, Finish, Upload, SkipUpload,
         Trail, FinalUpload, Crash
<1>2. topic \subseteq topic'
  BY DEF Step, Begin, Send, Ack, Fail, Served, Finish, Upload, SkipUpload,
         Trail, FinalUpload, Crash
<1>3. ShardInv(t)
  BY DEF IInv
<1>4. QED
  BY <1>1, <1>2, <1>3
  DEF ShardInv, Accounted, InHand, Delivered, StopsOnError, TrailedWhole, Ordered

(* What a step of shard s does to its own part of the invariant, one       *)
(* conjunct per step under each action.                                    *)
LEMMA OwnStep ==
  ASSUME IInv, NEW s \in Shards, Step(s) \/ Crash(s)
  PROVE  ShardInv(s)'
<1> USE DEF IInv, TypeOK, ShardInv
<1>1. CASE Begin(s)
  <2> USE <1>1 DEF Begin
  <2>1. PICK b \in todo[s] : current'[s] = b /\ unsent'[s] = RowsOf(b)
    OBVIOUS
  <2>2. inflight'[s] = {} /\ acked'[s] = {} /\ failed'[s] = {} /\ pc'[s] = "sending"
    BY DEF InHand
  <2>3. InHand(s)'
    BY <2>1, <2>2 DEF InHand
  <2>4. Accounted(s)' /\ Delivered(s)' /\ StopsOnError(s)' /\ TrailedWhole(s)'
    BY <2>2 DEF Accounted, Delivered, StopsOnError, TrailedWhole
  <2>5. Ordered(s)'
    BY <2>1, <2>2 DEF Ordered, Stopped
  <2>6. QED
    BY <2>3, <2>4, <2>5
<1>2. CASE Send(s)
  <2> USE <1>2 DEF Send
  <2>1. InHand(s)'
    BY DEF InHand
  <2>2. Accounted(s)' /\ Delivered(s)' /\ StopsOnError(s)' /\ TrailedWhole(s)'
    BY DEF Accounted, Delivered, StopsOnError, TrailedWhole
  <2>3. Ordered(s)'
    BY DEF Ordered
  <2>4. QED
    BY <2>1, <2>2, <2>3
<1>3. CASE Ack(s)
  <2> USE <1>3 DEF Ack, Served
  <2>1. InHand(s)'
    BY DEF InHand
  <2>2. Accounted(s)' /\ Delivered(s)' /\ StopsOnError(s)' /\ TrailedWhole(s)'
    BY DEF Accounted, Delivered, StopsOnError, TrailedWhole
  <2>3. Ordered(s)'
    BY DEF Ordered
  <2>4. QED
    BY <2>1, <2>2, <2>3
<1>4. CASE Fail(s)
  <2> USE <1>4 DEF Fail, Served
  <2>1. InHand(s)'
    BY DEF InHand
  <2>2. Accounted(s)' /\ Delivered(s)' /\ StopsOnError(s)' /\ TrailedWhole(s)'
    BY DEF Accounted, Delivered, StopsOnError, TrailedWhole
  <2>3. Ordered(s)'
    BY DEF Ordered
  <2>4. QED
    BY <2>1, <2>2, <2>3
<1>5. CASE Finish(s)
  <2>1. PICK late \in BOOLEAN : local' = [local EXCEPT ![s].recs = @ \cup
          {[batch |-> current[s], errors |-> HasErrors(s), late |-> late]}]
    BY <1>5 DEF Finish
  <2> DEFINE rec == [batch |-> current[s], errors |-> HasErrors(s), late |-> late]
  <2>2. rec.batch = current[s] /\ (rec.errors <=> failed[s] # {})
    BY DEF HasErrors
  <2>3. /\ local'[s].recs = local[s].recs \cup {rec} /\ local'[s].done = local[s].done
        /\ uploaded' = uploaded
    BY <1>5, <2>1 DEF Finish, Log
  <2>4. /\ todo'[s] = todo[s] \ {current[s]} /\ pc[s] = "sending" /\ pc'[s] = "logged"
        /\ failed'[s] = failed[s] /\ acked'[s] = acked[s] /\ topic' = topic
        /\ inflight'[s] = {} /\ unsent[s] = {} /\ inflight[s] = {}
    BY <1>5 DEF Finish, Flushed
  <2> HIDE DEF rec
  <2>5. /\ current[s] \in todo[s] /\ current[s] \notin BatchesIn(local[s].recs)
        /\ RowsOf(current[s]) = acked[s] \cup failed[s] /\ acked[s] \subseteq topic
    BY <2>4 DEF InHand, Accounted
  <2>6. Accounted(s)'
    <3>1. BatchesIn(local'[s].recs) = BatchesIn(local[s].recs) \cup {current[s]}
      BY <2>2, <2>3 DEF BatchesIn
    <3>2. \A rec1, rec2 \in local'[s].recs : rec1.batch = rec2.batch => rec1 = rec2
      BY <2>2, <2>3, <2>5 DEF Accounted, BatchesIn
    <3>3. QED
      BY <2>4, <2>5, <3>1, <3>2 DEF Accounted
  <2>7. InHand(s)'
    BY <2>4, <2>5 DEF InHand
  <2>8. Delivered(s)'
    BY <2>2, <2>3, <2>4, <2>5 DEF Delivered
  <2>9. StopsOnError(s)'
    BY <2>2, <2>3, <2>4 DEF StopsOnError, Clean
  <2>10. TrailedWhole(s)'
    BY <2>3, <2>4 DEF TrailedWhole
  <2>11. Ordered(s)'
    <3>0. /\ current[s] \in Int /\ \A c \in todo[s] : c \in Int
          /\ \A b \in BatchesIn(local[s].recs) : b \in Int
      <4>1. \A b \in Batches : b \in Int
        BY ReplayAssumption DEF Batches
      <4>2. QED
        BY <4>1, <2>5, Shares DEF Accounted
    <3>1. \A b \in BatchesIn(local[s].recs) : b < current[s] /\ b \in Int
      BY <2>5, <3>0 DEF Ordered
    <3>2. \A c \in todo[s] : c # current[s] => current[s] < c
      <4>1. \A c \in todo[s] : current[s] <= c
        BY <2>4 DEF Ordered
      <4>2. QED
        BY <3>0, <4>1
    <3>3. BatchesIn(local'[s].recs) = BatchesIn(local[s].recs) \cup {current[s]}
      BY <2>2, <2>3 DEF BatchesIn
    <3>4. \A b \in BatchesIn(local'[s].recs), c \in todo'[s] : b < c
      BY <2>4, <3>2, <3>3 DEF Ordered
    <3>5. Clean(local[s].recs)
      BY <2>4 DEF StopsOnError
    <3>6. current[s] <= current[s]
      BY <3>0
    <3>7. \A r \in local'[s].recs : r.errors => \A b \in BatchesIn(local'[s].recs) : b <= r.batch
      <4>1. \A r \in local'[s].recs : r.errors => r = rec
        BY <2>3, <3>5 DEF Clean
      <4>2. \A b \in BatchesIn(local'[s].recs) : b <= current[s]
        BY <3>0, <3>1, <3>3, <3>6
      <4>3. QED
        BY <2>2, <4>1, <4>2
    <3>8. QED
      BY <2>3, <2>4, <3>4, <3>7 DEF Ordered, Stopped
  <2>12. QED
    BY <2>6, <2>7, <2>8, <2>9, <2>10, <2>11
<1>6. CASE Upload(s)
  <2> USE <1>6 DEF Upload, AfterUpload
  <2>1. InHand(s)' /\ Accounted(s)' /\ Delivered(s)'
    BY DEF InHand, Accounted, Delivered
  <2>2. StopsOnError(s)' /\ TrailedWhole(s)'
    BY DEF StopsOnError, TrailedWhole
  <2>3. Ordered(s)'
    BY DEF Ordered, StopsOnError, TrailedWhole, Stopped
  <2>4. QED
    BY <2>1, <2>2, <2>3
<1>7. CASE SkipUpload(s)
  BY <1>7 DEF SkipUpload, InHand, Accounted, Delivered, StopsOnError, TrailedWhole, Ordered, Stopped
<1>8. CASE Trail(s)
  <2> USE <1>8 DEF Trail, Log
  <2>1. local'[s].recs = local[s].recs /\ local'[s].done /\ pc'[s] = "trailed" /\ todo'[s] = {}
    OBVIOUS
  <2>2. InHand(s)' /\ Accounted(s)' /\ Delivered(s)'
    BY <2>1 DEF InHand, Accounted, Delivered
  <2>3. StopsOnError(s)' /\ TrailedWhole(s)'
    BY <2>1 DEF StopsOnError, TrailedWhole
  <2>4. Ordered(s)'
    BY <2>1 DEF Ordered, Stopped
  <2>5. QED
    BY <2>2, <2>3, <2>4
<1>9. CASE FinalUpload(s)
  BY <1>9 DEF FinalUpload, InHand, Accounted, Delivered, StopsOnError, TrailedWhole, Ordered, Stopped
<1>10. CASE Crash(s)
  <2> USE <1>10 DEF Crash, Stopped
  <2>1. topic \subseteq topic' /\ pc'[s] = "crashed" /\ inflight'[s] = {}
    OBVIOUS
  <2>2. InHand(s)' /\ Accounted(s)' /\ Delivered(s)'
    BY <2>1 DEF InHand, Accounted, Delivered
  <2>3. StopsOnError(s)' /\ TrailedWhole(s)'
    BY <2>1 DEF StopsOnError, TrailedWhole
  <2>4. Ordered(s)'
    BY <2>1 DEF Ordered
  <2>5. QED
    BY <2>2, <2>3, <2>4
<1>11. QED
  BY <1>1, <1>2, <1>3, <1>4, <1>5, <1>6, <1>7, <1>8, <1>9, <1>10 DEF Step

LEMMA NextIInv == IInv /\ [Next]_vars => IInv'
<1> SUFFICES ASSUME IInv, [Next]_vars PROVE IInv'
  OBVIOUS
<1>1. CASE UNCHANGED vars
  BY <1>1 DEF vars, IInv, TypeOK, ShardInv, Accounted, InHand, Delivered,
              StopsOnError, TrailedWhole, Ordered
<1>2. ASSUME NEW s \in Shards, Step(s) \/ Crash(s) PROVE IInv'
  <2>1. TypeOK'
    BY <1>2, NextTypeOK
  <2>2. \A t \in Shards : ShardInv(t)'
    BY <1>2, OwnStep, OthersUntouched
  <2>3. QED
    BY <2>1, <2>2 DEF IInv
<1>3. QED
  BY <1>1, <1>2 DEF Next

THEOREM ProducerInvariant == Spec => []IInv
<1>1. QED
  BY InitIInv, NextIInv, PTL DEF Spec

(* The variables of the producer shards keep their types.                  *)
THEOREM ProducerTypeOK == Spec => []TypeOK
<1>1. IInv => TypeOK
  BY DEF IInv
<1>2. QED
  BY <1>1, ProducerInvariant, PTL

(* A visible trailer means that the whole share was delivered.             *)
THEOREM ProducerTrailer == Spec => []TrailerMeansDelivered
<1>1. IInv => TrailerMeansDelivered
  BY DEF IInv, ShardInv, Accounted, Delivered, TrailedWhole, Clean, TrailerMeansDelivered
<1>2. QED
  BY <1>1, ProducerInvariant, PTL

(* No batch is recorded twice, by one shard or by two.                     *)
THEOREM ProducerOwner == Spec => []OneOwnerPerBatch
<1>1. IInv => OneOwnerPerBatch
  <2> SUFFICES ASSUME IInv, NEW s \in Shards, NEW t \in Shards,
                      NEW rec1 \in local[s].recs, NEW rec2 \in local[t].recs,
                      rec1.batch = rec2.batch
               PROVE  s = t /\ rec1 = rec2
    BY DEF OneOwnerPerBatch
  <2>1. rec1.batch \in Selected(s) /\ rec1.batch \in Selected(t)
    BY DEF IInv, ShardInv, Accounted, BatchesIn
  <2>2. s = t
    BY <2>1, Shares
  <2>3. QED
    BY <2>2 DEF IInv, ShardInv, Accounted
<1>2. QED
  BY <1>1, ProducerInvariant, PTL

(* The rows of a logged batch in the topic are final.                      *)
THEOREM ProducerFinal == Spec => LoggedBatchIsFinal
<1> DEFINE Final == \A s \in Shards : \A b \in BatchesIn(local[s].recs) :
                      topic' \cap RowsOf(b) = topic \cap RowsOf(b)
<1>1. IInv /\ [Next]_vars => [Final]_vars
  <2> SUFFICES ASSUME IInv, NEW t \in Shards, Step(t) \/ Crash(t),
                      NEW s \in Shards, NEW b \in BatchesIn(local[s].recs)
               PROVE  topic' \cap RowsOf(b) = topic \cap RowsOf(b)
    BY DEF Next
  <2>1. topic \subseteq topic' /\ topic' \subseteq topic \cup inflight[t]
    BY DEF Step, Begin, Send, Ack, Fail, Served, Finish, Upload, SkipUpload,
           Trail, FinalUpload, Crash
  <2>2. inflight[t] \cap RowsOf(b) = {}
    <3>1. CASE pc[t] = "sending"
      <4>1. current[t] \in todo[t] /\ inflight[t] \subseteq RowsOf(current[t])
        BY <3>1 DEF IInv, ShardInv, InHand
      <4>2. current[t] # b /\ current[t] \in Batches /\ b \in Batches
        BY <4>1, Shares DEF IInv, ShardInv, Accounted
      <4>3. QED
        BY <4>1, <4>2, Rows
    <3>2. CASE pc[t] # "sending"
      BY <3>2 DEF IInv, ShardInv, InHand
    <3>3. QED
      BY <3>1, <3>2
  <2>3. QED
    BY <2>1, <2>2
<1>2. QED
  BY <1>1, ProducerInvariant, PTL DEF Spec, LoggedBatchIsFinal

(* Rows that reach the topic are a delivery of the promise, if new.        *)
LEMMA DeliversOrStutters ==
  ASSUME IInv, NEW s \in Shards, pc[s] = "sending", UNCHANGED uploaded,
         NEW rows \in SUBSET inflight[s], topic' = topic \cup rows
  PROVE  [Promise!OfferNext]_(Promise!offerVars)
<1>1. CASE rows \subseteq topic
  BY <1>1 DEF Promise!offerVars
<1>2. CASE ~(rows \subseteq topic)
  <2> DEFINE new == rows \ topic
  <2>1. /\ current[s] \in todo[s] /\ current[s] \in Selected(s) /\ current[s] \in Batches
        /\ inflight[s] \subseteq RowsOf(current[s])
    BY Shares DEF IInv, ShardInv, InHand, Accounted
  <2>2. current[s] \in Offered /\ RowsOf(current[s]) \subseteq RowIds
    BY <2>1, Rows DEF Selected
  <2>3. \A t \in Shards : current[s] \notin BatchesIn(uploaded[t].recs)
    <3> SUFFICES ASSUME NEW t \in Shards, current[s] \in BatchesIn(uploaded[t].recs)
                 PROVE  FALSE
      OBVIOUS
    <3>1. current[s] \in BatchesIn(local[t].recs)
      BY DEF IInv, ShardInv, Ordered, BatchesIn
    <3>2. current[s] \in Selected(t) /\ current[s] \notin todo[t]
      BY <3>1 DEF IInv, ShardInv, Accounted
    <3>3. QED
      BY <2>1, <3>2, Shares
  <2>4. new # {} /\ new \in SUBSET RowIds /\ new \subseteq RowsOf(current[s]) \ topic
    BY <1>2, <2>1, <2>2
  <2>5. topic' = topic \cup new
    OBVIOUS
  <2>6. Promise!Deliver
    BY <2>2, <2>3, <2>4, <2>5 DEF Promise!Deliver, Promise!BatchesIn, BatchesIn, Promise!Offered, Offered, Promise!RowsOf, RowsOf, Promise!RowIds, RowIds, Promise!Shards, Shards, Promise!Batches, Batches
  <2>7. QED
    BY <2>6 DEF Promise!OfferNext
<1>3. QED
  BY <1>1, <1>2

(* An upload publishes what the log has gained since the last one.         *)
LEMMA UploadPublishes ==
  ASSUME IInv, NEW s \in Shards, pc[s] \in {"logged", "trailed"},
         UNCHANGED topic, uploaded' = [uploaded EXCEPT ![s] = local[s]]
  PROVE  [Promise!OfferNext]_(Promise!offerVars)
<1> DEFINE old  == uploaded[s].recs
           new  == local[s].recs \ old
           sent == BatchesIn(new)
           bad  == {b \in sent : \E rec \in new : rec.batch = b /\ rec.errors}
           late == {b \in sent : \E rec \in new : rec.batch = b /\ rec.late}
           Line(b) == [batch |-> b, errors |-> b \in bad, late |-> b \in late]
<1>1. /\ Accounted(s) /\ Delivered(s) /\ TrailedWhole(s) /\ Ordered(s)
      /\ local[s] \in Log /\ uploaded[s] \in Log
  BY DEF IInv, ShardInv, TypeOK
<1>2. ~uploaded[s].done /\ Clean(old) /\ old \subseteq local[s].recs
  BY <1>1 DEF Ordered, Stopped
<1>3. BatchesIn(local[s].recs) = BatchesIn(old) \cup sent
  BY <1>2 DEF BatchesIn
<1>4. sent \in SUBSET (Selected(s) \ BatchesIn(old))
  BY <1>1, <1>2 DEF Accounted, BatchesIn
<1>5. \A b \in sent : Before(s, b) \subseteq BatchesIn(old) \cup sent
  <2> SUFFICES ASSUME NEW b \in sent, NEW c \in Before(s, b), c \in todo[s] PROVE FALSE
    BY <1>1, <1>3 DEF Accounted, Before
  <2>1. b < c /\ c < b
    BY <1>1, <1>3 DEF Ordered, Before
  <2>2. b \in Int /\ c \in Int
    <3>1. \A x \in Batches : x \in Int
      BY ReplayAssumption DEF Batches
    <3>2. QED
      BY <3>1, <1>4, Shares DEF Before
  <2>3. QED
    BY <2>1, <2>2
<1>6. \A b \in bad, c \in sent : c <= b
  BY <1>1, <1>3 DEF Ordered
<1>7. \A b \in sent \ bad : RowsOf(b) \subseteq topic
  BY <1>1 DEF Delivered, BatchesIn
<1>8. local[s].done => bad = {} /\ Selected(s) \subseteq BatchesIn(old) \cup sent
  BY <1>1, <1>3 DEF TrailedWhole, Accounted, Clean
<1>9. \A rec \in new : rec = Line(rec.batch)
  <2> SUFFICES ASSUME NEW rec \in new PROVE rec = Line(rec.batch)
    OBVIOUS
  <2>1. rec.batch \in sent /\ rec \in Record /\ rec \in local[s].recs
    BY <1>1 DEF BatchesIn, Log
  <2>2. \A r \in new : r.batch = rec.batch => r = rec
    BY <1>1, <2>1 DEF Accounted
  <2>3. (rec.batch \in bad) <=> rec.errors
    BY <2>1, <2>2
  <2>4. (rec.batch \in late) <=> rec.late
    BY <2>1, <2>2
  <2>5. rec = [batch |-> rec.batch, errors |-> rec.errors, late |-> rec.late]
    BY <2>1 DEF Record
  <2>6. rec.errors \in BOOLEAN /\ rec.late \in BOOLEAN
    BY <2>1 DEF Record
  <2>7. rec.errors = (rec.batch \in bad) /\ rec.late = (rec.batch \in late)
    BY <2>3, <2>4, <2>6
  <2>8. QED
    BY <2>5, <2>7
<1>10. local[s].recs = old \cup {Line(b) : b \in sent}
  <2>1. new = {Line(b) : b \in sent}
    BY <1>9 DEF BatchesIn
  <2>2. QED
    BY <2>1, <1>2
<1>11. local[s] = [recs |-> old \cup {Line(b) : b \in sent}, done |-> local[s].done]
  BY <1>1, <1>10 DEF Log
<1>12. Promise!Publish(s)
  <2>1. \E sent1 \in SUBSET (Selected(s) \ BatchesIn(old)), done \in BOOLEAN :
        \E bad1 \in SUBSET sent1, late1 \in SUBSET sent1 :
          /\ \A b \in sent1 : Before(s, b) \subseteq BatchesIn(old) \cup sent1
          /\ \A b \in bad1, c \in sent1 : c <= b
          /\ \A b \in sent1 \ bad1 : RowsOf(b) \subseteq topic
          /\ done => bad1 = {} /\ Selected(s) \subseteq BatchesIn(old) \cup sent1
          /\ uploaded' = [uploaded EXCEPT ![s] =
               [recs |-> old \cup Promise!Lines(sent1, bad1, late1), done |-> done]]
    <3>1. local[s].done \in BOOLEAN
      BY <1>1 DEF Log
    <3>2. bad \in SUBSET sent /\ late \in SUBSET sent
      OBVIOUS
    <3>3. uploaded' = [uploaded EXCEPT ![s] =
             [recs |-> old \cup Promise!Lines(sent, bad, late), done |-> local[s].done]]
      BY <1>11 DEF Promise!Lines
    <3> WITNESS sent \in SUBSET (Selected(s) \ BatchesIn(old)), local[s].done \in BOOLEAN
    <3> WITNESS bad \in SUBSET sent, late \in SUBSET sent
    <3>4. QED
      BY <1>5, <1>6, <1>7, <1>8, <3>3
  <2>2. ~Promise!Faulty(old)
    BY <1>2 DEF Promise!Faulty, Clean
  <2>3. QED
    BY <1>2, <2>1, <2>2 DEF Promise!Publish, Promise!BatchesIn, BatchesIn, Promise!Before,
       Before, Promise!RowsOf, RowsOf, Promise!Selected, Selected, Promise!Offered, Offered
<1>13. QED
  BY <1>12 DEF Promise!OfferNext, Promise!Shards, Shards

(* The shards implement the promise the readers of their logs rely on:     *)
(* every step of theirs is one of Offer or changes nothing visible.        *)
THEOREM ProducerRefinement == Spec => ImplementsOffer
<1>1. Init => Promise!OfferInit
  BY DEF Init, Promise!OfferInit, Promise!EmptyLog, EmptyLog, Promise!Shards, Shards
<1>2. IInv /\ [Next]_vars => [Promise!OfferNext]_(Promise!offerVars)
  <2> SUFFICES ASSUME IInv, [Next]_vars
               PROVE  [Promise!OfferNext]_(Promise!offerVars)
    OBVIOUS
  <2>1. CASE UNCHANGED vars
    BY <2>1 DEF vars, Promise!offerVars
  <2>2. ASSUME NEW s \in Shards, Begin(s) \/ Send(s) \/ Finish(s) \/ SkipUpload(s) \/ Trail(s)
        PROVE  [Promise!OfferNext]_(Promise!offerVars)
    BY <2>2 DEF Begin, Send, Finish, SkipUpload, Trail, Promise!offerVars
  <2>3. ASSUME NEW s \in Shards, Ack(s) \/ Fail(s) \/ Crash(s)
        PROVE  [Promise!OfferNext]_(Promise!offerVars)
    <3>1. PICK rows \in SUBSET inflight[s] : topic' = topic \cup rows
      <4>1. CASE Ack(s)
        <5>1. PICK r \in inflight[s] : topic' = topic \cup {r}
          BY <4>1 DEF Ack, Served
        <5>2. {r} \in SUBSET inflight[s]
          OBVIOUS
        <5>3. QED
          BY <5>1, <5>2
      <4>2. CASE Fail(s)
        <5>1. PICK r \in inflight[s] : topic' \in {topic, topic \cup {r}}
          BY <4>2 DEF Fail, Served
        <5>2. {r} \in SUBSET inflight[s] /\ {} \in SUBSET inflight[s] /\ topic = topic \cup {}
          OBVIOUS
        <5>3. QED
          BY <5>1, <5>2
      <4>3. CASE Crash(s)
        BY <4>3 DEF Crash
      <4>4. QED
        BY <2>3, <4>1, <4>2, <4>3
    <3>2. UNCHANGED uploaded
      BY <2>3 DEF Ack, Served, Fail, Crash
    <3>3. CASE pc[s] = "sending"
      BY <3>1, <3>2, <3>3, DeliversOrStutters
    <3>4. CASE pc[s] # "sending"
      BY <3>1, <3>2, <3>4 DEF IInv, ShardInv, InHand, Promise!offerVars
    <3>5. QED
      BY <3>3, <3>4
  <2>4. ASSUME NEW s \in Shards, Upload(s) \/ FinalUpload(s)
        PROVE  [Promise!OfferNext]_(Promise!offerVars)
    BY <2>4, UploadPublishes DEF Upload, FinalUpload
  <2>5. QED
    BY <2>1, <2>2, <2>3, <2>4 DEF Next, Step
<1>3. QED
  BY <1>1, <1>2, ProducerInvariant, PTL DEF Spec, ImplementsOffer, Promise!OfferSpec
=============================================================================
