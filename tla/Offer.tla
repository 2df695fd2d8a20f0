-------------------------------- MODULE Offer --------------------------------
(***************************************************************************)
(* What the producer promises to everything that reads its publish logs.   *)
(*                                                                         *)
(* topic holds the rows the broker has accepted; log is the copy of each   *)
(* shard's publish log visible in the object store. A visible log only     *)
(* grows, in batch order; a record without errors stands for a batch whose *)
(* rows are all in the topic; nothing follows a failed batch; and the      *)
(* trailer appears only on a log that holds the shard's whole share.       *)
(* Producer is the program; it implements this specification.              *)
(***************************************************************************)
EXTENDS Replay

VARIABLES topic, log

offerVars == <<topic, log>>

Faulty(recs) == \E rec \in recs : rec.errors

OfferInit ==
  /\ topic = {}
  /\ log   = [s \in Shards |-> EmptyLog]

(* Rows of a batch no visible log records yet reach the topic.             *)
Deliver ==
  \E b \in Offered, rows \in SUBSET RowIds :
    /\ rows # {} /\ rows \subseteq RowsOf(b) \ topic
    /\ \A s \in Shards : b \notin BatchesIn(log[s].recs)
    /\ topic' = topic \cup rows
    /\ UNCHANGED log

(* The records of the batches sent, of which some failed or were late.     *)
Lines(sent, bad, late) ==
  {[batch |-> b, errors |-> b \in bad, late |-> b \in late] : b \in sent}

(* A shard uploads its log. It has grown by the batches sent, in the order *)
(* of the share; at most the last of them, bad, had a failed delivery, and *)
(* then nothing is sent after it. Every other batch sent is delivered.     *)
Publish(s) ==
  LET old == log[s].recs IN
  /\ ~log[s].done
  /\ ~Faulty(old)
  /\ \E sent \in SUBSET (Selected(s) \ BatchesIn(old)), done \in BOOLEAN :
     \E bad \in SUBSET sent, late \in SUBSET sent :
       /\ \A b \in sent : Before(s, b) \subseteq BatchesIn(old) \cup sent
       /\ \A b \in bad, c \in sent : c <= b
       /\ \A b \in sent \ bad : RowsOf(b) \subseteq topic
       /\ done => bad = {} /\ Selected(s) \subseteq BatchesIn(old) \cup sent
       /\ log' = [log EXCEPT ![s] =
            [recs |-> old \cup Lines(sent, bad, late), done |-> done]]
  /\ UNCHANGED topic

OfferNext == Deliver \/ \E s \in Shards : Publish(s)

OfferSpec == OfferInit /\ [][OfferNext]_offerVars
=============================================================================
