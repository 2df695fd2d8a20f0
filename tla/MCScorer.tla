------------------------------ MODULE MCScorer ------------------------------
(***************************************************************************)
(* Bounded worlds for the scorer. Next is explored with two reductions:    *)
(* Interleaving removes orders that no step can tell apart, and the        *)
(* constraints fix details of the environment that are interchangeable.    *)
(***************************************************************************)
EXTENDS Scorer

MCRowCount == [b \in Batches |-> 1]

(* The scorer reads the logs only at list, trailers and records, the        *)
(* table's snapshots only at load, and its clock only at evaluate. A step   *)
(* of the environment taken anywhere else commutes with the scorer's steps  *)
(* up to the next such place, and is taken there. A lost pod changes only   *)
(* its place, after which no property under this constraint can change.     *)
Interleaving ==
  /\ offerVars # offerVars' => pc \in {"list", "trailers", "records"}
  /\ tableVars # tableVars' => pc = "load"
  /\ idle' > idle           => pc = "evaluate"
  /\ pc' = "exited"         => pc \in {"mirror", "exited"}

(* Only batch 0 has a failed delivery, only the last batch is late, and a   *)
(* table that does not conform is not read, so that one commit is enough.   *)
SmallWorld ==
  /\ \A s \in Shards : \A rec \in log[s].recs :
       /\ rec.errors => rec.batch = 0
       /\ rec.late   => rec.batch = NBatches - 1
  /\ ~conforms => Len(table) <= 1

(* One conforming table, every delivery good and on time, appended files    *)
(* of one row, and only the first commit has more than one file or expires: *)
(* the run is then a matter of which commits are read, and when.            *)
GoodOffer ==
  /\ SmallWorld /\ conforms /\ expired \subseteq {1}
  /\ \A s \in Shards : \A rec \in log[s].recs : ~rec.errors /\ ~rec.late
  /\ \A n \in DOMAIN table : table[n].op = "append" =>
       \A f \in table[n].files : Cardinality(f.rows) = 1
  /\ \A n \in DOMAIN table : n > 1 => Cardinality(table[n].files) = 1
=============================================================================
