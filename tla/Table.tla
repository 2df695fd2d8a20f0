-------------------------------- MODULE Table --------------------------------
(***************************************************************************)
(* The Iceberg table as the scorer meets it, written by an engine that is  *)
(* not part of the repository: what is modelled is what the scorer reads   *)
(* of it. The engine reads the topic and commits snapshots; it may lose    *)
(* rows, commit a row more than once, compact files and expire snapshots.  *)
(***************************************************************************)
EXTENDS Offer, Sequences

CONSTANTS
  MaxCommits,  \* bound: snapshots committed
  MaxFiles     \* bound: data files one append adds

ASSUME TableAssumption == MaxCommits \in Nat /\ MaxFiles \in Nat \ {0}

VARIABLES
  table,     \* the snapshots, in commit order
  expired,   \* snapshots whose metadata the table no longer keeps
  conforms   \* whether the table has the corpus's columns and types

tableVars == <<table, expired, conforms>>

NewFile(part, rows) == [snapshot |-> Len(table) + 1, part |-> part, rows |-> rows]

Committed == UNION {f.rows : f \in UNION {table[n].files : n \in DOMAIN table}}

TableInit == table = <<>> /\ expired = {} /\ conforms \in BOOLEAN

(* The engine appends rows it has read from the topic, new ones or, after  *)
(* a restart, rows it has committed before.                                *)
AppendCommit ==
  /\ Len(table) < MaxCommits
  /\ \E parts \in 1 .. MaxFiles : \E content \in [1 .. parts -> (SUBSET topic) \ {{}}] :
       table' = Append(table, [op    |-> "append",
                               files |-> {NewFile(i, content[i]) : i \in 1 .. parts}])
  /\ UNCHANGED <<expired, conforms>>

(* Compaction rewrites what the table holds into one file.                 *)
Compact ==
  /\ Len(table) \in 1 .. MaxCommits - 1
  /\ table' = Append(table, [op |-> "replace", files |-> {NewFile(1, Committed)}])
  /\ UNCHANGED <<expired, conforms>>

Expire ==
  /\ \E n \in 1 .. Len(table) - 1 : n \notin expired /\ expired' = expired \cup {n}
  /\ UNCHANGED <<table, conforms>>

TableNext == AppendCommit \/ Compact \/ Expire
=============================================================================
