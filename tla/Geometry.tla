------------------------------- MODULE Geometry -------------------------------
(***************************************************************************)
(* File geometry (scorer/geometry.py, file-sizes of scorer/cli.py) and the *)
(* reading of snapshots and manifests it shares with the scorer            *)
(* (scorer/snapshots.py), against what the commits of a table really did.  *)
(*                                                                         *)
(* The table and its format are not part of the repository: a snapshot     *)
(* lists manifests, a manifest has entries for files that were added, that *)
(* exist or that were deleted, and commits keep, rewrite or merge the      *)
(* manifests of the snapshot before. Writers' clocks are off by up to      *)
(* Skew. A table is measured at any time, in the middle of a run too.      *)
(***************************************************************************)
EXTENDS Integers, FiniteSets, Sequences

CONSTANTS
  Surveys,  \* the tables that are looked at, and how
  Absent    \* no report; no snapshot

Survey ==
  [offsets    : Seq(Nat), \* geometry offsets, ascending
   epoch      : Nat,      \* the run's time origin
   skew       : Nat,      \* how far a writer's clock may be off
   maxTime    : Nat,      \* bound: time that passes
   maxCommits : Nat,      \* bound: snapshots committed
   maxFiles   : Nat]      \* bound: files one append adds

ASSUME GeometryAssumption ==
  /\ Surveys \subseteq Survey /\ Absent \notin Int
  /\ \A s \in Surveys : \A i, j \in DOMAIN s.offsets : i < j => s.offsets[i] < s.offsets[j]

VARIABLES
  survey,    \* the one that is made
  snapshots, \* every snapshot committed, by sequence number
  expired,   \* snapshots up to this one are no longer in the metadata
  legacy,    \* format version 1: snapshots have no sequence number, and manifest
             \* lists do not say which snapshot added a manifest
  log,       \* what each commit did: when, the files written, the table after it
  now

geometryVars == <<survey, snapshots, expired, legacy, log, now>>

Offsets == survey.offsets
Epoch   == survey.epoch
Skew    == survey.skew

-----------------------------------------------------------------------------
(* Commits. An entry is a file with its status, the snapshot of that       *)
(* status's file, and whether it holds data rather than deletes.           *)
Entry(file, status, snapshot, data) ==
  [file |-> file, status |-> status, snapshot |-> snapshot, data |-> data]
LiveEntries(m) == {e \in m.entries : e.status # "deleted"}
Existing(es)   == {[e EXCEPT !.status = "existing"] : e \in es}

Latest == Len(snapshots)
This   == Latest + 1
Manifest(entries) == [added |-> IF legacy THEN Absent ELSE This, entries |-> entries]

Current   == IF Latest = 0 THEN {} ELSE snapshots[Latest].manifests
LiveNow   == IF Latest = 0 THEN {} ELSE log[Latest].live
FilesUsed == UNION {UNION {{e.file : e \in m.entries} : m \in snapshots[n].manifests} : n \in 1 .. Latest}

(* Manifests of the last snapshot, carried over: those with a dropped file *)
(* are rewritten, those without live entries left out.                     *)
Carried(drop) ==
  {m \in Current : LiveEntries(m) # {} /\ \A e \in LiveEntries(m) : e.file \notin drop}
    \cup {Manifest({IF e.file \in drop THEN [e EXCEPT !.status = "deleted", !.snapshot = This]
                    ELSE [e EXCEPT !.status = "existing"] : e \in LiveEntries(m)}) :
            m \in {o \in Current : \E e \in LiveEntries(o) : e.file \in drop}}

Merged == Existing(UNION {LiveEntries(m) : m \in Current})

Added(files, data) == {Entry(f, "added", This, data) : f \in files}

Commit(manifests, written, live) ==
  /\ Latest < survey.maxCommits
  /\ \E ts \in now - Skew .. now + Skew : snapshots' = Append(snapshots, [manifests |-> manifests, ts |-> ts])
  /\ log' = Append(log, [at |-> now, written |-> written, live |-> live])
  /\ UNCHANGED <<survey, expired, legacy, now>>

NewFiles(n) == (Cardinality(FilesUsed) + 1) .. (Cardinality(FilesUsed) + n)

AppendFiles(n) ==
  LET new == NewFiles(n) IN
    \/ Commit(Carried({}) \cup {Manifest(Added(new, TRUE))}, new, LiveNow \cup new)
    \/ Commit({Manifest(Merged \cup Added(new, TRUE))}, new, LiveNow \cup new)

(* Compaction or an overwrite: one file for some.                          *)
Rewrite ==
  \E drop \in (SUBSET LiveNow) \ {{}} :
    Commit(Carried(drop) \cup {Manifest(Added(NewFiles(1), TRUE))}, NewFiles(1),
           (LiveNow \ drop) \cup NewFiles(1))

AddDeletes == Commit(Carried({}) \cup {Manifest(Added(NewFiles(1), FALSE))}, {}, LiveNow)

RewriteManifests == Current # {} /\ Commit({Manifest(Merged)}, {}, LiveNow)

Expire == expired + 1 < Latest /\ expired' = expired + 1 /\ UNCHANGED <<survey, snapshots, legacy, log, now>>

GeometryTick == now < survey.maxTime /\ now' = now + 1 /\ UNCHANGED <<survey, snapshots, expired, legacy, log>>

GeometryInit ==
  /\ survey \in Surveys
  /\ snapshots = <<>> /\ expired = 0 /\ legacy \in BOOLEAN /\ log = <<>> /\ now = 0

GeometryNext ==
  \/ \E n \in 1 .. survey.maxFiles : AppendFiles(n)
  \/ Rewrite \/ AddDeletes \/ RewriteManifests \/ Expire \/ GeometryTick

GeometrySpec == GeometryInit /\ [][GeometryNext]_geometryVars

-----------------------------------------------------------------------------
(* Expired snapshots are gone.                                             *)
Kept == expired + 1 .. Latest

(* snapshots_in_order: by sequence number, which is the id here, and then  *)
(* by timestamp.                                                           *)
SequenceNumber(n)  == IF legacy THEN 0 ELSE n
Earlier(n, k)      == snapshots[n].ts < snapshots[k].ts
CommitOrder(n, k)  ==
  \/ SequenceNumber(n) < SequenceNumber(k)
  \/ SequenceNumber(n) = SequenceNumber(k) /\ Earlier(n, k)
InOrder(ids) ==
  CHOOSE s \in [1 .. Cardinality(ids) -> ids] :
    \A i, j \in DOMAIN s : i < j => s[i] # s[j] /\ ~CommitOrder(s[j], s[i])

(* added_files                                                             *)
AddedFiles(n) ==
  {e.file : e \in {x \in UNION {LiveEntries(m) : m \in {o \in snapshots[n].manifests : o.added \in {Absent, n}}} :
                     x.status = "added" /\ x.snapshot = n /\ x.data}}

(* data_files_at                                                           *)
DataFilesAt(n) == {e.file : e \in {x \in UNION {LiveEntries(m) : m \in snapshots[n].manifests} : x.data}}

(* _prefix_end: the history visible by a time ends before the first later  *)
(* timestamp. Zero stands for none.                                        *)
PrefixEnd(ordered, at) ==
  LET later == {i \in DOMAIN ordered : snapshots[ordered[i]].ts > at}
  IN  IF later = {} THEN Len(ordered) ELSE (CHOOSE i \in later : \A j \in later : i <= j) - 1

(* A point: the snapshot, and the commits since the last point.            *)
Point(ordered, reached, boundary) ==
  [snapshot |-> ordered[reached], live |-> DataFilesAt(ordered[reached]),
   commits  |-> {ordered[i] : i \in boundary .. reached}]

(* Which offsets have a point, and which commits it is of. An offset       *)
(* past the last commit, or before the first, does not move it.            *)
PastEnd(ordered, at) == at > snapshots[ordered[Len(ordered)]].ts

(* The commits after a point begin behind it; by the mutant, with it.      *)
BoundaryAt(reached) == reached
Boundary(reached)   == reached + 1

Reached(ordered, k) == PrefixEnd(ordered, Epoch + Offsets[k])
Present(ordered) ==
  {k \in DOMAIN Offsets : ~PastEnd(ordered, Epoch + Offsets[k]) /\ Reached(ordered, k) # 0}

(* The commits of the point k begin behind the point before it.            *)
Since(ordered, k) ==
  LET before == {j \in Present(ordered) : j < k}
  IN  IF before = {} THEN 1
      ELSE Boundary(Reached(ordered, CHOOSE j \in before : \A i \in before : i <= j))

(* geometry_report of the metadata as it is: offsets without a point are   *)
(* absent from it, and all of it is while there are no snapshots.          *)
Report ==
  LET ordered == InOrder(Kept)
  IN  IF Kept = {} THEN [at |-> [k \in {} |-> Absent], final |-> Absent]
      ELSE [at    |-> [k \in Present(ordered) |-> Point(ordered, Reached(ordered, k), Since(ordered, k))],
            final |-> Point(ordered, Len(ordered), Since(ordered, Len(Offsets) + 1))]

-----------------------------------------------------------------------------

(* What the manifests of a snapshot are read to have added is what its     *)
(* commit wrote: each file is counted at one commit, however manifests are *)
(* rewritten, merged or inherited, with or without their snapshot's id.    *)
AddedIsWritten == \A n \in Kept : AddedFiles(n) = log[n].written

(* The live files read at a snapshot are the data files of the table then, *)
(* and the final point is the table's last state, whatever the clocks of   *)
(* its writers, as long as it has sequence numbers.                        *)
LiveIsTheTable ==
  /\ \A n \in Kept : DataFilesAt(n) = log[n].live
  /\ Kept # {} /\ ~legacy => Report.final.live = LiveNow

(* The files reported for an offset were the table's at a time no further  *)
(* from it than the clocks' skew, and not at one that has not come yet, as *)
(* long as the table has sequence numbers.                                 *)
PointWithinSkew ==
  ~legacy => \A k \in DOMAIN Report.at :
    \E t \in (Epoch + Offsets[k] - Skew) .. (Epoch + Offsets[k] + Skew), n \in 1 .. Latest :
      /\ log[n].at <= t /\ t <= now /\ (n < Latest => t <= log[n + 1].at)
      /\ Report.at[k].live = log[n].live

(* "each commit belongs to at most one reported interval"                  *)
(* (geometry.py:173): and to one, the final interval included.             *)
EachCommitOnce ==
  LET points == DOMAIN Report.at IN
    Kept # {} =>
      /\ \A j, k \in points : j # k => Report.at[j].commits \cap Report.at[k].commits = {}
      /\ \A k \in points : Report.at[k].commits \cap Report.final.commits = {}
      /\ Report.final.commits \cup UNION {Report.at[k].commits : k \in points} = Kept

(* The geometry report shows the table: its points within the writers'     *)
(* skew, each commit once, and the files that the commits really wrote and *)
(* left, however their manifests were rewritten, merged or inherited.      *)
ReportIsTheTable == AddedIsWritten /\ LiveIsTheTable /\ PointWithinSkew /\ EachCommitOnce
=============================================================================
