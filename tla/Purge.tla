------------------------------- MODULE Purge -------------------------------
(***************************************************************************)
(* Deleting what a run left behind (scripts/purge.sh), beside the scripts  *)
(* that start and stop the run's scorer (launch.sh and teardown.sh).       *)
(*                                                                         *)
(* A purge takes the table's location from the metadata document teardown  *)
(* saved, or else from the catalog; refuses while the scorer's Job exists; *)
(* asks; and drops the catalog entry, then the table's files, then the     *)
(* run's artifacts.  Each of these may fail, and the operator may purge    *)
(* again.  The scorer's pod outlives its deleted Job for a while.          *)
(***************************************************************************)
EXTENDS Naturals

CONSTANTS Operators,    \* those who run purge.sh for this run
          MaxScripts,   \* bound: the scripts that are started
          Meanwhile     \* TRUE: launch.sh may be run during a purge

ASSUME PurgeAssumption == MaxScripts \in Nat /\ Meanwhile \in BOOLEAN

VARIABLES catalog,     \* the catalog names the table
          files,       \* the table's files are there
          located,     \* the table's location is strictly below the warehouse
          others,      \* the other tables below the warehouse are there
          engine,      \* the engine is up and would create a table it manages
          artifacts,   \* objects are stored under the run's prefix
          saved,       \* teardown copied the metadata document to the run directory
          job, scorerPod,    \* the scorer's Job is there; its pod
          down,        \* where the teardown is
          purge,       \* operator |-> [pc, have, wants, knew, ended]
          scripts      \* the scripts started so far

store == <<catalog, files, others, artifacts>>
cluster == <<job, scorerPod>>
purgeVars == <<store, located, engine, saved, cluster, down, purge, scripts>>

Idle(p) == purge[p].pc = "idle"
ScorerActive == scorerPod \in {"running", "stopping"}

\* A staged run, its table made by the harness or, later, by the engine.
PurgeInit == /\ catalog \in BOOLEAN /\ files = catalog /\ located \in BOOLEAN /\ others = TRUE
             /\ engine \in BOOLEAN /\ artifacts = TRUE /\ saved = FALSE
             /\ job = FALSE /\ scorerPod = "none" /\ down = "idle"
             /\ purge = [p \in Operators |-> [pc |-> "idle", have |-> FALSE, wants |-> FALSE,
                                              knew |-> FALSE, ended |-> "never"]]
             /\ scripts = 0

Start == scripts < MaxScripts /\ scripts' = scripts + 1

----------------------------------------------------------------------------
(* The scorer's Job and pod *)

\* launch.sh deletes an earlier Job and applies its own.
LaunchScorer == /\ Start /\ down = "idle"
                /\ Meanwhile \/ \A p \in Operators : Idle(p)
                /\ job' = TRUE /\ scorerPod' = "running"
                /\ UNCHANGED <<store, located, engine, saved, down, purge>>

\* A table that the engine manages appears with its first commit.
EngineCommits == /\ engine /\ ~catalog
                 /\ catalog' = TRUE /\ files' = TRUE
                 /\ UNCHANGED <<others, artifacts, located, engine, saved, cluster, down, purge, scripts>>

ScorerPodUploads == /\ ScorerActive /\ ~artifacts
                    /\ artifacts' = TRUE
                    /\ UNCHANGED <<catalog, files, others, located, engine, saved, cluster, down, purge, scripts>>

\* A pod that ends by itself leaves its Job there.
ScorerPodEnds == /\ ScorerActive
                 /\ scorerPod' = "none"
                 /\ UNCHANGED <<store, located, engine, saved, job, down, purge, scripts>>

----------------------------------------------------------------------------
(* Teardown: the engine, the Jobs, then a copy of the table's metadata *)

\* The Job goes at once and its pod is only told to stop.
StopScorer == /\ Start /\ down = "idle"
              /\ job' = FALSE
              /\ scorerPod' = IF ScorerActive THEN "stopping" ELSE scorerPod
              /\ engine' = FALSE /\ down' = "metadata"
              /\ UNCHANGED <<store, located, saved, purge>>

\* A catalog that cannot be asked and a copy that fails leave none saved.
SaveDocument == /\ down = "metadata"
                /\ \/ catalog /\ files /\ saved' = TRUE
                   \/ UNCHANGED saved
                /\ down' = "idle"
                /\ UNCHANGED <<store, located, engine, cluster, purge, scripts>>

----------------------------------------------------------------------------
(* Purge *)

At(p, pc) == purge[p].pc = pc
Advance(p, pc) == purge' = [purge EXCEPT ![p].pc = pc]
End(p, how) == purge' = [purge EXCEPT ![p].pc = "idle", ![p].ended = how]
Keep == UNCHANGED <<located, engine, saved, cluster, down, scripts>>

\* Of a stopped run, with --artifacts or not; knew is whether teardown had saved
\* a document by then.
BeginPurge(p, wants) == /\ Start /\ Idle(p) /\ ~engine
                        /\ purge' = [purge EXCEPT ![p] = [pc |-> "look", have |-> FALSE, wants |-> wants,
                                                          knew |-> saved, ended |-> "running"]]
                        /\ UNCHANGED <<store, located, engine, saved, cluster, down>>

Found(p, have) == purge' = [purge EXCEPT ![p].pc = "scorer", ![p].have = have]

\* mutant: the catalog is asked whether or not a document was saved
AskCatalogAlways(p) ==
    /\ At(p, "look")
    /\ \/ End(p, "died")
       \/ catalog /\ files /\ located /\ Found(p, TRUE)
       \/ ~catalog /\ Found(p, FALSE)
    /\ UNCHANGED store /\ Keep

\* A saved document stands for the table; else the catalog is asked, and the
\* document it names is fetched.  Locations that others share are refused.
FindTable(p) ==
    /\ At(p, "look")
    /\ \/ saved /\ located /\ Found(p, TRUE)
       \/ ~saved /\ catalog /\ files /\ located /\ Found(p, TRUE)
       \/ ~saved /\ ~catalog /\ Found(p, FALSE)
       \/ (saved \/ catalog) /\ ~located /\ End(p, "died")
       \/ ~saved /\ End(p, "died")
    /\ UNCHANGED store /\ Keep

CheckScorer(p) == /\ At(p, "scorer")
                  /\ \/ job /\ End(p, "died")
                     \/ ~job /\ ~purge[p].have /\ ~purge[p].wants /\ End(p, "nothing")
                     \/ ~job /\ (purge[p].have \/ purge[p].wants) /\ Advance(p, "confirm")
                     \/ End(p, "died")    \* the cluster could not be asked
                  /\ UNCHANGED store /\ Keep

Confirm(p) == /\ At(p, "confirm")
              /\ \/ Advance(p, IF purge[p].have THEN "drop" ELSE "artifacts")
                 \/ End(p, "died")
              /\ UNCHANGED store /\ Keep

\* drop-table tolerates a table that is absent; its answer may be lost.
DropTable(p) == /\ At(p, "drop")
                /\ \/ catalog' = FALSE /\ (Advance(p, "files") \/ End(p, "died"))
                   \/ End(p, "died") /\ UNCHANGED catalog
                /\ UNCHANGED <<files, others, artifacts>> /\ Keep

Purged(p) == IF purge[p].wants THEN Advance(p, "artifacts") ELSE End(p, "purged")

\* A removal that fails may have removed all or nothing of the prefix; a shared
\* prefix holds the files of other tables too.
RemoveFiles(p) == /\ At(p, "files")
                  /\ \/ files' = FALSE /\ Purged(p)
                     \/ files' \in {files, FALSE} /\ End(p, "died")
                  /\ others' = (others /\ located)
                  /\ UNCHANGED <<catalog, artifacts>> /\ Keep

RemoveArtifacts(p) == /\ At(p, "artifacts")
                      /\ \/ artifacts' = FALSE /\ End(p, "purged")
                         \/ End(p, "died") /\ UNCHANGED artifacts
                      /\ UNCHANGED <<catalog, files, others>> /\ Keep

PurgeStep(p) == \/ \E wants \in BOOLEAN : BeginPurge(p, wants)
                \/ FindTable(p) \/ CheckScorer(p) \/ Confirm(p)
                \/ DropTable(p) \/ RemoveFiles(p) \/ RemoveArtifacts(p)

PurgeNext == \/ LaunchScorer \/ EngineCommits \/ ScorerPodUploads \/ ScorerPodEnds \/ StopScorer \/ SaveDocument
             \/ \E p \in Operators : PurgeStep(p)

PurgeSpec == PurgeInit /\ [][PurgeNext]_purgeVars

----------------------------------------------------------------------------
PurgeTypeOK == /\ catalog \in BOOLEAN /\ files \in BOOLEAN /\ located \in BOOLEAN /\ others \in BOOLEAN
               /\ engine \in BOOLEAN /\ artifacts \in BOOLEAN /\ saved \in BOOLEAN /\ job \in BOOLEAN
               /\ scorerPod \in {"none", "running", "stopping"}
               /\ down \in {"idle", "metadata"}
               /\ purge \in [Operators -> [pc : {"idle", "look", "scorer", "confirm", "drop", "files", "artifacts"},
                                           have : BOOLEAN, wants : BOOLEAN, knew : BOOLEAN,
                                           ended : {"never", "running", "died", "nothing", "purged"}]]
               /\ scripts \in 0..MaxScripts

\* Whatever purges run beside each other and wherever they stop, a table that
\* the catalog names has its files: no reader opens half a table.
CatalogNamesFiles == catalog => files

\* A purge that ends well for a run whose document teardown saved leaves neither
\* entry nor files, however many purges failed before it or run beside it
\* (purge.sh, "so a partial purge can be retried").
SavedRunIsPurged == \A p \in Operators :
    purge[p].ended \in {"nothing", "purged"} /\ purge[p].knew => ~catalog /\ ~files

\* Purging one run leaves the files of every other table below the warehouse,
\* wherever the location came from.
OtherTablesStay == others

=============================================================================
