------------------------------ MODULE Staging ------------------------------
(***************************************************************************)
(* Staging a run (stage.py) and the driver that does it in a cluster Job   *)
(* and fetches the result (the first half of scripts/stage.sh).            *)
(*                                                                         *)
(* An attempt checks that its run's topic is absent, creates topic, table  *)
(* and schema subject, and uploads the run directory file by file.  Only   *)
(* what comes after the topic is inside the try block that removes it.     *)
(* Attempts of one run id race when --stamp names it; drivers race for the *)
(* one Job of a spec's name.  A pod may be killed at any point.            *)
(***************************************************************************)
EXTENDS Naturals, FiniteSets, Sequences, SequencesExt, Functions

CONSTANTS Attempts,  \* the executions of `stage`, positive numbers
          Runs,      \* the run ids, one per spec name and stamp
          Drivers,   \* the machines scripts/stage.sh is run on
          FileOrder  \* the run directory's files, sorted; facts.json first

ASSUME StagingAssumption ==
    /\ Attempts \subseteq Nat \ {0} /\ Runs # {}
    /\ FileOrder \in Seq(Range(FileOrder)) /\ FileOrder # <<>>

RunFiles == Range(FileOrder)

VARIABLES harnessTable,  \* spec.table.managed_by is HARNESS
          att,           \* attempt |-> [pc, run, sent]
          topic, table,  \* run |-> the attempt that made it, or 0
          subjects,      \* the runs whose schema subject is registered
          stored,        \* run |-> file |-> the attempt that uploaded it, or 0
          stageJob,           \* the attempt in the Job stage-<name>, or 0
          driver         \* driver |-> [pc, run, got]

made == <<harnessTable, topic, table, subjects, stored>>
stagingVars == <<made, att, stageJob, driver>>

AttemptOver == {"done", "refused", "failed", "unanswered", "stuck", "killed"}

StagingInit == /\ harnessTable \in BOOLEAN
        /\ att = [a \in Attempts |-> [pc |-> "idle", run |-> CHOOSE r \in Runs : TRUE, sent |-> 0]]
        /\ topic = [r \in Runs |-> 0] /\ table = topic /\ subjects = {}
        /\ stored = [r \in Runs |-> [f \in RunFiles |-> 0]]
        /\ stageJob = 0
        /\ driver = [d \in Drivers |-> [pc |-> "start", run |-> CHOOSE r \in Runs : TRUE,
                                        got |-> [f \in RunFiles |-> 0]]]

----------------------------------------------------------------------------
(* One attempt *)

At(a, pc) == att[a].pc = pc
Goto(a, pc) == att' = [att EXCEPT ![a].pc = pc]
Keep(vs) == UNCHANGED <<vs, stageJob, driver>>

\* The utc_stamp of an attempt that names none: no earlier attempt's.
FreshRuns == Runs \ {att[a].run : a \in {b \in Attempts : ~At(b, "idle")}}

Begin(a, r) == /\ At(a, "idle")
               /\ \A b \in Attempts : b < a => ~At(b, "idle")
               /\ att' = [att EXCEPT ![a] = [pc |-> "check", run |-> r, sent |-> 0]]

\* `stage` by hand: --stamp may name any run, staged or not.
StageByHand == /\ \E a \in Attempts, r \in Runs : Begin(a, r)
               /\ UNCHANGED <<made, stageJob, driver>>

\* A topic that was just created may be missing from the metadata that is read.
TopicSeen(r) == IF topic[r] = 0 THEN {FALSE}
                ELSE IF At(topic[r], "visible") THEN BOOLEAN ELSE {TRUE}

CheckTopic(a) == /\ At(a, "check")
                 /\ \E seen \in TopicSeen(att[a].run) : Goto(a, IF seen THEN "refused" ELSE "create")
                 /\ Keep(made)

\* A create that is refused, that fails, or whose answer is lost, raises outside
\* the try block.
CreateTopic(a) ==
    LET r == att[a].run IN
    /\ At(a, "create")
    /\ IF topic[r] # 0 THEN Goto(a, "refused") /\ UNCHANGED topic
       ELSE \/ /\ topic' = [topic EXCEPT ![r] = a]
               /\ \E pc \in {"visible", "unanswered"} : Goto(a, pc)
            \/ Goto(a, "failed") /\ UNCHANGED topic
    /\ UNCHANGED <<harnessTable, table, subjects, stored, stageJob, driver>>

\* _await_visibility is part of the create too: its timeout removes nothing.
AwaitTopic(a) == /\ At(a, "visible")
                 /\ \E pc \in {"table", "unanswered"} : Goto(a, pc)
                 /\ Keep(made)

\* An engine-owned table is only rendered as DDL.  A table that exists is an
\* error, and so is a commit whose answer is lost.
CreateTable(a) ==
    LET r == att[a].run IN
    /\ At(a, "table")
    /\ IF ~harnessTable THEN Goto(a, "register") /\ UNCHANGED table
       ELSE IF table[r] # 0 THEN Goto(a, "cleanup") /\ UNCHANGED table
       ELSE /\ table' = [table EXCEPT ![r] = a]
            /\ \E pc \in {"register", "cleanup"} : Goto(a, pc)
    /\ UNCHANGED <<harnessTable, topic, subjects, stored, stageJob, driver>>

\* Registering the same schema again is idempotent.
RegisterSchema(a) == /\ At(a, "register")
                     /\ subjects' = subjects \union {att[a].run}
                     /\ \E pc \in {"publish", "cleanup"} : Goto(a, pc)
                     /\ UNCHANGED <<harnessTable, topic, table, stored, stageJob, driver>>

\* mutant: an upload that fails is skipped
SkipFailedFile(a) ==
    LET r == att[a].run
        f == FileOrder[att[a].sent + 1] IN
    /\ At(a, "publish") /\ att[a].sent < Len(FileOrder)
    /\ stored' \in {stored, [stored EXCEPT ![r][f] = a]}
    /\ att' = [att EXCEPT ![a].sent = @ + 1]
    /\ UNCHANGED <<harnessTable, topic, table, subjects, stageJob, driver>>

\* publish_run_dir uploads one file after the other, in sorted order.
PublishFile(a) ==
    LET r == att[a].run
        f == FileOrder[att[a].sent + 1] IN
    /\ At(a, "publish") /\ att[a].sent < Len(FileOrder)
    /\ \/ /\ stored' = [stored EXCEPT ![r][f] = a]
          /\ att' = [att EXCEPT ![a].sent = @ + 1]
       \/ Goto(a, "cleanup") /\ UNCHANGED stored
    /\ UNCHANGED <<harnessTable, topic, table, subjects, stageJob, driver>>

Finish(a) == /\ At(a, "publish") /\ att[a].sent = Len(FileOrder)
             /\ Goto(a, "done")
             /\ Keep(made)

\* admin.delete goes by name; its request may fail, before or after it is served.
DeleteTopic(a) ==
    /\ At(a, "cleanup")
    /\ \/ topic' = [topic EXCEPT ![att[a].run] = 0] /\ \E pc \in {"failed", "stuck"} : Goto(a, pc)
       \/ Goto(a, "stuck") /\ UNCHANGED topic
    /\ UNCHANGED <<harnessTable, table, subjects, stored, stageJob, driver>>

\* The pod is evicted, deleted with its Job, or the process killed: nothing is cleaned up.
Kill(a) == /\ att[a].pc \notin AttemptOver \union {"idle"}
           /\ Goto(a, "killed")
           /\ Keep(made)

StageStep(a) == \/ CheckTopic(a) \/ CreateTopic(a) \/ AwaitTopic(a) \/ CreateTable(a)
                \/ RegisterSchema(a) \/ PublishFile(a) \/ Finish(a) \/ DeleteTopic(a) \/ Kill(a)

----------------------------------------------------------------------------
(* scripts/stage.sh *)

DriverAt(d, pc) == driver[d].pc = pc
DriverGoto(d, pc) == driver' = [driver EXCEPT ![d].pc = pc]

\* The previous Job of the name goes first; its pod may run on for a while.
DeletePrevious(d) == /\ DriverAt(d, "start")
                     /\ stageJob' = 0 /\ DriverGoto(d, "apply")
                     /\ UNCHANGED <<made, att>>

\* Applying the manifest of a Job another driver has just created changes nothing.
ApplyJob(d) == /\ DriverAt(d, "apply")
               /\ DriverGoto(d, "wait")
               /\ IF stageJob # 0 THEN UNCHANGED <<stageJob, att>>
                  ELSE \E a \in Attempts, r \in FreshRuns : Begin(a, r) /\ stageJob' = a
               /\ UNCHANGED made

\* k8s_wait_job: a Job that is gone, failed or late ends the script, not the pod.
WaitJob(d) == /\ DriverAt(d, "wait")
              /\ \/ stageJob # 0 /\ At(stageJob, "done") /\ DriverGoto(d, "log")
                 \/ DriverGoto(d, "died")
              /\ UNCHANGED <<made, att, stageJob>>

\* The run id is read from the log of whatever Job has the name by now; only a
\* pod that has finished staging has printed one.
ReadLog(d) == /\ DriverAt(d, "log")
              /\ IF stageJob # 0 /\ At(stageJob, "done")
                 THEN driver' = [driver EXCEPT ![d].pc = "sync", ![d].run = att[stageJob].run]
                 ELSE DriverGoto(d, "died")
              /\ UNCHANGED <<made, att, stageJob>>

Sync(d) == /\ DriverAt(d, "sync")
           /\ \/ /\ stored[driver[d].run][Head(FileOrder)] # 0
                 /\ driver' = [driver EXCEPT ![d].pc = "drop", ![d].got = stored[driver[d].run]]
              \/ DriverGoto(d, "died")
           /\ UNCHANGED <<made, att, stageJob>>

\* The Job of the name is deleted, whoever's it is by now.
DropJob(d) == /\ DriverAt(d, "drop")
              /\ stageJob' = 0 /\ DriverGoto(d, "fetched")
              /\ UNCHANGED <<made, att>>

\* stage.sh is run again, on the same machine.
Rerun(d) == /\ driver[d].pc \in {"died", "fetched"}
            /\ DriverGoto(d, "start")
            /\ UNCHANGED <<made, att, stageJob>>

DriverStep(d) == \/ DeletePrevious(d) \/ ApplyJob(d) \/ WaitJob(d) \/ ReadLog(d)
                 \/ Sync(d) \/ DropJob(d) \/ Rerun(d)

StagingNext == \/ StageByHand
        \/ \E a \in Attempts : StageStep(a)
        \/ \E d \in Drivers : DriverStep(d)

StagingSpec == StagingInit /\ [][StagingNext]_stagingVars

----------------------------------------------------------------------------
(* Properties *)

\* A run that was staged has a topic and, when the harness owns it, a table that
\* its own attempt created empty, and no other attempt of the same id, failing
\* or finishing, ever takes them away (stage.py's check, create and cleanup).
StagedIsItsOwn ==
    \A a \in Attempts : At(a, "done") =>
        /\ topic[att[a].run] = a /\ att[a].run \in subjects
        /\ harnessTable => table[att[a].run] = a

\* "Delete the topic on errors and interrupts so staging can be retried" (stage.py):
\* a topic that stands, and so refuses every later attempt of its run, is of the
\* attempt that made it for that run, while it is at work or done, or when nothing
\* could delete it: it was killed, its request to delete failed, or, before the
\* try block, the creation was not answered or not visible in time.
Excused == {"unanswered", "stuck", "killed"}
LeftTopicIsExcused ==
    \A a \in Attempts, r \in Runs : topic[r] = a =>
        /\ att[a].run = r
        /\ att[a].pc \in {"visible", "table", "register", "publish", "cleanup", "done"} \union Excused

\* What a driver fetched is the whole directory of one completed staging: never
\* files of an attempt that failed, or of two attempts; and what that staging
\* made is still there (stage.sh with stage.py). A topic left behind is excused.
FetchedIsStaged ==
    /\ StagedIsItsOwn /\ LeftTopicIsExcused
    /\ \A d \in Drivers : driver[d].pc \in {"drop", "fetched"} =>
          \E a \in Attempts : /\ At(a, "done") /\ att[a].run = driver[d].run
                              /\ \A f \in RunFiles : driver[d].got[f] = a

=============================================================================
