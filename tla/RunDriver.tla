------------------------------ MODULE RunDriver ------------------------------
(***************************************************************************)
(* One run from end to end (scripts/run.sh) with the scripts it calls:     *)
(* launch.sh, gate.sh, teardown.sh and finish.sh.  They form one process,  *)
(* which may fail at every command; beside it runs the scorer's pod, which *)
(* uploads its artifacts when it likes.                                    *)
(*                                                                         *)
(* The gate's verdict is arbitrary here (module Gate says which it is).    *)
(* A script's position in the shell is its place; gate.sh and run.sh both  *)
(* call teardown.sh, and caller says which.                                *)
(***************************************************************************)
EXTENDS Integers, FiniteSets

CONSTANTS
  RunMax,    \* RUN_MAX_S, in ticks
  Interval,  \* --gate-interval-s, in ticks
  Breaches,  \* --breaches
  Managed    \* whether the engine is managed (else external)

ASSUME RunAssumption ==
  /\ RunMax \in Nat /\ Interval \in Nat \ {0} /\ Breaches \in Nat \ {0}
  /\ Managed \in BOOLEAN

VARIABLES
  pc,              \* the place of the process
  caller,          \* the script that called teardown.sh
  clock,           \* ticks since the launch, up to RunMax
  live,            \* what stands in the cluster
  launched,        \* whether launch.sh succeeded
  gateStatus,      \* exit status of the last gate.sh
  breaches,        \* the count in gate-breaches, 0 without the file
  streak,          \* non-PASS verdicts since the last PASS (history)
  overran,         \* OVERRAN
  metadata,        \* whether table-metadata.final.json exists
  teardownStatus,  \* TEARDOWN_STATUS
  status,          \* exit status of run.sh
  pod,             \* the scorer's pod
  outcome,         \* the verdict on the pod's disk
  remote,          \* its artifacts under runs_root
  local,           \* their copies in the run directory
  toSync,          \* what "aws s3 sync" has listed and not copied yet
  fetched,         \* whether finish.sh has fetched the artifacts
  lingered,        \* whether the pod was alive when it began (history)
  published        \* the artifacts a published result was made from

driver == <<pc, caller, clock, launched, gateStatus, breaches, streak, overran,
            metadata, teardownStatus, status>>
podVars   == <<pod, outcome, remote>>
finishing == <<local, toSync, fetched, lingered, published>>
vars == <<driver, live, podVars, finishing>>

(* What the scorer uploads: the files that it writes at the end, and       *)
(* summary.json, which it rewrites all along.                              *)
Artifacts == {"evidence", "summary"}
Final     == {"valid", "invalid"}
Version   == {"none", "running"} \cup Final
Absent    == [a \in Artifacts |-> "none"]

Resources == {"engine", "producer", "scorer", "topic", "dropJob"}

TeardownFailed == 6
Running        == -1

Teardown == {"tdStart", "tdProducer", "tdScorer", "tdTopic", "tdFetch", "tdSync",
             "tdMetadata"}
Finish   == {"finFetch", "finSync", "finCollect", "finPublish", "finVerdict"}
Places   == {"stage", "launch", "firstPoll", "offer", "loop", "gate", "count", "saved",
             "limit", "summary", "exit"} \cup Teardown \cup Finish

-----------------------------------------------------------------------------
Init ==
  /\ pc = "stage" /\ caller = "run" /\ clock = 0 /\ live = {}
  /\ launched = FALSE /\ gateStatus = 0 /\ breaches = 0 /\ streak = 0
  /\ overran = FALSE /\ metadata = FALSE /\ teardownStatus = 0 /\ status = Running
  /\ pod = "none" /\ outcome = "running" /\ remote = Absent
  /\ local = Absent /\ toSync = {} /\ fetched = FALSE /\ lingered = FALSE
  /\ published = Absent

Goto(place) == pc' = place

(* The script dies and run.sh with it (set -e, or exit "$LAUNCH_STATUS").  *)
Die == pc' = "exit" /\ status' = 1

Spend == \E t \in clock..RunMax : clock' = t

(* stage.sh: topic, table and engine stand, or it failed on the way.       *)
Staged == IF Managed THEN {"topic", "engine"} ELSE {"topic"}

Stage ==
  /\ pc = "stage"
  /\ \/ live' = Staged /\ Goto("launch") /\ UNCHANGED status
     \/ live' \in SUBSET Staged /\ Die
  /\ UNCHANGED <<caller, clock, launched, gateStatus, breaches, streak, overran, metadata,
                 teardownStatus, podVars, finishing>>

(* launch.sh, or an external engine that never became ready.               *)
StartScorer ==
  /\ pc = "launch"
  /\ \/ /\ live' = live \cup {"scorer"} /\ pod' = "running"
        /\ \/ Goto("firstPoll") /\ UNCHANGED status
           \/ Die
     \/ UNCHANGED <<live, pod>> /\ Die
  /\ UNCHANGED <<caller, clock, launched, gateStatus, breaches, streak, overran, metadata,
                 teardownStatus, outcome, remote, finishing>>

(* A POLL line follows the upload of the first summary.  The wait for it   *)
(* may time out, or leave under 30 s to the epoch.                         *)
FirstPoll ==
  /\ pc = "firstPoll"
  /\ \/ remote["summary"] # "none" /\ Goto("offer") /\ UNCHANGED status
     \/ Die
  /\ UNCHANGED <<caller, clock, live, launched, gateStatus, breaches, streak, overran, metadata,
                 teardownStatus, podVars, finishing>>

(* The producer's Job, then the epoch in facts.json.                       *)
StartOffer ==
  /\ pc = "offer"
  /\ \/ /\ live' = live \cup {"producer"} /\ launched' = TRUE
        /\ Goto("loop") /\ UNCHANGED status
     \/ live' \in {live, live \cup {"producer"}} /\ UNCHANGED launched /\ Die
  /\ UNCHANGED <<caller, clock, gateStatus, breaches, streak, overran, metadata,
                 teardownStatus, podVars, finishing>>

-----------------------------------------------------------------------------
(* The loop of run.sh.                                                     *)

CallTeardown(from) == caller' = from /\ Goto("tdStart")

(* Mutant: a run whose gate passed it last is left to go on.               *)
OverdueUnlessPassed == clock >= RunMax /\ gateStatus # 0

Overdue == clock >= RunMax

(* Past the deadline, tear down; else sleep, and look again at the clock.  *)
Loop ==
  /\ pc = "loop"
  /\ \/ Overdue /\ overran' = TRUE /\ CallTeardown("run") /\ UNCHANGED clock
     \/ /\ ~Overdue
        /\ clock' = IF clock + Interval < RunMax THEN clock + Interval ELSE RunMax
        /\ Goto(IF clock' < RunMax THEN "gate" ELSE "loop")
        /\ UNCHANGED <<overran, caller>>
  /\ UNCHANGED <<live, launched, gateStatus, breaches, streak, metadata, teardownStatus, status,
                 podVars, finishing>>

(* gate.sh downloads and judges; without artifacts it dies, uncounted.     *)
Judge ==
  /\ pc = "gate"
  /\ Spend
  /\ \/ gateStatus' = 1 /\ Goto("saved")
     \/ remote["summary"] # "none" /\ gateStatus' \in {0, 1, 3, 5} /\ Goto("count")
  /\ UNCHANGED <<caller, live, launched, breaches, streak, overran, metadata, teardownStatus,
                 status, podVars, finishing>>

(* Mutant: a PASS leaves the file alone.                                   *)
NeverForgotten(verdict) == IF verdict = 0 THEN breaches ELSE breaches + 1

BreachesAfter(verdict) == IF verdict = 0 THEN 0 ELSE breaches + 1

(* It counts, and tears the run down at the limit.                         *)
Count ==
  /\ pc = "count"
  /\ breaches' = BreachesAfter(gateStatus)
  /\ streak' = IF gateStatus = 0 THEN 0 ELSE streak + 1
  /\ IF gateStatus # 0 /\ breaches' >= Breaches
     THEN CallTeardown("gate")
     ELSE Goto("saved") /\ UNCHANGED caller
  /\ UNCHANGED <<clock, live, launched, gateStatus, overran, metadata, teardownStatus, status,
                 podVars, finishing>>

(* Back in run.sh: saved metadata says that the gate tore the run down.    *)
TornDown ==
  /\ pc = "saved"
  /\ Goto(IF metadata THEN "finFetch" ELSE "limit")
  /\ UNCHANGED <<caller, clock, live, launched, gateStatus, breaches, streak, overran, metadata,
                 teardownStatus, status, podVars, finishing>>

(* Mutant: the driver waits for one breach more than the gate.             *)
BeyondLimit == gateStatus # 0 /\ breaches > Breaches

AtLimit == gateStatus # 0 /\ breaches >= Breaches

(* Without it, the gate's teardown failed or found no table: repeat it.    *)
Limit ==
  /\ pc = "limit"
  /\ IF AtLimit THEN CallTeardown("run") ELSE Goto("summary") /\ UNCHANGED caller
  /\ UNCHANGED <<clock, live, launched, gateStatus, breaches, streak, overran, metadata,
                 teardownStatus, status, podVars, finishing>>

(* The summary's state ends the loop; an unreadable one does not.          *)
ReadSummary ==
  /\ pc = "summary"
  /\ Spend
  /\ \/ Goto("loop") /\ UNCHANGED caller
     \/ remote["summary"] \in Final /\ CallTeardown("run")
  /\ UNCHANGED <<live, launched, gateStatus, breaches, streak, overran, metadata, teardownStatus,
                 status, podVars, finishing>>

-----------------------------------------------------------------------------
(* teardown.sh.  gate.sh only logs its failure, run.sh keeps its status.   *)

(* Mutant: run.sh only logs it too.                                        *)
ReturnLogged(failed) ==
  /\ Goto(IF caller = "gate" THEN "saved" ELSE "finFetch")
  /\ UNCHANGED teardownStatus

Return(failed) ==
  /\ Goto(IF caller = "gate" THEN "saved" ELSE "finFetch")
  /\ IF caller = "run" THEN teardownStatus' = (IF failed THEN 1 ELSE 0)
     ELSE UNCHANGED teardownStatus

(* kubectl delete: a failed one may or may not have deleted.               *)
Delete(things, next) ==
  \/ live' = live \ things /\ Goto(next) /\ UNCHANGED teardownStatus
  \/ live' \in {live, live \ things} /\ Return(TRUE)

TeardownStep == UNCHANGED <<caller, clock, launched, gateStatus, breaches, streak, overran, status>>

(* The checks before the first deletion are part of it.                    *)
DeleteEngine ==
  /\ pc = "tdStart" /\ Delete({"engine"}, "tdProducer")
  /\ TeardownStep /\ UNCHANGED <<metadata, podVars, finishing>>

DeleteProducer ==
  /\ pc = "tdProducer" /\ Delete({"producer"}, "tdScorer")
  /\ TeardownStep /\ UNCHANGED <<metadata, podVars, finishing>>

(* The Job's object goes; its pod may run on through its grace period.     *)
DeleteScorer ==
  /\ pc = "tdScorer" /\ Delete({"scorer"}, "tdTopic")
  /\ TeardownStep /\ UNCHANGED <<metadata, podVars, finishing>>

(* The drop-topic Job: replaced, waited for, removed.                      *)
DropTopic ==
  /\ pc = "tdTopic"
  /\ \/ live' = live \ {"topic", "dropJob"} /\ Goto("tdFetch") /\ UNCHANGED teardownStatus
     \/ \E left \in SUBSET {"topic", "dropJob"} :
          live' = (live \ {"topic", "dropJob"}) \cup (left \cap (live \cup {"dropJob"}))
        /\ Return(TRUE)
  /\ TeardownStep /\ UNCHANGED <<metadata, podVars, finishing>>

Listed == {a \in Artifacts : remote[a] # "none"}

(* aws s3 sync lists the prefix and copies object by object; a failure is  *)
(* only logged here.                                                       *)
FetchScores ==
  /\ pc = "tdFetch"
  /\ toSync' = Listed /\ Goto("tdSync")
  /\ TeardownStep
  /\ UNCHANGED <<live, metadata, teardownStatus, podVars, local, fetched, lingered, published>>

SyncOne ==
  /\ pc \in {"tdSync", "finSync"}
  /\ \E a \in toSync : local' = [local EXCEPT ![a] = remote[a]] /\ toSync' = toSync \ {a}
  /\ UNCHANGED <<driver, live, podVars, fetched, lingered, published>>

ScoresFetched ==
  /\ pc = "tdSync"
  /\ toSync' = {} /\ Goto("tdMetadata")
  /\ TeardownStep
  /\ UNCHANGED <<live, metadata, teardownStatus, podVars, local, fetched, lingered, published>>

(* The document is saved; or absent or not copied, which is logged; or the *)
(* catalog cannot be read, or the saved file be checked for compression.   *)
(* Collecting a first report follows, whose failure is only logged.        *)
SaveMetadata ==
  /\ pc = "tdMetadata"
  /\ \/ metadata' \in {metadata, TRUE} /\ Return(FALSE)
     \/ metadata' \in {metadata, TRUE} /\ Return(TRUE)
  /\ TeardownStep
  /\ UNCHANGED <<live, podVars, finishing>>

-----------------------------------------------------------------------------
(* finish.sh, and how run.sh reports.                                      *)

ExitStatus(finishStatus) ==
  IF teardownStatus # 0 THEN TeardownFailed
  ELSE IF overran THEN 1 ELSE finishStatus

Exit(finishStatus) == pc' = "exit" /\ status' = ExitStatus(finishStatus)

FinishStep == UNCHANGED <<caller, clock, launched, gateStatus, breaches, streak, overran, metadata,
                          teardownStatus, live, podVars>>

FetchFinal ==
  /\ pc = "finFetch"
  /\ toSync' = Listed
  /\ lingered' = (pod \in {"running", "ending"})
  /\ Goto("finSync")
  /\ FinishStep /\ UNCHANGED <<status, local, fetched, published>>

(* Here a failed copy ends the script.                                     *)
FinalFetched ==
  /\ pc = "finSync"
  /\ \/ toSync = {} /\ fetched' = TRUE /\ Goto("finCollect") /\ UNCHANGED <<toSync, status>>
     \/ toSync' = {} /\ UNCHANGED fetched /\ Exit(1)
  /\ FinishStep /\ UNCHANGED <<local, lingered, published>>

(* Geometry and the run's document.                                        *)
Collect ==
  /\ pc = "finCollect"
  /\ \/ Goto("finPublish") /\ UNCHANGED status
     \/ Exit(1)
  /\ FinishStep /\ UNCHANGED finishing

(* With --publish; refused unless run_valid, or for want of machine types. *)
(* The results' table may fail after the result was written.               *)
Publish ==
  /\ pc = "finPublish"
  /\ \/ Goto("finVerdict") /\ UNCHANGED <<published, status>>
     \/ /\ local["summary"] = "valid" /\ published' = local
        /\ \/ Goto("finVerdict") /\ UNCHANGED status
           \/ Exit(1)
     \/ Exit(1) /\ UNCHANGED published
  /\ FinishStep /\ UNCHANGED <<local, toSync, fetched, lingered>>

PrintVerdict ==
  /\ pc = "finVerdict"
  /\ Exit(IF local["summary"] = "valid" THEN 0 ELSE 1)
  /\ FinishStep /\ UNCHANGED finishing

-----------------------------------------------------------------------------
(* The scorer's pod.                                                       *)

PodPolls ==
  /\ pod = "running"
  /\ remote' = [remote EXCEPT !["summary"] = "running"]
  /\ UNCHANGED <<driver, live, pod, outcome, finishing>>

PodEnds ==
  /\ pod = "running"
  /\ outcome' \in Final /\ pod' = "ending"
  /\ UNCHANGED <<driver, live, remote, finishing>>

(* Mutant: files are uploaded in the reverse order.                        *)
SummaryFirst(a) == a = "summary" \/ remote["summary"] = outcome

(* In the order of their names: summary.json is the last.                  *)
MayUpload(a) == a = "evidence" \/ remote["evidence"] = outcome

PodUploads ==
  /\ pod = "ending"
  /\ \E a \in Artifacts :
       /\ remote[a] # outcome /\ MayUpload(a)
       /\ remote' = [remote EXCEPT ![a] = outcome]
  /\ pod' = IF \A a \in Artifacts : remote'[a] = outcome THEN "gone" ELSE "ending"
  /\ UNCHANGED <<driver, live, outcome, finishing>>

(* Lost, aborted (its summary still says running), failed in an upload, or *)
(* killed after its Job was deleted.                                       *)
PodGone ==
  /\ pod \in {"running", "ending"}
  /\ pod' = "gone"
  /\ UNCHANGED <<driver, live, outcome, remote, finishing>>

-----------------------------------------------------------------------------
Launch   == Stage \/ StartScorer \/ FirstPoll \/ StartOffer
Judging  == Loop \/ Judge \/ Count \/ TornDown \/ Limit \/ ReadSummary
TearDown == \/ DeleteEngine \/ DeleteProducer \/ DeleteScorer \/ DropTopic
            \/ FetchScores \/ ScoresFetched \/ SaveMetadata
Finishing == FetchFinal \/ FinalFetched \/ Collect \/ Publish \/ PrintVerdict

Driver == Launch \/ Judging \/ TearDown \/ SyncOne \/ Finishing
Pod    == PodPolls \/ PodEnds \/ PodUploads \/ PodGone

Next == Driver \/ Pod

Spec     == Init /\ [][Next]_vars

-----------------------------------------------------------------------------
TypeOK ==
  /\ pc \in Places /\ caller \in {"gate", "run"} /\ clock \in 0..RunMax
  /\ live \subseteq Resources /\ launched \in BOOLEAN
  /\ gateStatus \in {0, 1, 3, 5} /\ breaches \in 0..Breaches /\ streak \in Nat
  /\ overran \in BOOLEAN /\ metadata \in BOOLEAN
  /\ teardownStatus \in {0, 1} /\ status \in {Running, 0, 1, TeardownFailed}
  /\ pod \in {"none", "running", "ending", "gone"}
  /\ outcome \in Version /\ remote \in [Artifacts -> Version]
  /\ local \in [Artifacts -> Version] /\ toSync \subseteq Artifacts
  /\ fetched \in BOOLEAN /\ lingered \in BOOLEAN
  /\ published \in [Artifacts -> Version]

(* run.sh:21: 6 says that the fleet may still be running.  A launched run  *)
(* that ends with any other status has left nothing behind, whoever called *)
(* teardown.sh, how often, and wherever it failed.                         *)
NothingLeftUnreported ==
  launched /\ pc = "exit" /\ status # TeardownFailed => live = {}

(* gate.sh:5: a run is not stopped on a transient breach.  It is torn down *)
(* when its time is up, when its scorer has ended, or after Breaches       *)
(* verdicts without a PASS among them, and for no other reason.            *)
TornDownForCause ==
  pc \in Teardown =>
    overran \/ streak >= Breaches \/ remote["summary"] \in Final

(* A published result was made from the scorer's last artifacts, all of    *)
(* them, although they are uploaded and copied one by one while scorer,    *)
(* gate and deadline may each end the run; unless the pod was still alive  *)
(* when finish.sh began.                                                   *)
PublishedIsWhole ==
  published # Absent /\ ~lingered => published = [a \in Artifacts |-> "valid"]

(* run.sh:193: a launched run ends although its scorer publishes nothing,  *)
(* its gate cannot judge or always passes, and its teardown fails.         *)
LaunchedRunEnds == launched ~> (pc = "exit")

(* Why the invariants hold: what each place knows of the cluster, of the   *)
(* breaches and of the uploads.                                            *)
Launching ==
  /\ launched => pc \notin {"stage", "launch", "firstPoll", "offer"}
  /\ pc \in {"stage", "launch"} => pod = "none"

Deleted ==
  /\ pc = "tdProducer" => "engine" \notin live
  /\ pc = "tdScorer" => {"engine", "producer"} \cap live = {}
  /\ pc = "tdTopic" => live \subseteq {"topic", "dropJob"}
  /\ pc \in {"tdFetch", "tdSync", "tdMetadata"} => live = {}
  /\ pc \in Finish => teardownStatus # 0 \/ live = {}
  /\ metadata => live = {} /\ pc \in {"saved", "exit"} \cup Finish

Counted ==
  /\ breaches = streak
  /\ pc \notin {"saved", "limit", "exit"} \cup Teardown \cup Finish => breaches < Breaches
  /\ pc \in {"saved", "limit"} => gateStatus # 0 \/ breaches < Breaches
  /\ pc \in Teardown /\ caller = "gate" => gateStatus # 0

Uploaded ==
  /\ pod \in {"none", "running"} =>
       outcome = "running" /\ remote["evidence"] = "none" /\ remote["summary"] \notin Final
  /\ pod = "ending" => outcome \in Final
  /\ remote["evidence"] \in {"none", outcome}
  /\ remote["summary"] \in Final => /\ outcome \in Final
                                    /\ remote = [a \in Artifacts |-> outcome]

Fetched ==
  /\ \A a \in Artifacts : local[a] # "none" => remote[a] # "none"
  /\ pc \in Finish \ {"finFetch"} /\ ~lingered =>
       /\ pod \in {"none", "gone"}
       /\ \A a \in Artifacts : a \in toSync \/ local[a] = remote[a]
  /\ pc \in {"finCollect", "finPublish", "finVerdict"} => toSync = {}
  /\ published # Absent => pc \in {"finVerdict", "exit"}

IInv ==
  /\ TypeOK /\ Launching /\ Deleted /\ Counted /\ Uploaded /\ Fetched
  /\ NothingLeftUnreported /\ TornDownForCause /\ PublishedIsWhole

(* teardown.sh:149: finish.sh fetches again to include any final uploads.  *)
FinalUploadsCollected ==
  pc = "exit" /\ fetched /\ teardownStatus = 0 => local = remote
=============================================================================
