------------------------------- MODULE Launch -------------------------------
(***************************************************************************)
(* Launching a staged run, and launching it again (scripts/launch.sh).     *)
(*                                                                         *)
(* A launch chooses the epoch, replaces the scorer's Job, waits for its    *)
(* first reading of the table, refuses when the epoch has come too close,  *)
(* replaces the producers' Job and records the epoch.  Any command may     *)
(* fail, leaving what it had started; the operator may then launch again,  *)
(* while pods of the earlier launch are still stopping.  Producers send    *)
(* nothing before their epoch.  RunDriver follows one launch to the end of *)
(* its run; this module has the clock and the launches after the first.    *)
(***************************************************************************)
EXTENDS Naturals

CONSTANTS Lead,             \* EPOCH_LEAD_S
          Slack,            \* the 30 s that must be left to the epoch
          FirstPollWait,    \* FIRST_POLL_WAIT_S
          MaxLaunches,      \* bound: launches of the run
          MaxTime,          \* bound: the clock
          RelaunchOffered   \* TRUE: a run is launched again after its producers were started

ASSUME LaunchAssumption == /\ {Lead, Slack, FirstPollWait, MaxLaunches, MaxTime} \subseteq Nat \ {0}
                           /\ RelaunchOffered \in BOOLEAN

Launches == 1..MaxLaunches

VARIABLES now,        \* the clock
          place, launch, \* the current or last launch.sh and its place
          epoch,      \* launch |-> the epoch it chose
          until,      \* the end of the wait, or of the commands of a step
          scorer,     \* launch |-> its scorer's pod
          producer,   \* launch |-> its producers' pods
          polled,     \* the launches whose scorer has read the table
          rows,       \* the launches whose rows have been sent and committed
          baseline,   \* launch |-> the rows that its scorer's first reading found
          facts       \* the launch whose epoch facts.json holds, or 0

script == <<place, launch, epoch, until>>
pods == <<scorer, producer, polled, rows, baseline>>
launchVars == <<now, script, pods, facts>>

Ended == {"staged", "died", "launched"}

LaunchInit == /\ now = 0 /\ place = "staged" /\ launch = 0 /\ until = 0
              /\ epoch = [l \in Launches |-> 0]
              /\ scorer = [l \in Launches |-> "none"] /\ producer = scorer
              /\ polled = {} /\ rows = {} /\ baseline = [l \in Launches |-> {}]
              /\ facts = 0

----------------------------------------------------------------------------
(* launch.sh *)

Proceed(to) == place' = to
DieThere == place' = "died"

\* The commands of a step are taken to last less than the slack.
Step == now + Slack - 1

Begin == /\ place \in Ended /\ launch < MaxLaunches
         /\ Step + FirstPollWait + Slack <= MaxTime
         /\ RelaunchOffered \/ \A l \in Launches : producer[l] = "none"
         /\ launch' = launch + 1 /\ Proceed("scorer")
         /\ epoch' = [epoch EXCEPT ![launch + 1] = now + Lead]
         /\ until' = Step
         /\ UNCHANGED <<now, pods, facts>>

\* Deleting a Job tells its pods to stop; they take a while.
Stopped(pod) == [l \in Launches |-> IF pod[l] = "up" THEN "stopping" ELSE pod[l]]

\* k8s_delete and k8s_render_apply: the new pod may be there when they fail.
ApplyScorer == /\ place = "scorer"
               /\ \/ scorer' = [Stopped(scorer) EXCEPT ![launch] = "up"] /\ (Proceed("poll") \/ DieThere)
                  \/ scorer' \in {scorer, Stopped(scorer)} /\ DieThere
               /\ until' = now + FirstPollWait
               /\ UNCHANGED <<now, launch, epoch, producer, polled, rows, baseline, facts>>

\* mutant: the offer starts when the scorer's pod is there
SeePod == /\ place = "poll" /\ scorer[launch] = "up"
          /\ Proceed("lead")
          /\ UNCHANGED <<now, launch, epoch, until, pods, facts>>

\* kubectl logs follows the new Job's pod; the line stays in its log.
SeeFirstPoll == /\ place = "poll" /\ launch \in polled
                /\ Proceed("lead")
                /\ UNCHANGED <<now, launch, epoch, until, pods, facts>>

PollTimeout == /\ place = "poll" /\ now >= until
               /\ DieThere
               /\ UNCHANGED <<now, launch, epoch, until, pods, facts>>

\* mutant: the wait for the first reading is not counted
IgnoreLead == /\ place = "lead"
              /\ Proceed("offer") /\ until' = Step
              /\ UNCHANGED <<now, launch, epoch, pods, facts>>

CheckLead == /\ place = "lead"
             /\ IF now + Slack <= epoch[launch] THEN Proceed("offer") ELSE DieThere
             /\ until' = Step
             /\ UNCHANGED <<now, launch, epoch, pods, facts>>

ApplyProducers == /\ place = "offer"
                  /\ \/ producer' = [Stopped(producer) EXCEPT ![launch] = "up"] /\ (Proceed("record") \/ DieThere)
                     \/ producer' \in {producer, Stopped(producer)} /\ DieThere
                  /\ UNCHANGED <<now, launch, epoch, until, scorer, polled, rows, baseline, facts>>

\* mutant: an epoch that is there already is kept
KeepEpoch == /\ place = "record"
             /\ \/ facts' = (IF facts = 0 THEN launch ELSE facts) /\ Proceed("launched")
                \/ DieThere /\ UNCHANGED facts
             /\ UNCHANGED <<now, launch, epoch, until, pods>>

\* write_launch_epoch replaces the file or leaves it as it was.
WriteEpoch == /\ place = "record"
              /\ \/ facts' = launch /\ Proceed("launched")
                 \/ DieThere /\ UNCHANGED facts
              /\ UNCHANGED <<now, launch, epoch, until, pods>>

Script == \/ ApplyScorer \/ SeeFirstPoll \/ PollTimeout \/ CheckLead \/ ApplyProducers \/ WriteEpoch

----------------------------------------------------------------------------
(* Pods and the clock *)

FirstReading(l) == /\ scorer[l] \in {"up", "stopping"} /\ l \notin polled
                   /\ polled' = polled \union {l}
                   /\ baseline' = [baseline EXCEPT ![l] = rows]
                   /\ UNCHANGED <<now, script, scorer, producer, rows, facts>>

\* Also while its pod is being stopped.
Produce(l) == /\ producer[l] \in {"up", "stopping"} /\ now >= epoch[l]
              /\ rows' = rows \union {l}
              /\ UNCHANGED <<now, script, scorer, producer, polled, baseline, facts>>

\* A pod may fail at any time, and one that is told to stop does.
LaunchedPodEnds(l) == /\ \/ scorer[l] \notin {"none", "ended"} /\ UNCHANGED producer
                            /\ scorer' = [scorer EXCEPT ![l] = "ended"]
                         \/ producer[l] \notin {"none", "ended"} /\ UNCHANGED scorer
                            /\ producer' = [producer EXCEPT ![l] = "ended"]
                      /\ UNCHANGED <<now, script, polled, rows, baseline, facts>>

Tick == /\ now < MaxTime
        /\ place \in {"scorer", "poll", "offer"} => now < until
        /\ place \notin {"lead", "record"}
        /\ now' = now + 1
        /\ UNCHANGED <<script, pods, facts>>

LaunchNext == \/ Begin \/ Script \/ Tick
              \/ \E l \in Launches : FirstReading(l) \/ Produce(l) \/ LaunchedPodEnds(l)

LaunchSpec == LaunchInit /\ [][LaunchNext]_launchVars

----------------------------------------------------------------------------
Place == {"none", "up", "stopping", "ended"}

LaunchTypeOK == /\ now \in 0..MaxTime /\ launch \in 0..MaxLaunches /\ facts \in 0..launch
                /\ place \in Ended \union {"scorer", "poll", "lead", "offer", "record"}
                /\ epoch \in [Launches -> 0..MaxTime + Lead] /\ until \in 0..MaxTime + FirstPollWait + Slack
                /\ scorer \in [Launches -> Place] /\ producer \in [Launches -> Place]
                /\ polled \subseteq Launches /\ rows \subseteq Launches /\ baseline \in [Launches -> SUBSET Launches]

\* launch.sh:3: "Start the scorer, wait for its baseline reading, then start
\* producer shards. This keeps the first sample free of rows committed before
\* scoring began."
BaselineIsFree == launch # 0 => baseline[launch] = {}

\* The rows of an offer are sent after the scorer of the same epoch has read the
\* table, however long that took and whichever launches died before.
ScoredFromTheStart == rows \subseteq polled

\* However long the first reading took, the producers' pods are there before
\* their first batch is due.
OfferedInTime == [][\A l \in Launches :
    producer[l] = "none" /\ producer'[l] = "up" => now < epoch[l]]_launchVars

\* facts.json names an epoch at which rows are offered, and after a launch that
\* ended well it is that of the Jobs that are there, whatever launches came before.
EpochIsOffered == /\ facts # 0 => producer[facts] # "none"
                  /\ place = "launched" => /\ facts = launch
                                           /\ \A l \in Launches : "up" \in {scorer[l], producer[l]} => l = facts

=============================================================================
