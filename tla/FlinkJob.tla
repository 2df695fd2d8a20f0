------------------------------ MODULE FlinkJob ------------------------------
(***************************************************************************)
(* From the spec.flink block to a verified Flink job: the knobs are        *)
(* validated, the run's files are rendered from them, a cluster is started *)
(* from those files, the job is planned and verify-flink compares it with  *)
(* the knobs (engines/flink).                                              *)
(*                                                                         *)
(* The same sizing goes down several paths.  Locally Compose starts the    *)
(* containers from flink.env; on Kubernetes the FlinkDeployment does, with *)
(* fields of its own beside its flinkConfiguration; the writers' number is *)
(* a hint in the SQL; and extra_flink_conf overrides the settings, which   *)
(* are but one of the paths.  TaskManagers register one at a time and may  *)
(* be lost, also between the readings of one verification.                 *)
(***************************************************************************)
EXTENDS Naturals, FiniteSets

CONSTANTS MaxTaskManagers, MaxSlots, MaxParallelism, \* bounds: values of the knobs
          MaxOverrides,   \* bound: settings in extra_flink_conf
          MaxLosses,      \* bound: TaskManagers lost
          Partitions,     \* spec.kafka.partitions
          Places          \* where runs are made: "compose", "kubernetes"

ASSUME FlinkJobAssumption ==
    /\ {MaxTaskManagers, MaxSlots, MaxParallelism, MaxOverrides, MaxLosses, Partitions} \subseteq Nat
    /\ Places \subseteq {"compose", "kubernetes"}

Settings == {"parallelism.default", "max-parallelism", "slots", "memory", "interval", "mode"}

VARIABLES place,     \* the site
          knobs,     \* the knobs read, their defaults applied
          extra,     \* extra_flink_conf: some settings |-> their values
          pc, drift, \* smoke.sh or stage.sh: its place, and the lines verify-flink prints
          files,     \* the run's rendered files
          up, losses, \* TaskManagers registered; lost so far
          job        \* the job graph and the state the JobManager reports
inputs == <<place, knobs, extra>>
script == <<pc, drift, files>>
cluster == <<up, losses, job>>
vars == <<inputs, script, cluster>>

NoFiles == [conf |-> <<>>]
NoJob == [state |-> "none", readers |-> 0, writers |-> 0]

----------------------------------------------------------------------------
(* The knobs *)

SlotsTotal == knobs.taskmanagers * knobs.slots

\* The knob behind each setting; 1 stands for the memory, the interval and the
\* exactly-once mode that the block asks for.
Knob == [s \in Settings |-> CASE s = "parallelism.default" -> knobs.source
                              [] s = "max-parallelism" -> knobs.max
                              [] s = "slots" -> knobs.slots
                              [] OTHER -> 1]

Valid == /\ \A n \in {knobs.taskmanagers, knobs.slots, knobs.source, knobs.max} : n >= 1
         /\ knobs.source <= Partitions
         /\ SlotsTotal >= knobs.source
         /\ knobs.max >= SlotsTotal

----------------------------------------------------------------------------
(* The rendered files *)

\* extra_flink_conf is applied last.
RenderConf == [s \in Settings |-> IF s \in DOMAIN extra THEN extra[s] ELSE Knob[s]]

Env == [taskmanagers |-> knobs.taskmanagers, slots |-> knobs.slots, memory |-> Knob["memory"]]

\* The fields that win over flinkConfiguration come from the effective settings.
Deployment == [replicas |-> knobs.taskmanagers,
               memory |-> RenderConf["memory"],
               parallelism |-> RenderConf["parallelism.default"]]

\* mutant: the writers are left to the job's default
NoHint == 0

\* The write-parallelism hint of the INSERT, 0 for none: from the knobs, not the settings.
Hint == IF SlotsTotal # knobs.source THEN SlotsTotal ELSE 0

Rendered == [conf |-> RenderConf, env |-> Env, deployment |-> Deployment, hint |-> Hint]

----------------------------------------------------------------------------
(* The cluster and the job, as Flink makes them of the files *)

Local == place = "compose"
TaskManagers == IF Local THEN files.env.taskmanagers ELSE files.deployment.replicas
TMSlots == IF Local THEN files.env.slots ELSE files.conf["slots"]
TMMemory == IF Local THEN files.env.memory ELSE files.deployment.memory

\* Readers take the default; the job shares slots, so it needs the widest vertex's.
Readers == IF Local THEN files.conf["parallelism.default"] ELSE files.deployment.parallelism
Writers == IF files.hint = 0 THEN Readers ELSE files.hint
Demand(j) == IF j.readers > j.writers THEN j.readers ELSE j.writers

\* A vertex wider than the maximum parallelism is refused.
Planned == LET graph == [state |-> "CREATED", readers |-> Readers, writers |-> Writers]
           IN IF Demand(graph) > files.conf["max-parallelism"]
              THEN [graph EXCEPT !.state = "FAILED"] ELSE graph

Ended == {"refused", "late", "failed", "drifted", "verified"}
Started == pc \in {"slots", "submit", "await", "verify", "fleet"}

Register == /\ Started /\ up < TaskManagers /\ up' = up + 1
            /\ UNCHANGED <<inputs, script, losses, job>>

\* The job starts over.
Lose == /\ Started /\ up > 0 /\ losses < MaxLosses
        /\ up' = up - 1 /\ losses' = losses + 1
        /\ job' = IF job.state = "RUNNING" THEN [job EXCEPT !.state = "CREATED"] ELSE job
        /\ UNCHANGED <<inputs, script>>

\* A job is reported running while it still waits for slots.
Schedule == /\ Started /\ job.state = "CREATED"
            /\ job' = [job EXCEPT !.state = "RUNNING"]
            /\ UNCHANGED <<inputs, script, up, losses>>

SlotsTimeOut == /\ Started /\ job.state = "RUNNING" /\ Demand(job) > up * TMSlots
                /\ job' = [job EXCEPT !.state = "CREATED"]
                /\ UNCHANGED <<inputs, script, up, losses>>

----------------------------------------------------------------------------
(* The scripts *)

Init == /\ place \in Places
        /\ \E tm \in 1..MaxTaskManagers, slots \in 0..MaxSlots, source \in 0..MaxParallelism :
              \E max \in {4 * tm * slots} \union 0..MaxParallelism :
                 knobs = [taskmanagers |-> tm, slots |-> slots, source |-> source, max |-> max]
        /\ extra \in UNION {[S -> 1..MaxParallelism] :
                               S \in {T \in SUBSET Settings : Cardinality(T) <= MaxOverrides}}
        /\ pc = "spec" /\ files = NoFiles /\ drift = {}
        /\ up = 0 /\ losses = 0 /\ job = NoJob

\* stage.py: nothing is rendered of a block that does not validate.
Stage == /\ pc = "spec"
         /\ IF Valid THEN pc' = "staged" /\ files' = Rendered
            ELSE pc' = "refused" /\ UNCHANGED files
         /\ UNCHANGED <<inputs, drift, cluster>>

\* engine_compose_start, or the deployment is applied.
Start == /\ pc = "staged" /\ pc' = IF Local THEN "slots" ELSE "await"
         /\ UNCHANGED <<inputs, drift, files, cluster>>

\* wait_for_flink_slots, for a limited time.
WaitForSlots == /\ pc = "slots"
                /\ \/ up * TMSlots >= files.env.taskmanagers * files.env.slots /\ pc' = "submit"
                   \/ pc' = "late"
                /\ UNCHANGED <<inputs, drift, files, cluster>>

\* The flink-job container submits; on Kubernetes the JobManager itself does.
Submit == /\ job = NoJob
          /\ \/ pc = "submit" /\ pc' = "await"
             \/ pc = "await" /\ ~Local /\ UNCHANGED pc
          /\ job' = Planned
          /\ UNCHANGED <<inputs, drift, files, up, losses>>

AwaitRunning == /\ pc = "await"
                /\ \/ job.state = "RUNNING" /\ pc' = "verify"
                   \/ job.state = "FAILED" /\ pc' = "failed"
                   \/ pc' = "late"
                /\ UNCHANGED <<inputs, drift, files, cluster>>

----------------------------------------------------------------------------
(* verify-flink *)

\* The interval follows extra_flink_conf; a mode weaker than exactly once is drift always.
CheckpointDrift ==
    {s \in {"interval", "mode"} :
       files.conf[s] # IF s = "interval" /\ s \in DOMAIN extra THEN extra[s] ELSE Knob[s]}

\* mutant: as the interval, the parallelism follows extra_flink_conf
EffectiveVertexDrift == {v \in {"source", "writer"} :
                           \/ v = "source" /\ job.readers # files.conf["parallelism.default"]
                           \/ v = "writer" /\ job.writers # SlotsTotal}

\* The graph is compared with the knobs; the committer's one is Iceberg's.
VertexDrift == {v \in {"source", "writer"} : \/ v = "source" /\ job.readers # knobs.source
                                             \/ v = "writer" /\ job.writers # SlotsTotal}

\* A job that is not running any more is drift, and nothing else is read of it.
ReadJob == /\ pc = "verify"
           /\ IF job.state = "RUNNING"
              THEN drift' = CheckpointDrift \union VertexDrift /\ pc' = "fleet"
              ELSE drift' = {"job"} /\ pc' = "drifted"
           /\ UNCHANGED <<inputs, files, cluster>>

\* _fleet_drift, read last.
ReadFleet == /\ pc = "fleet"
             /\ drift' = drift \union (IF up = knobs.taskmanagers THEN {} ELSE {"taskmanagers"})
             /\ pc' = IF drift' = {} THEN "verified" ELSE "drifted"
             /\ UNCHANGED <<inputs, files, cluster>>

Script == Stage \/ Start \/ WaitForSlots \/ Submit \/ AwaitRunning \/ ReadJob \/ ReadFleet
Next == Script \/ Register \/ Lose \/ Schedule \/ SlotsTimeOut

Spec == Init /\ [][Next]_vars

----------------------------------------------------------------------------
(* Properties *)

Overridden(S) == DOMAIN extra \intersect S # {}
\* Only the deployment takes the slots from the settings.
SlotsAsAsked == Local \/ ~Overridden({"slots"})

\* The variables have their types; a job exists only of rendered files.
TypeOK == /\ place \in Places
          /\ pc \in Ended \union {"spec", "staged", "slots", "submit", "await", "verify", "fleet"}
          /\ drift \subseteq {"interval", "mode", "source", "writer", "taskmanagers", "job"}
          /\ pc \in {"spec", "refused"} <=> files = NoFiles
          /\ up \in 0..knobs.taskmanagers /\ losses \in 0..MaxLosses
          /\ job.state \in {"none", "CREATED", "RUNNING", "FAILED"}
          /\ job # NoJob => files # NoFiles /\ {job.readers, job.writers} \subseteq Nat \ {0}

\* A verified job reads and writes in the numbers that the spec publishes and
\* checkpoints exactly once, whatever extra_flink_conf says, each reader with a
\* partition of its own (verify.py:99-142, knobs.py:295-313).
VerifiedIsAsked ==
    pc = "verified" => /\ job.readers = knobs.source /\ knobs.source <= Partitions
                       /\ job.writers = SlotsTotal
                       /\ files.conf["mode"] = Knob["mode"]

\* The fleet of a verified job has a slot for every writer and reader and no slot
\* that nobody writes from, and all of it is there (knobs.py:411,
\* "so writers use all fleet slots").
EverySlotWrites ==
    pc = "verified" /\ SlotsAsAsked =>
       /\ Demand(job) = TaskManagers * TMSlots /\ job.writers = Demand(job)
       /\ up = TaskManagers

\* Flink refuses no job whose block was validated and whose parallelisms are the
\* block's own: validation stands in for the refusal (knobs.py:309-313).
ValidatedIsAccepted ==
    job.state = "FAILED" => Overridden({"parallelism.default", "max-parallelism"})

\* A run is not turned away for settings that it asked for: without an override
\* that verification does not follow, only a missing TaskManager or a job that
\* starts over is drift, and locally, where the slots are waited for, neither
\* occurs unless a TaskManager was lost (verify.py:78-152, compose.sh:25-37).
OwnSettingsAreNoDrift ==
    /\ ~Overridden({"parallelism.default", "mode"}) => drift \subseteq {"taskmanagers", "job"}
    /\ Local /\ losses = 0 /\ ~Overridden({"parallelism.default", "mode"}) => drift = {}

\* On Kubernetes an override reaches the cluster although the deployment has
\* fields that win over its flinkConfiguration (knobs.py:535-547).
OverrideReachesDeployment ==
    ~Local /\ files # NoFiles => \A s \in DOMAIN extra :
       /\ s = "memory" => TMMemory = extra[s]
       /\ s = "parallelism.default" => Readers = extra[s]
       /\ s = "slots" => TMSlots = extra[s]

=============================================================================
