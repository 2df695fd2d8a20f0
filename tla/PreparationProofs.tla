------------------------- MODULE PreparationProofs -------------------------
(***************************************************************************)
(* What a run has before its first record, and what is made of it after    *)
(* its last: the engine's settings that verify-flink answers for, what     *)
(* scripts/stage.sh fetches and answers for, what the wait for an engine   *)
(* returns, and what CI accepts; for any knobs, overrides, losses,         *)
(* attempts, run ids, machines, files, pods, commands and days.            *)
(***************************************************************************)
EXTENDS FlinkJob, Staging, EngineCheck, Publish, TLAPS

----------------------------------------------------------------------------
(* The Flink job *)

Contested == {"parallelism.default", "mode"}

\* The settings, the fleet's size and the plan are functions of inputs that never change.
InputsInv ==
    /\ place \in {"compose", "kubernetes"} /\ place \in Places
    /\ knobs.taskmanagers \in Nat /\ knobs.slots \in Nat /\ knobs.source \in Nat /\ knobs.max \in Nat
    /\ SlotsTotal \in Nat
    /\ DOMAIN extra \subseteq Settings
    /\ \A s \in DOMAIN extra : extra[s] \in 1..MaxParallelism

FilesInv ==
    /\ pc \in Ended \union {"spec", "staged", "slots", "submit", "await", "verify", "fleet"}
    /\ pc \in {"spec", "refused"} => files = NoFiles
    /\ pc \notin {"spec", "refused"} => Valid /\ files = Rendered

FleetInv == /\ up \in Nat /\ up <= knobs.taskmanagers
            /\ losses \in 0..MaxLosses
            /\ Local /\ losses = 0 /\ pc \in {"submit", "await", "verify", "fleet"}
                  => up = knobs.taskmanagers
            /\ pc = "verified" => up = knobs.taskmanagers

\* A job is as it was planned, and refused only for its width.
JobInv ==
    /\ job.state \in {"none", "CREATED", "RUNNING", "FAILED"}
    /\ job.state = "none" => job = NoJob
    /\ job.state # "none" => /\ pc \notin {"spec", "refused", "staged", "slots", "submit"}
                             /\ job.readers = Readers /\ job.writers = Writers
    /\ job.state = "FAILED" => Demand(job) > files.conf["max-parallelism"]
    /\ pc \in {"verify", "fleet", "verified"} => job.state # "none"
    /\ Local /\ losses = 0 /\ ~Overridden(Contested) /\ pc = "verify" => job.state = "RUNNING"

DriftInv ==
    /\ drift \subseteq {"interval", "mode", "source", "writer", "taskmanagers", "job"}
    /\ pc \notin {"fleet", "drifted", "verified"} => drift = {}
    /\ pc \in {"fleet", "verified"} /\ drift = {} => CheckpointDrift = {} /\ VertexDrift = {}
    /\ pc = "verified" => drift = {}
    /\ ~Overridden(Contested) => drift \subseteq {"taskmanagers", "job"}
    /\ Local /\ losses = 0 /\ ~Overridden(Contested) => drift = {}

IInv == InputsInv /\ FilesInv /\ FleetInv /\ JobInv /\ DriftInv

----------------------------------------------------------------------------
(* Arithmetic and the plan *)

LEMMA Product == ASSUME NEW a \in Nat, NEW b \in Nat PROVE a * b \in Nat
  OBVIOUS

\* As many slots as the whole fleet has are registered only when all of it is.
LEMMA Cancel == ASSUME NEW a \in Nat, NEW b \in Nat, NEW c \in Nat, c >= 1, a * c >= b * c
                PROVE a >= b
<1>1. SUFFICES ASSUME a < b PROVE FALSE
  OBVIOUS
<1>2. a * c + c <= b * c
  <2>1. PICK d \in Nat : b = a + 1 + d
    <3>1. b - a - 1 \in Nat /\ b = a + 1 + (b - a - 1)
      BY <1>1
    <3> QED BY <3>1
  <2>2. b * c = a * c + c + d * c
    BY <2>1
  <2>3. d * c \in Nat
    BY Product
  <2> QED BY <2>2, <2>3, Product
<1> QED BY <1>2, Product

\* The widths of the plan, from the settings.
LEMMA Plan ==
    ASSUME InputsInv, Valid, files = Rendered
    PROVE  /\ Readers = RenderConf["parallelism.default"] /\ Readers \in Nat \ {0}
           /\ Writers = IF SlotsTotal # knobs.source THEN SlotsTotal ELSE Readers
           /\ Writers \in Nat \ {0}
           /\ TaskManagers = knobs.taskmanagers
           /\ Local => TMSlots = knobs.slots
           /\ "slots" \notin DOMAIN extra => TMSlots = knobs.slots
           /\ "parallelism.default" \notin DOMAIN extra => /\ Readers = knobs.source
                                                           /\ Writers = SlotsTotal
<1>1. /\ Readers = RenderConf["parallelism.default"]
      /\ TaskManagers = knobs.taskmanagers
      /\ Local => TMSlots = knobs.slots
      /\ ~Local => TMSlots = RenderConf["slots"]
      /\ files.hint = Hint
  BY DEF Rendered, Readers, TaskManagers, TMSlots, Local, Env, Deployment
<1>2. /\ RenderConf["parallelism.default"] =
             IF "parallelism.default" \in DOMAIN extra THEN extra["parallelism.default"] ELSE knobs.source
      /\ RenderConf["slots"] = IF "slots" \in DOMAIN extra THEN extra["slots"] ELSE knobs.slots
  BY DEF RenderConf, Knob, Settings
<1>3. Readers \in Nat \ {0} /\ SlotsTotal \in Nat \ {0}
  BY <1>1, <1>2, FlinkJobAssumption DEF InputsInv, Valid
<1>4. Writers = IF SlotsTotal # knobs.source THEN SlotsTotal ELSE Readers
  BY <1>1, <1>3 DEF Writers, Hint
<1> QED BY <1>1, <1>2, <1>3, <1>4

----------------------------------------------------------------------------
(* The invariant *)

LEMMA InitIInv == Init => IInv
<1> SUFFICES ASSUME Init PROVE IInv
  OBVIOUS
<1>1. PICK tm \in 1..MaxTaskManagers, slots \in 0..MaxSlots, source \in 0..MaxParallelism :
        \E max \in {4 * tm * slots} \union 0..MaxParallelism :
           knobs = [taskmanagers |-> tm, slots |-> slots, source |-> source, max |-> max]
  BY DEF Init
<1>2. PICK max \in {4 * tm * slots} \union 0..MaxParallelism :
           knobs = [taskmanagers |-> tm, slots |-> slots, source |-> source, max |-> max]
  BY <1>1
<1>3. tm \in Nat /\ slots \in Nat /\ source \in Nat /\ 4 * tm \in Nat
  BY FlinkJobAssumption
<1>4. tm * slots \in Nat /\ (4 * tm) * slots \in Nat
  BY <1>3, Product
<1>5. max \in Nat
  BY <1>4, FlinkJobAssumption
<1>6. /\ knobs.taskmanagers \in Nat /\ knobs.slots \in Nat /\ knobs.source \in Nat /\ knobs.max \in Nat
      /\ SlotsTotal \in Nat
  BY <1>2, <1>3, <1>4, <1>5 DEF SlotsTotal
<1>7. DOMAIN extra \subseteq Settings /\ \A s \in DOMAIN extra : extra[s] \in 1..MaxParallelism
  <2>1. PICK S \in SUBSET Settings : extra \in [S -> 1..MaxParallelism]
    BY DEF Init
  <2> QED BY <2>1
<1>8. InputsInv
  BY <1>6, <1>7, FlinkJobAssumption DEF Init, InputsInv
<1>9. FilesInv /\ JobInv /\ DriftInv
  BY DEF Init, FilesInv, JobInv, DriftInv, NoJob, Ended
<1>10. FleetInv
  BY <1>6, FlinkJobAssumption DEF Init, FleetInv
<1> QED BY <1>8, <1>9, <1>10 DEF IInv

\* What a step that leaves the inputs alone leaves as it was.
LEMMA SameInputs ==
    ASSUME InputsInv, UNCHANGED inputs
    PROVE  /\ InputsInv' /\ Valid' = Valid /\ Rendered' = Rendered /\ Local' = Local
           /\ SlotsTotal' = SlotsTotal /\ knobs' = knobs
           /\ Overridden(Contested)' = Overridden(Contested)
BY DEF inputs, InputsInv, Valid, Rendered, RenderConf, Knob, Env, Deployment, Hint, SlotsTotal,
       Local, Overridden, Contested

LEMMA SameFiles ==
    ASSUME InputsInv, UNCHANGED inputs, UNCHANGED files
    PROVE  /\ Readers' = Readers /\ Writers' = Writers /\ TMSlots' = TMSlots
           /\ TaskManagers' = TaskManagers
BY DEF inputs, Readers, Writers, TMSlots, TaskManagers, Local

LEMMA SameGraph ==
    ASSUME UNCHANGED inputs, UNCHANGED files, job'.readers = job.readers, job'.writers = job.writers
    PROVE  /\ CheckpointDrift' = CheckpointDrift /\ VertexDrift' = VertexDrift
           /\ Demand(job)' = Demand(job)
BY DEF inputs, CheckpointDrift, VertexDrift, Demand, Knob, SlotsTotal

\* A job that is not overridden needs no slot beyond the fleet's.
LEMMA NoTimeOut ==
    ASSUME IInv, Local, losses = 0, ~Overridden(Contested), pc \in {"verify", "fleet"},
           job.state # "none"
    PROVE  ~(Demand(job) > up * TMSlots)
<1>1. Valid /\ files = Rendered
  BY DEF IInv, FilesInv
<1>2. "parallelism.default" \notin DOMAIN extra
  BY DEF Overridden, Contested
<1>3. job.readers = knobs.source /\ job.writers = SlotsTotal /\ TMSlots = knobs.slots
  BY <1>1, <1>2, Plan DEF IInv, JobInv
<1>4. knobs.source <= SlotsTotal
  BY <1>1 DEF Valid
<1>5. up = knobs.taskmanagers
  BY DEF IInv, FleetInv
<1>6. SlotsTotal = up * TMSlots
  BY <1>3, <1>5 DEF SlotsTotal
<1>7. Demand(job) = SlotsTotal
  BY <1>3, <1>4 DEF Demand, IInv, InputsInv
<1> QED BY <1>6, <1>7 DEF IInv, InputsInv

----------------------------------------------------------------------------
(* The scripts' steps *)

LEMMA StagedStep == ASSUME IInv, Stage PROVE IInv'
<1>1. InputsInv' /\ Valid' = Valid /\ Rendered' = Rendered /\ Local' = Local
      /\ Overridden(Contested)' = Overridden(Contested) /\ knobs' = knobs
  BY SameInputs DEF IInv, Stage
<1>2. FilesInv'
  BY <1>1 DEF IInv, FilesInv, Stage, Ended
<1>3. FleetInv'
  BY <1>1 DEF IInv, FleetInv, Stage, cluster
<1>4. JobInv'
  BY DEF IInv, JobInv, Stage, cluster, NoJob
<1>5. DriftInv'
  BY <1>1 DEF IInv, DriftInv, Stage, cluster
<1> QED BY <1>1, <1>2, <1>3, <1>4, <1>5 DEF IInv

LEMMA StartStep == ASSUME IInv, Start PROVE IInv'
<1>1. InputsInv' /\ Valid' = Valid /\ Rendered' = Rendered /\ Local' = Local
      /\ Overridden(Contested)' = Overridden(Contested) /\ knobs' = knobs
  BY SameInputs DEF IInv, Start
<1>2. FilesInv'
  BY <1>1 DEF IInv, FilesInv, Start
<1>3. FleetInv'
  BY <1>1 DEF IInv, FleetInv, Start, cluster
<1>4. JobInv'
  BY DEF IInv, JobInv, Start, cluster, NoJob
<1>5. DriftInv'
  BY <1>1 DEF IInv, DriftInv, Start, cluster
<1> QED BY <1>1, <1>2, <1>3, <1>4, <1>5 DEF IInv

LEMMA WaitForSlotsStep == ASSUME IInv, WaitForSlots PROVE IInv'
<1>1. InputsInv' /\ Valid' = Valid /\ Rendered' = Rendered /\ Local' = Local
      /\ Overridden(Contested)' = Overridden(Contested) /\ knobs' = knobs
  BY SameInputs DEF IInv, WaitForSlots
<1>2. FilesInv'
  BY <1>1 DEF IInv, FilesInv, WaitForSlots, Ended
<1>3. FleetInv'
  <2>1. CASE pc' = "submit" /\ Local
    <3>1. Valid /\ files = Rendered
      BY DEF IInv, FilesInv, WaitForSlots
    <3>2. knobs.slots >= 1 /\ TMSlots = knobs.slots
      BY <2>1, <3>1, Plan DEF IInv, Valid
    <3>3. files.env.taskmanagers = knobs.taskmanagers /\ files.env.slots = knobs.slots
      BY <3>1 DEF Rendered, Env
    <3>4. up * knobs.slots >= knobs.taskmanagers * knobs.slots
      BY <2>1, <3>2, <3>3 DEF WaitForSlots
    <3>5. up >= knobs.taskmanagers
      BY <3>2, <3>4, Cancel DEF IInv, InputsInv, FleetInv
    <3> QED BY <1>1, <2>1, <3>5 DEF IInv, InputsInv, FleetInv, WaitForSlots, cluster
  <2>2. CASE ~(pc' = "submit" /\ Local)
    BY <1>1, <2>2 DEF IInv, FleetInv, WaitForSlots, cluster
  <2> QED BY <2>1, <2>2
<1>4. JobInv'
  BY DEF IInv, JobInv, WaitForSlots, cluster, NoJob
<1>5. DriftInv'
  BY <1>1 DEF IInv, DriftInv, WaitForSlots, cluster
<1> QED BY <1>1, <1>2, <1>3, <1>4, <1>5 DEF IInv

LEMMA SubmitStep == ASSUME IInv, Submit PROVE IInv'
<1>1. InputsInv' /\ Valid' = Valid /\ Rendered' = Rendered /\ Local' = Local
      /\ Overridden(Contested)' = Overridden(Contested) /\ knobs' = knobs
  BY SameInputs DEF IInv, Submit
<1>2. FilesInv'
  BY <1>1 DEF IInv, FilesInv, Submit
<1>3. FleetInv'
  BY <1>1 DEF IInv, FleetInv, Submit
<1>4. JobInv'
  <2>1. Readers' = Readers /\ Writers' = Writers
    BY SameFiles DEF IInv, Submit
  <2>2. pc' = "await" /\ files' = files
    BY DEF Submit
  <2>3. /\ job'.state \in {"CREATED", "FAILED"} /\ job'.readers = Readers /\ job'.writers = Writers
        /\ job'.state = "FAILED" => Demand(job') > files.conf["max-parallelism"]
    <3> DEFINE graph == [state |-> "CREATED", readers |-> Readers, writers |-> Writers]
    <3>1. job' = IF Demand(graph) > files.conf["max-parallelism"]
                 THEN [graph EXCEPT !.state = "FAILED"] ELSE graph
      BY DEF Submit, Planned
    <3>2. Demand([graph EXCEPT !.state = "FAILED"]) = Demand(graph)
      BY DEF Demand
    <3> QED BY <3>1, <3>2
  <2> QED BY <2>1, <2>2, <2>3 DEF JobInv, Demand
<1>5. DriftInv'
  BY <1>1 DEF IInv, DriftInv, Submit
<1> QED BY <1>1, <1>2, <1>3, <1>4, <1>5 DEF IInv

LEMMA AwaitRunningStep == ASSUME IInv, AwaitRunning PROVE IInv'
<1>1. InputsInv' /\ Valid' = Valid /\ Rendered' = Rendered /\ Local' = Local
      /\ Overridden(Contested)' = Overridden(Contested) /\ knobs' = knobs
  BY SameInputs DEF IInv, AwaitRunning
<1>2. FilesInv'
  BY <1>1 DEF IInv, FilesInv, AwaitRunning, Ended
<1>3. FleetInv'
  BY <1>1 DEF IInv, FleetInv, AwaitRunning, cluster
<1>4. JobInv'
  <2>1. Readers' = Readers /\ Writers' = Writers
    BY SameFiles DEF IInv, AwaitRunning
  <2>2. pc = "await" /\ pc' \in {"verify", "failed", "late"} /\ files' = files
        /\ UNCHANGED cluster /\ (pc' = "verify" => job.state = "RUNNING")
    BY DEF AwaitRunning
  <2> QED BY <1>1, <2>1, <2>2 DEF IInv, JobInv, cluster, Demand
<1>5. DriftInv'
  BY <1>1 DEF IInv, DriftInv, AwaitRunning, cluster
<1> QED BY <1>1, <1>2, <1>3, <1>4, <1>5 DEF IInv

----------------------------------------------------------------------------
(* verify-flink's steps *)

\* Without a contested override the graph and the settings are the block's.
LEMMA CleanReading ==
    ASSUME IInv, pc = "verify", ~Overridden(Contested)
    PROVE  CheckpointDrift \union VertexDrift = {}
<1>1. Valid /\ files = Rendered
  BY DEF IInv, FilesInv
<1>2. "parallelism.default" \notin DOMAIN extra /\ "mode" \notin DOMAIN extra
  BY DEF Overridden, Contested
<1>3. job.readers = knobs.source /\ job.writers = SlotsTotal
  BY <1>1, <1>2, Plan DEF IInv, JobInv
<1>4. VertexDrift = {}
  BY <1>3 DEF VertexDrift
<1>5. files.conf = RenderConf
  BY <1>1 DEF Rendered
<1>6. /\ files.conf["interval"] = IF "interval" \in DOMAIN extra THEN extra["interval"] ELSE Knob["interval"]
      /\ files.conf["mode"] = Knob["mode"]
  BY <1>2, <1>5 DEF RenderConf, Settings
<1>7. CheckpointDrift = {}
  BY <1>6 DEF CheckpointDrift
<1> QED BY <1>4, <1>7

LEMMA ReadJobStep == ASSUME IInv, ReadJob PROVE IInv'
<1>1. InputsInv' /\ Valid' = Valid /\ Rendered' = Rendered /\ Local' = Local
      /\ Overridden(Contested)' = Overridden(Contested) /\ knobs' = knobs
  BY SameInputs DEF IInv, ReadJob
<1>2. FilesInv'
  BY <1>1 DEF IInv, FilesInv, ReadJob, Ended
<1>3. FleetInv'
  BY <1>1 DEF IInv, FleetInv, ReadJob, cluster
<1>6. Readers' = Readers /\ Writers' = Writers
  BY SameFiles DEF IInv, ReadJob
<1>4. JobInv'
  <2>1. pc = "verify" /\ pc' \in {"fleet", "drifted"} /\ files' = files /\ UNCHANGED cluster
    BY DEF ReadJob
  <2> QED BY <1>1, <1>6, <2>1 DEF IInv, JobInv, cluster, Demand
<1>5. DriftInv'
  <2>1. CASE job.state = "RUNNING"
    <3>1. drift' = CheckpointDrift \union VertexDrift /\ pc' = "fleet" /\ pc = "verify"
      BY <2>1 DEF ReadJob
    <3>2. CheckpointDrift' = CheckpointDrift /\ VertexDrift' = VertexDrift
      BY SameGraph DEF ReadJob, cluster
    <3>3. CheckpointDrift \subseteq {"interval", "mode"} /\ VertexDrift \subseteq {"source", "writer"}
      BY DEF CheckpointDrift, VertexDrift
    <3>4. drift' \subseteq {"interval", "mode", "source", "writer", "taskmanagers", "job"}
      BY <3>1, <3>3
    <3>5. drift' = {} => CheckpointDrift' = {} /\ VertexDrift' = {}
      BY <3>1, <3>2
    <3>6. ~Overridden(Contested) => drift' = {}
      BY <3>1, CleanReading
    <3> QED BY <1>1, <3>1, <3>4, <3>5, <3>6 DEF DriftInv
  <2>2. CASE job.state # "RUNNING"
    <3>1. drift' = {"job"} /\ pc' = "drifted" /\ pc = "verify" /\ losses' = losses
      BY <2>2 DEF ReadJob, cluster
    <3>2. ~(Local /\ losses = 0 /\ ~Overridden(Contested))
      BY <2>2, <3>1 DEF IInv, JobInv
    <3> QED BY <1>1, <3>1, <3>2 DEF DriftInv
  <2> QED BY <2>1, <2>2
<1> QED BY <1>1, <1>2, <1>3, <1>4, <1>5 DEF IInv

LEMMA ReadFleetStep == ASSUME IInv, ReadFleet PROVE IInv'
<1>1. InputsInv' /\ Valid' = Valid /\ Rendered' = Rendered /\ Local' = Local
      /\ Overridden(Contested)' = Overridden(Contested) /\ knobs' = knobs
  BY SameInputs DEF IInv, ReadFleet
<1>2. FilesInv'
  BY <1>1 DEF IInv, FilesInv, ReadFleet, Ended
<1>6. Readers' = Readers /\ Writers' = Writers
  BY SameFiles DEF IInv, ReadFleet
<1>7. /\ pc = "fleet" /\ pc' \in {"verified", "drifted"}
      /\ drift' = drift \union (IF up = knobs.taskmanagers THEN {} ELSE {"taskmanagers"})
      /\ pc' = "verified" <=> drift' = {}
      /\ files' = files /\ job' = job /\ up' = up /\ losses' = losses
  BY DEF ReadFleet, cluster
<1>3. FleetInv'
  BY <1>1, <1>7 DEF IInv, FleetInv
<1>4. JobInv'
  BY <1>1, <1>6, <1>7 DEF IInv, JobInv, Demand
<1>5. DriftInv'
  <2>1. CheckpointDrift' = CheckpointDrift /\ VertexDrift' = VertexDrift
    BY SameGraph DEF ReadFleet, cluster
  <2>2. drift' = {} => CheckpointDrift' = {} /\ VertexDrift' = {}
    BY <1>7, <2>1 DEF IInv, DriftInv
  <2>3. Local /\ losses = 0 => up = knobs.taskmanagers
    BY <1>7 DEF IInv, FleetInv
  <2>4. drift' \subseteq {"interval", "mode", "source", "writer", "taskmanagers", "job"}
    BY <1>7 DEF IInv, DriftInv
  <2>5. ~Overridden(Contested) => drift' \subseteq {"taskmanagers", "job"}
    BY <1>7 DEF IInv, DriftInv
  <2>6. Local /\ losses = 0 /\ ~Overridden(Contested) => drift' = {}
    BY <1>7, <2>3 DEF IInv, DriftInv
  <2> QED BY <1>1, <1>7, <2>2, <2>4, <2>5, <2>6 DEF DriftInv
<1> QED BY <1>1, <1>2, <1>3, <1>4, <1>5 DEF IInv

----------------------------------------------------------------------------
(* The cluster's steps *)

LEMMA RegisterStep == ASSUME IInv, Register PROVE IInv'
<1>1. InputsInv' /\ Valid' = Valid /\ Rendered' = Rendered /\ Local' = Local
      /\ Overridden(Contested)' = Overridden(Contested) /\ knobs' = knobs
  BY SameInputs DEF IInv, Register, script
<1>2. FilesInv'
  BY <1>1 DEF IInv, FilesInv, Register, script
<1>6. Readers' = Readers /\ Writers' = Writers
  BY SameFiles DEF IInv, Register, script
<1>7. CheckpointDrift' = CheckpointDrift /\ VertexDrift' = VertexDrift /\ Demand(job)' = Demand(job)
  BY SameGraph DEF Register, script
<1>3. FleetInv'
  <2>1. Valid /\ files = Rendered
    BY DEF IInv, FilesInv, Register, Started
  <2>2. TaskManagers = knobs.taskmanagers
    BY <2>1, Plan DEF IInv
  <2>3. up' = up + 1 /\ up < knobs.taskmanagers /\ losses' = losses /\ pc' = pc /\ pc # "verified"
    BY <2>2 DEF Register, Started, script
  <2> QED BY <1>1, <2>3 DEF IInv, InputsInv, FleetInv
<1>4. JobInv'
  BY <1>1, <1>6, <1>7 DEF IInv, JobInv, Register, script
<1>5. DriftInv'
  BY <1>1, <1>7 DEF IInv, DriftInv, FleetInv, Register, script
<1> QED BY <1>1, <1>2, <1>3, <1>4, <1>5 DEF IInv

LEMMA LoseStep == ASSUME IInv, Lose PROVE IInv'
<1>1. InputsInv' /\ Valid' = Valid /\ Rendered' = Rendered /\ Local' = Local
      /\ Overridden(Contested)' = Overridden(Contested) /\ knobs' = knobs
  BY SameInputs DEF IInv, Lose, script
<1>2. FilesInv'
  BY <1>1 DEF IInv, FilesInv, Lose, script
<1>6. Readers' = Readers /\ Writers' = Writers
  BY SameFiles DEF IInv, Lose, script
<1>7. CheckpointDrift' = CheckpointDrift /\ VertexDrift' = VertexDrift /\ Demand(job)' = Demand(job)
  BY SameGraph DEF Lose, script
<1>3. FleetInv'
  <2>1. up' = up - 1 /\ up > 0 /\ losses' = losses + 1 /\ losses < MaxLosses /\ pc' = pc
        /\ pc # "verified"
    BY DEF Lose, Started, script
  <2> QED BY <1>1, <2>1, FlinkJobAssumption DEF IInv, InputsInv, FleetInv
<1>4. JobInv'
  <2>1. /\ job'.readers = job.readers /\ job'.writers = job.writers
        /\ job'.state = IF job.state = "RUNNING" THEN "CREATED" ELSE job.state
        /\ job' = job \/ (job.state = "RUNNING" /\ job'.state = "CREATED")
    <3>1. CASE job.state = "RUNNING"
      BY <3>1 DEF Lose, IInv, JobInv
    <3>2. CASE job.state # "RUNNING"
      BY <3>2 DEF Lose
    <3> QED BY <3>1, <3>2
  <2>2. losses' # 0 /\ pc' = pc /\ files' = files
    BY DEF Lose, script, IInv, FleetInv
  <2> QED BY <1>1, <1>6, <1>7, <2>1, <2>2 DEF IInv, JobInv
<1>5. DriftInv'
  BY <1>1, <1>7 DEF IInv, DriftInv, FleetInv, Lose, script
<1> QED BY <1>1, <1>2, <1>3, <1>4, <1>5 DEF IInv

LEMMA ScheduleStep == ASSUME IInv, Schedule PROVE IInv'
<1>1. InputsInv' /\ Valid' = Valid /\ Rendered' = Rendered /\ Local' = Local
      /\ Overridden(Contested)' = Overridden(Contested) /\ knobs' = knobs
  BY SameInputs DEF IInv, Schedule, script
<1>2. FilesInv'
  BY <1>1 DEF IInv, FilesInv, Schedule, script
<1>6. Readers' = Readers /\ Writers' = Writers
  BY SameFiles DEF IInv, Schedule, script
<1>7. CheckpointDrift' = CheckpointDrift /\ VertexDrift' = VertexDrift /\ Demand(job)' = Demand(job)
  BY SameGraph DEF Schedule, script
<1>3. FleetInv'
  BY <1>1 DEF IInv, FleetInv, Schedule, script
<1>4. JobInv'
  BY <1>1, <1>6, <1>7 DEF IInv, JobInv, Schedule, script
<1>5. DriftInv'
  BY <1>1, <1>7 DEF IInv, DriftInv, FleetInv, Schedule, script
<1> QED BY <1>1, <1>2, <1>3, <1>4, <1>5 DEF IInv

LEMMA SlotsTimeOutStep == ASSUME IInv, SlotsTimeOut PROVE IInv'
<1>1. InputsInv' /\ Valid' = Valid /\ Rendered' = Rendered /\ Local' = Local
      /\ Overridden(Contested)' = Overridden(Contested) /\ knobs' = knobs
  BY SameInputs DEF IInv, SlotsTimeOut, script
<1>2. FilesInv'
  BY <1>1 DEF IInv, FilesInv, SlotsTimeOut, script
<1>6. Readers' = Readers /\ Writers' = Writers
  BY SameFiles DEF IInv, SlotsTimeOut, script
<1>7. CheckpointDrift' = CheckpointDrift /\ VertexDrift' = VertexDrift /\ Demand(job)' = Demand(job)
  BY SameGraph DEF SlotsTimeOut, script
<1>3. FleetInv'
  BY <1>1 DEF IInv, FleetInv, SlotsTimeOut, script
<1>4. JobInv'
  <2>1. /\ job.state = "RUNNING" /\ job'.state = "CREATED"
        /\ job'.readers = job.readers /\ job'.writers = job.writers
        /\ Demand(job) > up * TMSlots
        /\ pc' = pc /\ files' = files /\ losses' = losses
    BY DEF SlotsTimeOut, script, IInv, JobInv
  <2>2. ~(Local /\ losses = 0 /\ ~Overridden(Contested) /\ pc = "verify")
    BY <2>1, NoTimeOut
  <2> QED BY <1>1, <1>6, <2>1, <2>2 DEF IInv, JobInv
<1>5. DriftInv'
  BY <1>1, <1>7 DEF IInv, DriftInv, FleetInv, SlotsTimeOut, script
<1> QED BY <1>1, <1>2, <1>3, <1>4, <1>5 DEF IInv

----------------------------------------------------------------------------
(* The theorems *)

LEMMA StutterStep == ASSUME IInv, UNCHANGED vars PROVE IInv'
<1>1. InputsInv' /\ Valid' = Valid /\ Rendered' = Rendered /\ Local' = Local
      /\ Overridden(Contested)' = Overridden(Contested) /\ knobs' = knobs
  BY SameInputs DEF IInv, vars
<1>2. FilesInv'
  BY <1>1 DEF IInv, FilesInv, vars, script
<1>3. FleetInv'
  BY <1>1 DEF IInv, FleetInv, vars, script, cluster
<1>6. Readers' = Readers /\ Writers' = Writers
  BY SameFiles DEF IInv, vars, script
<1>7. CheckpointDrift' = CheckpointDrift /\ VertexDrift' = VertexDrift /\ Demand(job)' = Demand(job)
  BY SameGraph DEF vars, script, cluster
<1>4. JobInv'
  BY <1>1, <1>6, <1>7 DEF IInv, JobInv, vars, script, cluster
<1>5. DriftInv'
  BY <1>1, <1>7 DEF IInv, DriftInv, vars, script, cluster
<1> QED BY <1>1, <1>2, <1>3, <1>4, <1>5 DEF IInv

\* Every file, reading and width of a run follows from its inputs and its place.
THEOREM SpecIInv == Spec => []IInv
<1>1. IInv /\ [Next]_vars => IInv'
  BY StagedStep, StartStep, WaitForSlotsStep, SubmitStep, AwaitRunningStep, ReadJobStep, ReadFleetStep,
     RegisterStep, LoseStep, ScheduleStep, SlotsTimeOutStep, StutterStep DEF Next, Script
<1> QED BY InitIInv, <1>1, PTL DEF Spec

\* Nothing that is rendered is taken for no files at all.
LEMMA RenderedIsFiles == Rendered # NoFiles
<1>1. "hint" \in DOMAIN Rendered
  BY DEF Rendered
<1>2. "hint" \notin DOMAIN NoFiles
  BY DEF NoFiles
<1> QED BY <1>1, <1>2

\* The variables keep their types (stage.py, smoke.sh and verify.py of one run).
THEOREM TypeCorrect == Spec => []TypeOK
<1>1. IInv => TypeOK
  <2> SUFFICES ASSUME IInv PROVE TypeOK
    OBVIOUS
  <2>1. /\ place \in Places
        /\ pc \in Ended \union {"spec", "staged", "slots", "submit", "await", "verify", "fleet"}
        /\ drift \subseteq {"interval", "mode", "source", "writer", "taskmanagers", "job"}
    BY DEF IInv, InputsInv, FilesInv, DriftInv
  <2>2. up \in 0..knobs.taskmanagers /\ losses \in 0..MaxLosses
    BY DEF IInv, InputsInv, FleetInv
  <2>3. pc \in {"spec", "refused"} <=> files = NoFiles
    BY RenderedIsFiles DEF IInv, FilesInv
  <2>4. job.state \in {"none", "CREATED", "RUNNING", "FAILED"}
    BY DEF IInv, JobInv
  <2>5. job # NoJob => files # NoFiles /\ {job.readers, job.writers} \subseteq Nat \ {0}
    <3> SUFFICES ASSUME job # NoJob
                 PROVE  files # NoFiles /\ {job.readers, job.writers} \subseteq Nat \ {0}
      OBVIOUS
    <3>1. pc \notin {"spec", "refused"} /\ job.readers = Readers /\ job.writers = Writers
      BY DEF IInv, JobInv
    <3>2. Valid /\ files = Rendered
      BY <3>1 DEF IInv, FilesInv
    <3> QED BY <3>1, <3>2, Plan, RenderedIsFiles DEF IInv
  <2> QED BY <2>1, <2>2, <2>3, <2>4, <2>5 DEF TypeOK
<1> QED BY <1>1, SpecIInv, PTL

\* A verified job has the declared readers and writers and checkpoints exactly
\* once, for any knobs and any overrides.
THEOREM Asked == Spec => []VerifiedIsAsked
<1>1. IInv => VerifiedIsAsked
  <2> SUFFICES ASSUME IInv, pc = "verified"
               PROVE  /\ job.readers = knobs.source /\ knobs.source <= Partitions
                      /\ job.writers = SlotsTotal
                      /\ files.conf["mode"] = Knob["mode"]
    BY DEF VerifiedIsAsked
  <2>1. Valid
    BY DEF IInv, FilesInv
  <2>2. CheckpointDrift = {} /\ VertexDrift = {}
    BY DEF IInv, DriftInv
  <2>3. job.readers = knobs.source /\ job.writers = SlotsTotal
    BY <2>2 DEF VertexDrift
  <2>4. files.conf["mode"] = Knob["mode"]
    BY <2>2 DEF CheckpointDrift
  <2> QED BY <2>1, <2>3, <2>4 DEF Valid
<1> QED BY <1>1, SpecIInv, PTL

\* The writers of a verified job fill its fleet, unless the slots were overridden
\* on Kubernetes.
THEOREM Filled == Spec => []EverySlotWrites
<1>1. IInv => EverySlotWrites
  <2> SUFFICES ASSUME IInv, pc = "verified", SlotsAsAsked
               PROVE  /\ Demand(job) = TaskManagers * TMSlots /\ job.writers = Demand(job)
                      /\ up = TaskManagers
    BY DEF EverySlotWrites
  <2>1. Valid /\ files = Rendered
    BY DEF IInv, FilesInv
  <2>2. VertexDrift = {} /\ up = knobs.taskmanagers
    BY DEF IInv, DriftInv, FleetInv
  <2>3. job.readers = knobs.source /\ job.writers = SlotsTotal
    BY <2>2 DEF VertexDrift
  <2>4. Demand(job) = SlotsTotal
    BY <2>1, <2>3 DEF Demand, Valid, IInv, InputsInv
  <2>5. TMSlots = knobs.slots /\ TaskManagers = knobs.taskmanagers
    BY <2>1, Plan DEF IInv, SlotsAsAsked, Overridden
  <2> QED BY <2>2, <2>3, <2>4, <2>5 DEF SlotsTotal
<1> QED BY <1>1, SpecIInv, PTL

\* A validated block's own job is never too wide for its maximum parallelism.
THEOREM Accepted == Spec => []ValidatedIsAccepted
<1>1. IInv => ValidatedIsAccepted
  <2> SUFFICES ASSUME IInv, job.state = "FAILED", ~Overridden({"parallelism.default", "max-parallelism"})
               PROVE  FALSE
    BY DEF ValidatedIsAccepted
  <2>1. /\ pc \notin {"spec", "refused"} /\ job.readers = Readers /\ job.writers = Writers
        /\ Demand(job) > files.conf["max-parallelism"]
    BY DEF IInv, JobInv
  <2>2. Valid /\ files = Rendered
    BY <2>1 DEF IInv, FilesInv
  <2>3. job.readers = knobs.source /\ job.writers = SlotsTotal
    BY <2>1, <2>2, Plan DEF IInv, Overridden
  <2>4. Demand(job) = SlotsTotal
    BY <2>2, <2>3 DEF Demand, Valid, IInv, InputsInv
  <2>5. files.conf["max-parallelism"] = RenderConf["max-parallelism"]
    BY <2>2 DEF Rendered
  <2>6. RenderConf["max-parallelism"] = knobs.max
    BY DEF RenderConf, Knob, Settings, Overridden
  <2> QED BY <2>1, <2>2, <2>4, <2>5, <2>6 DEF Valid, IInv, InputsInv
<1> QED BY <1>1, SpecIInv, PTL

\* No run is turned away for settings of its own, and locally for none but a loss.
THEOREM NoFalseDrift == Spec => []OwnSettingsAreNoDrift
<1>1. IInv => OwnSettingsAreNoDrift
  BY DEF IInv, DriftInv, OwnSettingsAreNoDrift, Contested
<1> QED BY <1>1, SpecIInv, PTL

\* An override of memory, slots or parallelism reaches a cluster on Kubernetes.
THEOREM Reaches == Spec => []OverrideReachesDeployment
<1>1. IInv => OverrideReachesDeployment
  <2> SUFFICES ASSUME IInv, ~Local, files # NoFiles, NEW s \in DOMAIN extra
               PROVE  /\ s = "memory" => TMMemory = extra[s]
                      /\ s = "parallelism.default" => Readers = extra[s]
                      /\ s = "slots" => TMSlots = extra[s]
    BY DEF OverrideReachesDeployment
  <2>1. files = Rendered
    BY DEF IInv, FilesInv
  <2>2. RenderConf[s] = extra[s]
    BY DEF RenderConf, IInv, InputsInv
  <2> QED BY <2>1, <2>2 DEF Rendered, Deployment, TMMemory, Readers, TMSlots
<1> QED BY <1>1, SpecIInv, PTL

----------------------------------------------------------------------------
(* Staging *)

(* The steps of an attempt at which the topic is its own.                  *)
Holding == {"visible", "table", "register", "publish", "cleanup", "done"}

Stages == Holding \cup AttemptOver \cup {"idle", "check", "create"}

DriverRecords == [pc : {"start", "apply", "wait", "log", "sync", "drop", "fetched", "died"},
                  run : Runs, got : [RunFiles -> Nat]]

StagingTypeOK ==
  /\ harnessTable \in BOOLEAN /\ subjects \subseteq Runs
  /\ att \in [Attempts -> [pc : Stages, run : Runs, sent : 0 .. Len(FileOrder)]]
  /\ topic \in [Runs -> Nat] /\ table \in [Runs -> Nat]
  /\ stored \in [Runs -> [RunFiles -> Nat]]
  /\ stageJob \in Attempts \cup {0}
  /\ driver \in [Drivers -> DriverRecords]

(* Whoever may still use the topic holds it, and so does the only attempt  *)
(* of its run that can create the table or upload.                         *)
HoldsTopic(n) == att[n].pc \in Holding => topic[att[n].run] = n
HoldsTable(n) == att[n].pc \in {"register", "publish", "done"} /\ harnessTable => table[att[n].run] = n
IsRegistered(n) == att[n].pc \in {"publish", "done"} => att[n].run \in subjects
Unsent == {"check", "create", "visible", "table", "register"}
HasSent(n) ==
  /\ att[n].pc \in Unsent => att[n].sent = 0
  /\ att[n].pc \in {"publish", "done"} =>
       \A i \in 1 .. att[n].sent : stored[att[n].run][FileOrder[i]] = n
HasSentAll(n) == att[n].pc = "done" => att[n].sent = Len(FileOrder)

LeavesTopic(n) == \A r \in Runs : topic[r] = n => att[n].run = r /\ att[n].pc \in Holding \cup Excused

AttemptInv(n) == /\ HoldsTopic(n) /\ HoldsTable(n) /\ IsRegistered(n)
                 /\ HasSent(n) /\ HasSentAll(n) /\ LeavesTopic(n)

(* What a driver reads after the Job is of an attempt that is done.        *)
ReadDone(d) ==
  /\ driver[d].pc = "sync" => \E n \in Attempts : At(n, "done") /\ att[n].run = driver[d].run
  /\ driver[d].pc \in {"drop", "fetched"} =>
       \E n \in Attempts : /\ At(n, "done") /\ att[n].run = driver[d].run
                           /\ \A f \in RunFiles : driver[d].got[f] = n

StagingInv == /\ StagingTypeOK
              /\ \A n \in Attempts : AttemptInv(n)
              /\ \A d \in Drivers : ReadDone(d)

LEMMA InitStagingInv == StagingInit => StagingInv
<1> SUFFICES ASSUME StagingInit PROVE StagingInv
  OBVIOUS
<1>1. (CHOOSE r \in Runs : TRUE) \in Runs /\ Len(FileOrder) \in Nat
  <2>1. \E r : r \in Runs
    BY StagingAssumption
  <2>2. Len(FileOrder) \in Nat
    BY StagingAssumption
  <2>3. QED
    BY <2>1, <2>2
<1>2. StagingTypeOK
  BY <1>1 DEF StagingInit, StagingTypeOK, Stages, DriverRecords
<1>3. \A n \in Attempts : AttemptInv(n)
  BY StagingAssumption
  DEF StagingInit, AttemptInv, HoldsTopic, HoldsTable, IsRegistered, HasSent, HasSentAll, LeavesTopic, Holding, Unsent
<1>4. \A d \in Drivers : ReadDone(d)
  BY DEF StagingInit, ReadDone
<1>5. QED
  BY <1>2, <1>3, <1>4 DEF StagingInv

(* A done attempt stays done, so a driver keeps what it read of one.       *)
LEMMA ReadStays ==
  ASSUME StagingInv, UNCHANGED driver,
         \A n \in Attempts : At(n, "done") => att'[n].pc = "done" /\ att'[n].run = att[n].run
  PROVE  \A d \in Drivers : ReadDone(d)'
BY DEF StagingInv, ReadDone, At

(* The types and the rest of a step of attempt n that keeps its run.       *)
LEMMA AttemptMoves ==
  ASSUME StagingInv, NEW n \in Attempts, NEW to \in Stages,
         Goto(n, to), att[n].pc # "done"
  PROVE  /\ att' \in [Attempts -> [pc : Stages, run : Runs, sent : 0 .. Len(FileOrder)]]
         /\ att'[n].pc = to /\ att'[n].run = att[n].run /\ att'[n].sent = att[n].sent
         /\ \A m \in Attempts : m # n => att'[m] = att[m]
         /\ \A m \in Attempts : At(m, "done") => att'[m].pc = "done" /\ att'[m].run = att[m].run
BY DEF StagingInv, StagingTypeOK, Goto, At

(* A step of attempt n that leaves topic, table and uploads as they are.   *)
LEMMA QuietAttempt ==
  ASSUME StagingInv, NEW n \in Attempts, NEW to \in Stages, Goto(n, to), att[n].pc # "done",
         to \in Holding => att[n].pc \in Holding,
         att[n].pc \in Holding \cup Excused => to \in Holding \cup Excused, to \in Unsent => att[n].pc \in Unsent,
         to = "register" => att[n].pc = "register" \/ ~harnessTable,
         to \notin {"publish", "done"} \/ att[n].pc = "publish",
         to = "done" => att[n].sent = Len(FileOrder),
         Keep(made)
  PROVE  StagingInv'
<1>1. StagingTypeOK'
  BY AttemptMoves DEF StagingInv, StagingTypeOK, Keep, made
<1>2. UNCHANGED <<harnessTable, topic, table, subjects, stored, stageJob, driver>>
  BY DEF Keep, made
<1>3. ASSUME NEW m \in Attempts, m # n PROVE AttemptInv(m)'
  BY <1>2, <1>3, AttemptMoves
  DEF StagingInv, AttemptInv, HoldsTopic, HoldsTable, IsRegistered, HasSent, HasSentAll, LeavesTopic, Unsent
<1>4. AttemptInv(n)'
  <2>1. att'[n].pc = to /\ att'[n].run = att[n].run /\ att'[n].sent = att[n].sent
    BY AttemptMoves
  <2>2. AttemptInv(n)
    BY DEF StagingInv
  <2>3. QED
    BY <1>2, <2>1, <2>2
    DEF AttemptInv, HoldsTopic, HoldsTable, IsRegistered, HasSent, HasSentAll, LeavesTopic, Unsent
<1>5. \A d \in Drivers : ReadDone(d)'
  BY <1>2, AttemptMoves, ReadStays
<1>6. QED
  BY <1>1, <1>3, <1>4, <1>5 DEF StagingInv

LEMMA BeginKeeps ==
  ASSUME StagingInv, NEW n \in Attempts, NEW r \in Runs, Begin(n, r),
         UNCHANGED made, stageJob' \in {stageJob, n}, driver' \in [Drivers -> DriverRecords],
         \A d \in Drivers : driver'[d] = driver[d] \/ driver'[d].pc = "wait"
  PROVE  StagingInv'
<1>1. StagingTypeOK'
  <2>1. 0 \in 0 .. Len(FileOrder)
    BY StagingAssumption
  <2>2. QED
    BY <2>1 DEF StagingInv, StagingTypeOK, Begin, made, Stages
<1>2. UNCHANGED <<harnessTable, topic, table, subjects, stored>>
  BY DEF made
<1>3. /\ att'[n].pc = "check" /\ att'[n].sent = 0 /\ att[n].pc = "idle"
      /\ \A m \in Attempts : m # n => att'[m] = att[m]
  BY DEF StagingInv, StagingTypeOK, Begin, At
<1>4. ASSUME NEW m \in Attempts PROVE AttemptInv(m)'
  BY <1>2, <1>3
  DEF StagingInv, AttemptInv, HoldsTopic, HoldsTable, IsRegistered, HasSent, HasSentAll, LeavesTopic, Holding,
      Excused, Unsent
<1>5. \A d \in Drivers : ReadDone(d)'
  BY <1>2, <1>3 DEF StagingInv, ReadDone, At
<1>6. QED
  BY <1>1, <1>4, <1>5 DEF StagingInv

(* A topic is created where there is none, so not under another attempt.   *)
LEMMA CreateTopicKeeps ==
  ASSUME StagingInv, NEW n \in Attempts, CreateTopic(n)
  PROVE  StagingInv'
<1>1. PICK to \in {"refused", "visible", "unanswered", "failed"} :
        /\ Goto(n, to) /\ att[n].pc = "create"
        /\ to \in {"refused", "failed"} => topic' = topic
        /\ to = "visible" => topic' = [topic EXCEPT ![att[n].run] = n]
        /\ topic' = topic \/ (topic[att[n].run] = 0 /\ topic' = [topic EXCEPT ![att[n].run] = n])
  <2>1. CASE topic[att[n].run] # 0
    <3>1. Goto(n, "refused") /\ att[n].pc = "create" /\ UNCHANGED topic
      BY <2>1 DEF CreateTopic, At
    <3>2. QED
      BY <3>1
  <2>2. CASE topic[att[n].run] = 0
    BY <2>2 DEF CreateTopic, At
  <2>3. QED
    BY <2>1, <2>2
<1>2. UNCHANGED <<harnessTable, table, subjects, stored, stageJob, driver>>
  BY DEF CreateTopic
<1>3. /\ att' \in [Attempts -> [pc : Stages, run : Runs, sent : 0 .. Len(FileOrder)]]
      /\ att'[n].pc = to /\ att'[n].run = att[n].run /\ att'[n].sent = att[n].sent
      /\ \A m \in Attempts : m # n => att'[m] = att[m]
      /\ \A m \in Attempts : At(m, "done") => att'[m].pc = "done" /\ att'[m].run = att[m].run
  <2>1. to \in Stages /\ att[n].pc # "done"
    BY <1>1 DEF Stages, Holding, AttemptOver
  <2>2. QED
    BY <1>1, <2>1, AttemptMoves
<1>4. StagingTypeOK'
  <2>1. att[n].run \in Runs /\ n \in Nat
    BY StagingAssumption DEF StagingInv, StagingTypeOK
  <2>2. QED
    BY <1>1, <1>2, <1>3, <2>1 DEF StagingInv, StagingTypeOK
<1>5. ASSUME NEW m \in Attempts, m # n PROVE AttemptInv(m)'
  <2>1. att[m].pc \in Holding => topic'[att[m].run] = m
    <3>1. att[m].pc \in Holding => topic[att[m].run] = m /\ m # 0
      BY StagingAssumption DEF StagingInv, AttemptInv, HoldsTopic
    <3>2. QED
      BY <1>1, <3>1 DEF StagingInv, StagingTypeOK
  <2>2. AttemptInv(m) /\ att'[m] = att[m]
    BY <1>3, <1>5 DEF StagingInv
  <2>3. \A r \in Runs : topic'[r] = m => topic[r] = m
    BY <1>1, <1>5 DEF StagingInv, StagingTypeOK
  <2>4. QED
    BY <1>2, <2>1, <2>2, <2>3 DEF AttemptInv, HoldsTopic, HoldsTable, IsRegistered, HasSent, HasSentAll, LeavesTopic, Unsent
<1>6. AttemptInv(n)'
  <2>1. AttemptInv(n) /\ topic \in [Runs -> Nat] /\ att[n].run \in Runs
    BY DEF StagingInv, StagingTypeOK
  <2>2. \A r \in Runs : topic[r] # n
    BY <1>1, <2>1 DEF AttemptInv, LeavesTopic, Holding, Excused
  <2>3. LeavesTopic(n)'
    <3>1. CASE topic' = topic
      BY <2>2, <3>1 DEF LeavesTopic
    <3>2. CASE topic' # topic
      BY <1>1, <1>3, <2>1, <2>2, <3>2 DEF LeavesTopic, Holding, Excused
    <3>3. QED
      BY <3>1, <3>2
  <2>4. HoldsTopic(n)'
    BY <1>1, <1>3, <2>1 DEF HoldsTopic, Holding
  <2>5. QED
    BY <1>1, <1>3, <2>1, <2>3, <2>4 DEF AttemptInv, HoldsTable, IsRegistered, HasSent, HasSentAll, Unsent
<1>7. \A d \in Drivers : ReadDone(d)'
  BY <1>2, <1>3, ReadStays
<1>8. QED
  BY <1>4, <1>5, <1>6, <1>7 DEF StagingInv

(* Only the holder of a topic deletes it.                                  *)
LEMMA DeleteTopicKeeps ==
  ASSUME StagingInv, NEW n \in Attempts, DeleteTopic(n)
  PROVE  StagingInv'
<1>1. PICK to \in {"failed", "stuck"} :
        /\ Goto(n, to) /\ att[n].pc = "cleanup"
        /\ topic' = topic \/ topic' = [topic EXCEPT ![att[n].run] = 0]
        /\ to = "failed" => topic' = [topic EXCEPT ![att[n].run] = 0]
  BY DEF DeleteTopic, At
<1>2. UNCHANGED <<harnessTable, table, subjects, stored, stageJob, driver>>
  BY DEF DeleteTopic
<1>3. /\ att' \in [Attempts -> [pc : Stages, run : Runs, sent : 0 .. Len(FileOrder)]]
      /\ att'[n].pc = to /\ att'[n].run = att[n].run /\ att'[n].sent = att[n].sent
      /\ \A m \in Attempts : m # n => att'[m] = att[m]
      /\ \A m \in Attempts : At(m, "done") => att'[m].pc = "done" /\ att'[m].run = att[m].run
  <2>1. to \in Stages /\ att[n].pc # "done"
    BY <1>1 DEF Stages, Holding, AttemptOver
  <2>2. QED
    BY <1>1, <2>1, AttemptMoves
<1>4. StagingTypeOK'
  <2>1. att[n].run \in Runs /\ n \in Nat
    BY StagingAssumption DEF StagingInv, StagingTypeOK
  <2>2. topic' \in [Runs -> Nat]
    <3>1. topic \in [Runs -> Nat] /\ (topic' = topic \/ topic' = [topic EXCEPT ![att[n].run] = 0])
      BY <1>1 DEF StagingInv, StagingTypeOK
    <3>2. QED
      BY <2>1, <3>1
  <2>3. QED
    BY <1>2, <1>3, <2>2 DEF StagingInv, StagingTypeOK
<1>5. ASSUME NEW m \in Attempts, m # n PROVE AttemptInv(m)'
  <2>1. att[m].pc \in Holding => topic'[att[m].run] = m
    <3>1. att[m].pc \in Holding => topic[att[m].run] = m
      BY DEF StagingInv, AttemptInv, HoldsTopic
    <3>2. topic[att[n].run] = n
      BY <1>1 DEF StagingInv, AttemptInv, HoldsTopic, Holding
    <3>3. QED
      BY <1>1, <1>5, <3>1, <3>2 DEF StagingInv, StagingTypeOK
  <2>2. AttemptInv(m) /\ att'[m] = att[m]
    BY <1>3, <1>5 DEF StagingInv
  <2>3. \A r \in Runs : topic'[r] = m => topic[r] = m
    <3>1. m # 0
      BY StagingAssumption
    <3>2. QED
      BY <1>1, <3>1 DEF StagingInv, StagingTypeOK
  <2>4. QED
    BY <1>2, <2>1, <2>2, <2>3 DEF AttemptInv, HoldsTopic, HoldsTable, IsRegistered, HasSent, HasSentAll, LeavesTopic, Unsent
<1>6. AttemptInv(n)'
  <2>1. AttemptInv(n) /\ topic \in [Runs -> Nat] /\ att[n].run \in Runs /\ n # 0
    BY StagingAssumption DEF StagingInv, StagingTypeOK
  <2>2. \A r \in Runs : topic'[r] = n => topic[r] = n
    BY <1>1, <2>1
  <2>3. \A r \in Runs : topic'[r] = n => r = att[n].run /\ to = "stuck"
    BY <1>1, <2>1, <2>2 DEF AttemptInv, LeavesTopic
  <2>4. LeavesTopic(n)'
    BY <1>3, <2>3 DEF LeavesTopic, Excused
  <2>5. QED
    BY <1>1, <1>3, <2>4 DEF AttemptInv, HoldsTopic, HoldsTable, IsRegistered, HasSent, HasSentAll, Holding, Unsent
<1>7. \A d \in Drivers : ReadDone(d)'
  BY <1>2, <1>3, ReadStays
<1>8. QED
  BY <1>4, <1>5, <1>6, <1>7 DEF StagingInv

(* Two attempts that hold their topics are of different runs.              *)
LEMMA HoldersDiffer ==
  ASSUME StagingInv, NEW n \in Attempts, NEW m \in Attempts, m # n,
         att[n].pc \in Holding, att[m].pc \in Holding
  PROVE  att[m].run # att[n].run
BY DEF StagingInv, AttemptInv, HoldsTopic

LEMMA CreateTableKeeps ==
  ASSUME StagingInv, NEW n \in Attempts, CreateTable(n)
  PROVE  StagingInv'
<1>1. PICK to \in {"register", "cleanup"} :
        /\ Goto(n, to) /\ att[n].pc = "table"
        /\ to = "register" /\ harnessTable => table' = [table EXCEPT ![att[n].run] = n]
        /\ table' = table \/ table' = [table EXCEPT ![att[n].run] = n]
  BY DEF CreateTable, At
<1>2. UNCHANGED <<harnessTable, topic, subjects, stored, stageJob, driver>>
  BY DEF CreateTable
<1>3. /\ att' \in [Attempts -> [pc : Stages, run : Runs, sent : 0 .. Len(FileOrder)]]
      /\ att'[n].pc = to /\ att'[n].run = att[n].run /\ att'[n].sent = att[n].sent
      /\ \A m \in Attempts : m # n => att'[m] = att[m]
      /\ \A m \in Attempts : At(m, "done") => att'[m].pc = "done" /\ att'[m].run = att[m].run
  <2>1. to \in Stages /\ att[n].pc # "done"
    BY <1>1 DEF Stages, Holding, AttemptOver
  <2>2. QED
    BY <1>1, <2>1, AttemptMoves
<1>4. StagingTypeOK'
  <2>1. att[n].run \in Runs /\ n \in Nat
    BY StagingAssumption DEF StagingInv, StagingTypeOK
  <2>2. QED
    BY <1>1, <1>2, <1>3, <2>1 DEF StagingInv, StagingTypeOK
<1>5. ASSUME NEW m \in Attempts, m # n PROVE AttemptInv(m)'
  <2>1. att[m].pc \in Holding => att[m].run # att[n].run
    BY <1>1, <1>5, HoldersDiffer DEF Holding
  <2>2. AttemptInv(m) /\ att'[m] = att[m]
    BY <1>3, <1>5 DEF StagingInv
  <2>3. HoldsTable(m)'
    BY <1>1, <1>2, <2>1, <2>2 DEF StagingInv, StagingTypeOK, AttemptInv, HoldsTable, Holding
  <2>4. QED
    BY <1>2, <2>2, <2>3 DEF AttemptInv, HoldsTopic, IsRegistered, HasSent, HasSentAll, LeavesTopic, Unsent
<1>6. AttemptInv(n)'
  <2>1. AttemptInv(n)
    BY DEF StagingInv
  <2>2. QED
    BY <1>1, <1>2, <1>3, <2>1
    DEF StagingInv, StagingTypeOK, AttemptInv, HoldsTopic, HoldsTable, IsRegistered, HasSent, HasSentAll, LeavesTopic, Holding, Unsent
<1>7. \A d \in Drivers : ReadDone(d)'
  BY <1>2, <1>3, ReadStays
<1>8. QED
  BY <1>4, <1>5, <1>6, <1>7 DEF StagingInv

LEMMA RegisterSchemaKeeps ==
  ASSUME StagingInv, NEW n \in Attempts, RegisterSchema(n)
  PROVE  StagingInv'
<1>1. PICK to \in {"publish", "cleanup"} :
        Goto(n, to) /\ att[n].pc = "register" /\ subjects' = subjects \cup {att[n].run}
  BY DEF RegisterSchema, At
<1>2. UNCHANGED <<harnessTable, topic, table, stored, stageJob, driver>>
  BY DEF RegisterSchema
<1>3. /\ att' \in [Attempts -> [pc : Stages, run : Runs, sent : 0 .. Len(FileOrder)]]
      /\ att'[n].pc = to /\ att'[n].run = att[n].run /\ att'[n].sent = att[n].sent
      /\ \A m \in Attempts : m # n => att'[m] = att[m]
      /\ \A m \in Attempts : At(m, "done") => att'[m].pc = "done" /\ att'[m].run = att[m].run
  <2>1. to \in Stages /\ att[n].pc # "done"
    BY <1>1 DEF Stages, Holding, AttemptOver
  <2>2. QED
    BY <1>1, <2>1, AttemptMoves
<1>4. StagingTypeOK'
  BY <1>1, <1>2, <1>3 DEF StagingInv, StagingTypeOK
<1>5. ASSUME NEW m \in Attempts, m # n PROVE AttemptInv(m)'
  <2>1. AttemptInv(m) /\ att'[m] = att[m]
    BY <1>3, <1>5 DEF StagingInv
  <2>2. QED
    BY <1>1, <1>2, <2>1 DEF AttemptInv, HoldsTopic, HoldsTable, IsRegistered, HasSent, HasSentAll, LeavesTopic, Unsent
<1>6. AttemptInv(n)'
  <2>1. AttemptInv(n)
    BY DEF StagingInv
  <2>2. HoldsTopic(n)' /\ HoldsTable(n)' /\ IsRegistered(n)' /\ HasSentAll(n)' /\ LeavesTopic(n)'
    BY <1>1, <1>2, <1>3, <2>1 DEF AttemptInv, HoldsTopic, HoldsTable, IsRegistered, HasSentAll, LeavesTopic, Holding, Unsent
  <2>3. att'[n].sent = 0
    BY <1>1, <1>3, <2>1 DEF AttemptInv, HasSent, Unsent
  <2>4. QED
    BY <1>1, <1>3, <2>2, <2>3 DEF AttemptInv, HasSent, Unsent
<1>7. \A d \in Drivers : ReadDone(d)'
  BY <1>2, <1>3, ReadStays
<1>8. QED
  BY <1>4, <1>5, <1>6, <1>7 DEF StagingInv

(* An attempt that uploads is the only one that does so for its run.       *)
LEMMA PublishFileKeeps ==
  ASSUME StagingInv, NEW n \in Attempts, PublishFile(n)
  PROVE  StagingInv'
<1> DEFINE r == att[n].run
           k == att[n].sent + 1
<1>1. att[n].pc = "publish" /\ att[n].sent < Len(FileOrder)
  BY DEF PublishFile, At
<1>2. CASE Goto(n, "cleanup") /\ UNCHANGED stored
  <2>1. Keep(made)
    BY <1>2 DEF PublishFile, Keep, made
  <2>2. QED
    BY <1>1, <1>2, <2>1, QuietAttempt DEF Stages, Holding, Excused, Unsent
<1>3. CASE /\ stored' = [stored EXCEPT ![r][FileOrder[k]] = n]
           /\ att' = [att EXCEPT ![n].sent = @ + 1]
  <2>1. UNCHANGED <<harnessTable, topic, table, subjects, stageJob, driver>>
    BY DEF PublishFile
  <2>2. att[n].sent \in Nat /\ Len(FileOrder) \in Nat /\ k \in 1 .. Len(FileOrder) /\ r \in Runs /\ n \in Nat
    BY <1>1, StagingAssumption DEF StagingInv, StagingTypeOK
  <2>3. FileOrder[k] \in RunFiles
    BY <2>2, StagingAssumption DEF RunFiles
  <2>4. /\ att' \in [Attempts -> [pc : Stages, run : Runs, sent : 0 .. Len(FileOrder)]]
        /\ att'[n].pc = "publish" /\ att'[n].run = r /\ att'[n].sent = k
        /\ \A m \in Attempts : m # n => att'[m] = att[m]
    <3>1. att \in [Attempts -> [pc : Stages, run : Runs, sent : 0 .. Len(FileOrder)]]
      BY DEF StagingInv, StagingTypeOK
    <3>2. k \in 0 .. Len(FileOrder) /\ att' = [att EXCEPT ![n].sent = k]
      BY <1>3, <2>2
    <3> HIDE DEF k
    <3>3. QED
      BY <1>1, <3>1, <3>2
  <2>5. /\ stored' \in [Runs -> [RunFiles -> Nat]]
        /\ stored'[r][FileOrder[k]] = n
        /\ \A f \in RunFiles : stored[r][f] = n => stored'[r][f] = n
        /\ \A q \in Runs : q # r => stored'[q] = stored[q]
    BY <1>3, <2>2, <2>3 DEF StagingInv, StagingTypeOK
  <2>6. StagingTypeOK'
    BY <2>1, <2>4, <2>5 DEF StagingInv, StagingTypeOK
  <2>7. ASSUME NEW m \in Attempts, m # n PROVE AttemptInv(m)'
    <3>1. AttemptInv(m) /\ att'[m] = att[m] /\ att[m].run \in Runs
      BY <2>4, <2>7 DEF StagingInv, StagingTypeOK
    <3>2. att[m].pc \in {"publish", "done"} => att[m].run # r
      BY <1>1, <2>7, HoldersDiffer DEF Holding
    <3>3. HasSent(m)'
      BY <2>5, <3>1, <3>2 DEF AttemptInv, HasSent
    <3>4. QED
      BY <2>1, <3>1, <3>3 DEF AttemptInv, HoldsTopic, HoldsTable, IsRegistered, HasSentAll, LeavesTopic
  <2>8. AttemptInv(n)'
    <3>1. AttemptInv(n)
      BY DEF StagingInv
    <3>2. \A i \in 1 .. k : stored'[r][FileOrder[i]] = n
      <4>1. SUFFICES ASSUME NEW i \in 1 .. k, i # k PROVE stored'[r][FileOrder[i]] = n
        BY <2>5
      <4>2. i \in 1 .. att[n].sent /\ i \in 1 .. Len(FileOrder)
        BY <1>1, <2>2, <4>1
      <4>3. stored[r][FileOrder[i]] = n
        BY <1>1, <3>1, <4>2 DEF AttemptInv, HasSent
      <4>4. FileOrder[i] \in RunFiles
        BY <4>2, StagingAssumption DEF RunFiles
      <4>5. QED
        BY <2>5, <4>3, <4>4
    <3>3. HasSent(n)'
      BY <2>4, <3>2 DEF HasSent, Unsent
    <3>4. QED
      BY <1>1, <2>1, <2>4, <3>1, <3>3 DEF AttemptInv, HoldsTopic, HoldsTable, IsRegistered, HasSentAll, LeavesTopic, Holding
  <2>9. \A d \in Drivers : ReadDone(d)'
    BY <1>1, <2>1, <2>4, ReadStays DEF At
  <2>10. QED
    BY <2>6, <2>7, <2>8, <2>9 DEF StagingInv
<1>4. QED
  BY <1>2, <1>3 DEF PublishFile

LEMMA AttemptKeeps ==
  ASSUME StagingInv, NEW n \in Attempts, StageStep(n)
  PROVE  StagingInv'
<1>1. CASE CheckTopic(n)
  <2>1. PICK to \in {"refused", "create"} : Goto(n, to) /\ att[n].pc = "check" /\ Keep(made)
    BY <1>1 DEF CheckTopic, At
  <2>2. QED
    BY <2>1, QuietAttempt DEF Stages, Holding, Excused, Unsent, AttemptOver
<1>2. CASE AwaitTopic(n)
  <2>1. PICK to \in {"table", "unanswered"} : Goto(n, to) /\ att[n].pc = "visible" /\ Keep(made)
    BY <1>2 DEF AwaitTopic, At
  <2>2. QED
    BY <2>1, QuietAttempt DEF Stages, Holding, Excused, Unsent, AttemptOver
<1>3. CASE Finish(n)
  BY <1>3, QuietAttempt DEF Finish, At, Stages, Holding, Unsent
<1>4. CASE Kill(n)
  BY <1>4, QuietAttempt DEF Kill, Stages, Holding, Excused, Unsent, AttemptOver
<1>5. QED
  BY <1>1, <1>2, <1>3, <1>4, CreateTopicKeeps, CreateTableKeeps, RegisterSchemaKeeps, PublishFileKeeps,
     DeleteTopicKeeps DEF StageStep

(* A driver's step changes what it knows, the Job, and may begin an        *)
(* attempt; what it reads is of an attempt that is done.                   *)
LEMMA DriverMoves ==
  ASSUME StagingInv, NEW d \in Drivers, UNCHANGED <<made, att>>,
         stageJob' \in Attempts \cup {0}, driver' \in [Drivers -> DriverRecords],
         \A c \in Drivers \ {d} : driver'[c] = driver[c],
         driver'[d].pc = "sync" => \E n \in Attempts : At(n, "done") /\ att[n].run = driver'[d].run,
         driver'[d].pc \in {"drop", "fetched"} =>
           \E n \in Attempts : /\ At(n, "done") /\ att[n].run = driver'[d].run
                               /\ \A f \in RunFiles : driver'[d].got[f] = n
  PROVE  StagingInv'
<1>1. StagingTypeOK'
  BY DEF StagingInv, StagingTypeOK, made
<1>2. \A n \in Attempts : AttemptInv(n)'
  BY DEF StagingInv, made, AttemptInv, HoldsTopic, HoldsTable, IsRegistered, HasSent, HasSentAll, LeavesTopic
<1>3. ASSUME NEW c \in Drivers PROVE ReadDone(c)'
  <2>1. CASE c = d
    BY <2>1 DEF ReadDone, At
  <2>2. CASE c # d
    <3>1. ReadDone(c) /\ driver'[c] = driver[c]
      BY <2>2 DEF StagingInv
    <3>2. QED
      BY <3>1 DEF ReadDone, At
  <2>3. QED
    BY <2>1, <2>2
<1>4. QED
  BY <1>1, <1>2, <1>3 DEF StagingInv

LEMMA DriverGoes ==
  ASSUME StagingInv, NEW d \in Drivers, 
         NEW to \in {"start", "apply", "wait", "log", "sync", "drop", "fetched", "died"}, DriverGoto(d, to)
  PROVE  /\ driver' \in [Drivers -> DriverRecords]
         /\ driver'[d].pc = to /\ driver'[d].run = driver[d].run /\ driver'[d].got = driver[d].got
         /\ \A c \in Drivers \ {d} : driver'[c] = driver[c]
BY DEF StagingInv, StagingTypeOK, DriverRecords, DriverGoto

(* The first upload is in place only of a directory that is complete, when *)
(* its attempt is done.                                                    *)
LEMMA DoneIsStored ==
  ASSUME StagingInv, NEW n \in Attempts, At(n, "done")
  PROVE  \A f \in RunFiles : stored[att[n].run][f] = n
<1>1. ASSUME NEW f \in RunFiles PROVE \E i \in 1 .. Len(FileOrder) : FileOrder[i] = f
  BY StagingAssumption DEF RunFiles, Range
<1>2. att[n].sent = Len(FileOrder) /\ \A i \in 1 .. att[n].sent : stored[att[n].run][FileOrder[i]] = n
  BY DEF StagingInv, AttemptInv, HasSent, HasSentAll, LeavesTopic, At
<1>3. QED
  BY <1>1, <1>2

LEMMA DriverKeeps ==
  ASSUME StagingInv, NEW d \in Drivers, DriverStep(d)
  PROVE  StagingInv'
<1>0. stageJob \in Attempts \cup {0} /\ 0 \notin Attempts /\ ReadDone(d)
  BY StagingAssumption DEF StagingInv, StagingTypeOK
<1>1. CASE DeletePrevious(d)
  BY <1>1, DriverGoes, DriverMoves DEF DeletePrevious
<1>2. CASE ApplyJob(d)
  <2>1. DriverGoto(d, "wait") /\ UNCHANGED made
    BY <1>2 DEF ApplyJob
  <2>2. CASE stageJob # 0
    BY <1>0, <1>2, <2>1, <2>2, DriverGoes, DriverMoves DEF ApplyJob
  <2>3. CASE stageJob = 0
    <3>1. PICK n \in Attempts, r \in FreshRuns : Begin(n, r) /\ stageJob' = n
      BY <1>2, <2>3 DEF ApplyJob
    <3>2. r \in Runs
      BY DEF FreshRuns
    <3>3. /\ driver' \in [Drivers -> DriverRecords]
          /\ \A c \in Drivers : driver'[c] = driver[c] \/ driver'[c].pc = "wait"
      BY <2>1, DriverGoes
    <3>4. QED
      BY <2>1, <3>1, <3>2, <3>3, BeginKeeps
  <2>4. QED
    BY <2>2, <2>3
<1>3. CASE WaitJob(d)
  <2>1. PICK to \in {"log", "died"} : DriverGoto(d, to) /\ UNCHANGED <<made, att, stageJob>>
    BY <1>3 DEF WaitJob
  <2>2. QED
    BY <1>0, <2>1, DriverGoes, DriverMoves
<1>4. CASE ReadLog(d)
  <2>1. CASE stageJob # 0 /\ At(stageJob, "done")
    <3>1. stageJob \in Attempts /\ att[stageJob].run \in Runs
      BY <1>0, <2>1 DEF StagingInv, StagingTypeOK
    <3>2. driver' = [driver EXCEPT ![d].pc = "sync", ![d].run = att[stageJob].run]
      BY <1>4, <2>1 DEF ReadLog
    <3>3. /\ driver' \in [Drivers -> DriverRecords]
          /\ driver'[d].pc = "sync" /\ driver'[d].run = att[stageJob].run
          /\ \A c \in Drivers \ {d} : driver'[c] = driver[c]
      BY <3>1, <3>2 DEF StagingInv, StagingTypeOK, DriverRecords
    <3>4. UNCHANGED <<made, att, stageJob>>
      BY <1>4 DEF ReadLog
    <3>5. QED
      BY <1>0, <2>1, <3>1, <3>3, <3>4, DriverMoves
  <2>2. CASE ~(stageJob # 0 /\ At(stageJob, "done"))
    <3>1. DriverGoto(d, "died") /\ UNCHANGED <<made, att, stageJob>>
      BY <1>4, <2>2 DEF ReadLog
    <3>2. QED
      BY <1>0, <3>1, DriverGoes, DriverMoves
  <2>3. QED
    BY <2>1, <2>2
<1>5. CASE Sync(d)
  <2>1. PICK n \in Attempts : At(n, "done") /\ att[n].run = driver[d].run
    BY <1>0, <1>5 DEF Sync, DriverAt, ReadDone
  <2>2. UNCHANGED <<made, att, stageJob>>
    BY <1>5 DEF Sync
  <2>3. CASE driver' = [driver EXCEPT ![d].pc = "drop", ![d].got = stored[driver[d].run]]
    <3>1. stored[driver[d].run] \in [RunFiles -> Nat]
      BY DEF StagingInv, StagingTypeOK, DriverRecords
    <3>2. /\ driver' \in [Drivers -> DriverRecords]
          /\ driver'[d].pc = "drop" /\ driver'[d].run = driver[d].run
          /\ driver'[d].got = stored[driver[d].run]
          /\ \A c \in Drivers \ {d} : driver'[c] = driver[c]
      BY <2>3, <3>1 DEF StagingInv, StagingTypeOK, DriverRecords
    <3>3. \A f \in RunFiles : driver'[d].got[f] = n
      BY <2>1, <3>2, DoneIsStored
    <3>4. QED
      BY <1>0, <2>1, <2>2, <3>2, <3>3, DriverMoves
  <2>4. CASE DriverGoto(d, "died")
    BY <1>0, <2>2, <2>4, DriverGoes, DriverMoves
  <2>5. QED
    BY <1>5, <2>3, <2>4 DEF Sync
<1>6. CASE DropJob(d)
  <2>1. DriverGoto(d, "fetched") /\ UNCHANGED <<made, att>> /\ stageJob' = 0
    BY <1>6 DEF DropJob
  <2>2. PICK n \in Attempts : /\ At(n, "done") /\ att[n].run = driver[d].run
                              /\ \A f \in RunFiles : driver[d].got[f] = n
    BY <1>0, <1>6 DEF DropJob, DriverAt, ReadDone
  <2>3. QED
    BY <2>1, <2>2, DriverGoes, DriverMoves
<1>7. CASE Rerun(d)
  <2>1. DriverGoto(d, "start") /\ UNCHANGED <<made, att, stageJob>>
    BY <1>7 DEF Rerun
  <2>2. QED
    BY <1>0, <2>1, DriverGoes, DriverMoves
<1>8. QED
  BY <1>1, <1>2, <1>3, <1>4, <1>5, <1>6, <1>7 DEF DriverStep

LEMMA NextStagingInv ==
  ASSUME StagingInv, [StagingNext]_stagingVars
  PROVE  StagingInv'
<1>1. CASE StageByHand
  <2>1. PICK n \in Attempts, r \in Runs : Begin(n, r)
    BY <1>1 DEF StageByHand
  <2>2. QED
    BY <1>1, <2>1, BeginKeeps DEF StageByHand, StagingInv, StagingTypeOK
<1>2. CASE UNCHANGED stagingVars
  BY <1>2
  DEF stagingVars, made, StagingInv, StagingTypeOK, AttemptInv, HoldsTopic, HoldsTable, IsRegistered,
      HasSent, HasSentAll, LeavesTopic, ReadDone, At
<1>3. QED
  BY <1>1, <1>2, AttemptKeeps, DriverKeeps DEF StagingNext

(* Attempts of one run id, killed or failing anywhere, and drivers that    *)
(* race for a Job never mix what two attempts staged, and a run once       *)
(* staged keeps the topic, table and subject that its attempt made.        *)
THEOREM StagingFetchesWhole == StagingSpec => []FetchedIsStaged
<1>1. StagingInv => FetchedIsStaged
  <2> SUFFICES ASSUME StagingInv PROVE FetchedIsStaged
    OBVIOUS
  <2>1. StagedIsItsOwn
    BY DEF StagingInv, AttemptInv, HoldsTopic, HoldsTable, IsRegistered, StagedIsItsOwn, At, Holding
  <2>2. LeftTopicIsExcused
    BY DEF StagingInv, AttemptInv, LeavesTopic, Holding, LeftTopicIsExcused
  <2>3. QED
    BY <2>1, <2>2 DEF StagingInv, ReadDone, FetchedIsStaged
<1>2. QED
  BY <1>1, InitStagingInv, NextStagingInv, PTL DEF StagingSpec

----------------------------------------------------------------------------
(* The check of an engine *)

(* Only a comparison that came out well leads on to the capture, and the   *)
(* settings do not change; what is captured is the fleet as it then was.   *)
EngineInv ==
  /\ step \in {"capture", "returned"} => asked
  /\ step = "returned" => /\ Cardinality(captured \cap Heads) = 1
                         /\ Cardinality(captured \cap Workers) = Wanted

LEMMA OkIsAsked ==
  ASSUME NEW l, OK \in Verdicts(l)
  PROVE  asked
BY DEF Verdicts, FlinkVerdict, SparkVerdict, OK, UNVERIFIED, DRIFT, PENDING

LEMMA CaptureKeeps ==
  ASSUME EngineInv, Capture
  PROVE  EngineInv'
<1>1. CASE FleetComplete
  <2>1. /\ captured' \cap Heads = Running(phase, Heads)
        /\ captured' \cap Workers = Running(phase, Workers)
    BY <1>1 DEF Capture, Running, Pods
  <2>2. Cardinality(captured' \cap Heads) = 1 /\ Cardinality(captured' \cap Workers) = Wanted
    BY <1>1, <2>1 DEF FleetComplete
  <2>3. asked'
    BY DEF EngineInv, Capture, engine
  <2>4. QED
    BY <2>2, <2>3 DEF EngineInv
<1>2. CASE ~FleetComplete
  BY <1>2 DEF Capture, Die, EngineInv
<1>3. QED
  BY <1>1, <1>2

LEMMA NextEngineInv ==
  ASSUME EngineInv, [CheckNext]_checkVars
  PROVE  EngineInv'
<1>1. CASE EngineStep
  BY <1>1 DEF EngineInv, EngineStep
<1>2. CASE AwaitEngine
  BY <1>2 DEF EngineInv, AwaitEngine, Die, engine
<1>3. CASE ListPods
  BY <1>3 DEF EngineInv, ListPods, Die, engine
<1>4. CASE Verify
  <2>1. PICK v \in Verdicts(listed) :
          \/ v = OK /\ Verified
          \/ v = DRIFT /\ Die
          \/ v = PENDING /\ StillPlacing
          \/ v = UNVERIFIED /\ Unread
    BY <1>4 DEF Verify
  <2>2. UNCHANGED asked
    BY <1>4 DEF Verify, engine
  <2>3. CASE v = OK /\ Verified
    BY <2>2, <2>3, OkIsAsked DEF Verified, EngineInv
  <2>4. CASE ~(v = OK /\ Verified)
    <3>1. step' \in {"died", "list"}
      BY <2>1, <2>4 DEF Die, StillPlacing, Unread
    <3>2. QED
      BY <3>1 DEF EngineInv
  <2>5. QED
    BY <2>3, <2>4
<1>5. CASE UNCHANGED checkVars
  BY <1>5 DEF checkVars, engine, EngineInv
<1>6. QED
  BY <1>1, <1>2, <1>3, <1>4, <1>5, CaptureKeeps DEF CheckNext, CheckStep

(* A run id is printed for an engine only if it runs with the settings of  *)
(* the spec, on the whole of a fleet of any size, whatever its pods did in *)
(* the meantime.                                                           *)
THEOREM EngineReturnsVerified == CheckSpec => []ReturnedIsVerified
<1>1. CheckInit => EngineInv
  BY DEF CheckInit, EngineInv
<1>2. EngineInv => ReturnedIsVerified
  BY DEF EngineInv, ReturnedIsVerified
<1>3. QED
  BY <1>1, <1>2, NextEngineInv, PTL DEF CheckSpec

----------------------------------------------------------------------------
(* Publication *)

AnySummary == {"none", "running"} \cup {f.ends : f \in Facts}
AnyFleet   == {"empty"} \cup {f.machine : f \in Facts}
AnyName    == {<<d, f.engine, f.corpus, v>> : d \in Nat, f \in Facts, v \in VariantNames}
AnyDoc     == [table : RunIds, variant : VariantNames, corpus : {f.corpus : f \in Facts},
               shortened : BOOLEAN, fleet : AnyFleet, priced : BOOLEAN, cost : BOOLEAN,
               summary : AnySummary, strings : SUBSET {Redact(s) : s \in UNION {f.says : f \in Facts}}]
AnyFile    == [name : AnyName, whole : BOOLEAN, doc : AnyDoc]
AnyRow     == [name : AnyName, label : {"valid", "undersized", "not drained", "producer_bound", "void"},
               fleet : AnyFleet, cost : BOOLEAN]

OfARun == {"fetch", "collect", "check", "write", "close"}
Command == [pc : {"idle", "load", "render"} \cup OfARun,
            how : {"none", "table", "publish"} \cup Insisting,
            run : RunIds \cup {"none"}, variant : VariantNames \cup {"none"},
            file : SUBSET AnyFile, rows : SUBSET AnyRow]

PublishTypeOK ==
  /\ fact \in [RunIds -> Facts] /\ scores \in [RunIds -> AnySummary]
  /\ fetched \in [RunIds -> AnySummary] /\ enginePods \in [RunIds -> BOOLEAN]
  /\ runJson \in [RunIds -> {"absent"} \cup AnyFleet]
  /\ results \subseteq AnyFile /\ md \subseteq AnyRow
  /\ day \in Nat \ {0} /\ scripts \in Nat
  /\ finish \in [Finishers -> Command]
  /\ past \in [asked : SUBSET (RunIds \X Insisting), overlapped : BOOLEAN, rendered : BOOLEAN]

\* What the run directory holds is the run's.
RunDirTold ==
  \A r \in RunIds :
    /\ scores[r] \in {"none", "running", fact[r].ends}
    /\ fetched[r] # "none" => scores[r] # "none"
    /\ RunValid(fetched[r]) => RunValid(scores[r])
    /\ enginePods[r] => fact[r].captured
    /\ runJson[r] \in {"absent", "empty", fact[r].machine}
    /\ runJson[r] = fact[r].machine => Fleet(r) = fact[r].machine

\* So is what a document says, which was insisted on if it is not fit.
DocTold(doc) ==
  LET r == doc.table IN
    /\ doc.corpus = fact[r].corpus /\ doc.shortened = fact[r].shortened /\ doc.priced = fact[r].priced
    /\ doc.fleet # "empty" => doc.fleet = fact[r].machine /\ Fleet(r) = fact[r].machine
    /\ doc.cost => ~fact[r].local /\ doc.fleet # "empty"
    /\ doc.summary # "none" => scores[r] # "none"
    /\ RunValid(doc.summary) \/ Insisted(r, Insisting)
    /\ Disclosed(doc.fleet) \/ Insisted(r, {"collect"})

FilesTold == /\ \A g \in results : DocTold(g.doc)
             /\ \A f \in Finishers : \A g \in finish[f].file : DocTold(g.doc)

\* What a command has checked holds until it writes.
MayWrite(r) ==
  \/ Insisted(r, {"collect"})
  \/ Disclosed(Fleet(r)) /\ (RunValid(fetched[r]) \/ Insisted(r, Insisting))

CommandKnows(f) ==
  LET c == finish[f] IN
    /\ c.pc \in OfARun => c.run \in RunIds /\ c.variant \in VariantNames
    /\ c.pc \in OfARun /\ c.how \in Insisting => Insisted(c.run, {c.how})
    /\ c.pc = "check" => runJson[c.run] # "absent"
    /\ c.pc = "write" => MayWrite(c.run)

Quiet == \A f \in Finishers : CommandAt(f, "idle")

OneAtATime ==
  ~past.overlapped =>
    /\ \A f, g \in Finishers : ~CommandAt(f, "idle") /\ ~CommandAt(g, "idle") => f = g
    /\ \A f \in Finishers : CommandAt(f, "render") => finish[f].rows = Rows(results)
    /\ past.rendered => Quiet /\ md = Rows(results)

PublishInv == /\ PublishTypeOK /\ RunDirTold /\ FilesTold
              /\ \A f \in Finishers : CommandKnows(f)
              /\ OneAtATime

LEMMA InitPublishInv == PublishInit => PublishInv
<1> SUFFICES ASSUME PublishInit PROVE PublishInv
  OBVIOUS
<1>1. NoCommand \in Command
  BY DEF NoCommand, Command
<1>2. PublishTypeOK
  BY <1>1 DEF PublishInit, PublishTypeOK, AnySummary
<1>3. RunDirTold
  BY PublishAssumption DEF PublishInit, RunDirTold, RunValid
<1>4. \A f \in Finishers : finish[f] = NoCommand
  BY DEF PublishInit
<1>5. FilesTold /\ (\A f \in Finishers : CommandKnows(f)) /\ OneAtATime
  BY <1>4 DEF PublishInit, NoCommand, FilesTold, CommandKnows, OneAtATime, CommandAt, Quiet, OfARun
<1> QED
  BY <1>2, <1>3, <1>5 DEF PublishInv

\* What no step takes back.
Onward ==
  /\ fact' = fact /\ past.asked \subseteq past'.asked
  /\ \A r \in RunIds :
       /\ scores[r] # "none" => scores'[r] # "none"
       /\ RunValid(fetched[r]) => RunValid(fetched'[r])
       /\ Fleet(r) # "empty" => Fleet(r)' = Fleet(r)
       /\ runJson[r] # "absent" => runJson'[r] # "absent"

LEMMA StaysTold ==
  ASSUME Onward
  PROVE  /\ \A g \in AnyFile : DocTold(g.doc) => DocTold(g.doc)'
         /\ \A r \in RunIds : MayWrite(r) => MayWrite(r)'
         /\ \A r, hows : Insisted(r, hows) => Insisted(r, hows)'
<1>1. \A r, hows : Insisted(r, hows) => Insisted(r, hows)'
  BY DEF Onward, Insisted
<1>2. ASSUME NEW g \in AnyFile, DocTold(g.doc) PROVE DocTold(g.doc)'
  <2>1. g.doc.table \in RunIds
    BY DEF AnyFile, AnyDoc
  <2> QED
    BY <1>1, <1>2, <2>1 DEF DocTold, Onward
<1>3. ASSUME NEW r \in RunIds, MayWrite(r) PROVE MayWrite(r)'
  BY <1>1, <1>3 DEF MayWrite, Onward, Disclosed
<1> QED
  BY <1>1, <1>2, <1>3

LEMMA OthersKnow ==
  ASSUME Onward, NEW f, finish'[f] = finish[f], CommandKnows(f)
  PROVE  CommandKnows(f)'
<1>1. finish[f].pc \in OfARun => finish[f].run \in RunIds
  BY DEF CommandKnows
<1> QED
  BY <1>1, StaysTold DEF CommandKnows, Onward, OfARun

\* A command that ends, or goes to render, knows nothing that must hold.
LEMMA IdleKnows ==
  ASSUME NEW f, finish'[f].pc \notin OfARun
  PROVE  CommandKnows(f)'
BY DEF CommandKnows, OfARun

LEMMA FilesStayTold ==
  ASSUME PublishTypeOK, FilesTold, Onward, results' = results,
         \A f \in Finishers : finish'[f].file \subseteq finish[f].file
  PROVE  FilesTold'
<1>1. results \subseteq AnyFile /\ \A f \in Finishers : finish[f].file \subseteq AnyFile
  BY DEF PublishTypeOK, Command
<1> QED
  BY <1>1, StaysTold DEF FilesTold

LEMMA DocumentIsDoc ==
  ASSUME PublishTypeOK, NEW r \in RunIds, NEW v \in VariantNames
  PROVE  Document(r, v) \in AnyDoc /\ Name(r, v) \in AnyName
<1>1. fact[r] \in Facts
  BY DEF PublishTypeOK
<1>2. fact[r].shortened \in BOOLEAN /\ fact[r].priced \in BOOLEAN
  BY <1>1, PublishAssumption
<1>3. Fleet(r) \in AnyFleet
  BY <1>1 DEF Fleet, AnyFleet
<1>4. {Redact(s) : s \in fact[r].says} \in SUBSET {Redact(s) : s \in UNION {f.says : f \in Facts}}
  BY <1>1
<1>5. fetched[r] \in AnySummary
  BY DEF PublishTypeOK
<1>6. Document(r, v) \in AnyDoc
  BY <1>1, <1>2, <1>3, <1>4, <1>5 DEF Document, AnyDoc
<1>7. Name(r, v) \in AnyName
  BY <1>1 DEF Name, AnyName, PublishTypeOK
<1> QED
  BY <1>6, <1>7

LEMMA DocumentIsTold ==
  ASSUME PublishTypeOK, RunDirTold, NEW r \in RunIds, NEW v, MayWrite(r)
  PROVE  DocTold(Document(r, v))
<1> DEFINE d == Document(r, v)
<1>1. /\ d.table = r /\ d.corpus = fact[r].corpus /\ d.shortened = fact[r].shortened
      /\ d.priced = fact[r].priced /\ d.fleet = Fleet(r) /\ d.summary = fetched[r]
      /\ d.cost => ~fact[r].local /\ Fleet(r) # "empty"
  BY DEF Document
<1>2. Fleet(r) # "empty" => Fleet(r) = fact[r].machine
  BY DEF Fleet
<1>3. fetched[r] # "none" => scores[r] # "none"
  BY DEF RunDirTold
<1>4. /\ RunValid(d.summary) \/ Insisted(r, Insisting)
      /\ Disclosed(d.fleet) \/ Insisted(r, {"collect"})
  BY <1>1 DEF MayWrite, Insisted, Insisting
<1> HIDE DEF d
<1>5. DocTold(d)
  BY <1>1, <1>2, <1>3, <1>4 DEF DocTold
<1> QED
  BY <1>5 DEF d

LEMMA RowsAreRows ==
  ASSUME results \subseteq AnyFile
  PROVE  Rows(results) \subseteq AnyRow
<1> SUFFICES ASSUME NEW g \in results
             PROVE  [name |-> g.name, label |-> Label(g.doc.summary), fleet |-> g.doc.fleet,
                     cost |-> g.doc.cost /\ g.doc.priced] \in AnyRow
  BY DEF Rows
<1>1. g.name \in AnyName /\ g.doc.fleet \in AnyFleet /\ g.doc.cost \in BOOLEAN /\ g.doc.priced \in BOOLEAN
  BY DEF AnyFile, AnyDoc
<1>2. Label(g.doc.summary) \in {"valid", "undersized", "not drained", "producer_bound", "void"}
  BY DEF Label
<1> QED
  BY <1>1, <1>2 DEF AnyRow

LEMMA CommandMoves ==
  ASSUME PublishTypeOK, NEW f \in Finishers, NEW c \in Command, finish' = [finish EXCEPT ![f] = c]
  PROVE  /\ finish' \in [Finishers -> Command]
         /\ finish'[f] = c /\ \A g \in Finishers \ {f} : finish'[g] = finish[g]
BY DEF PublishTypeOK

LEMMA CommandGoes ==
  ASSUME PublishTypeOK, NEW f \in Finishers, NEW to \in {"collect", "check", "write"}, GoOn(f, to)
  PROVE  /\ finish' \in [Finishers -> Command]
         /\ finish'[f] = [finish[f] EXCEPT !.pc = to]
         /\ finish'[f].pc = to /\ finish'[f].file = finish[f].file
         /\ finish'[f].run = finish[f].run /\ finish'[f].how = finish[f].how
         /\ finish'[f].variant = finish[f].variant
         /\ \A g \in Finishers \ {f} : finish'[g] = finish[g]
<1>1. finish[f] \in Command
  BY DEF PublishTypeOK
<1>2. [finish[f] EXCEPT !.pc = to] \in Command
  BY <1>1 DEF Command, OfARun
<1>3. finish' = [finish EXCEPT ![f] = [finish[f] EXCEPT !.pc = to]]
  BY DEF GoOn
<1>4. /\ finish' \in [Finishers -> Command]
      /\ finish'[f] = [finish[f] EXCEPT !.pc = to]
      /\ \A g \in Finishers \ {f} : finish'[g] = finish[g]
  BY <1>2, <1>3, CommandMoves
<1> QED
  BY <1>1, <1>4 DEF Command

LEMMA CommandEnds ==
  ASSUME PublishTypeOK, NEW f \in Finishers, End(f)
  PROVE  /\ finish' \in [Finishers -> Command] /\ finish'[f] = NoCommand
         /\ \A g \in Finishers \ {f} : finish'[g] = finish[g]
<1>1. NoCommand \in Command
  BY DEF NoCommand, Command
<1> QED
  BY <1>1, CommandMoves DEF End

\* While commands do not overlap, the one that is under way is the only one.
LEMMA OwnTurn ==
  ASSUME OneAtATime, NEW f \in Finishers, ~CommandAt(f, "idle"), past' = past,
         \A g \in Finishers \ {f} : finish'[g] = finish[g],
         CommandAt(f, "render")' => finish'[f].rows = Rows(results)'
  PROVE  OneAtATime'
<1> SUFFICES ASSUME ~past.overlapped PROVE OneAtATime'
  BY DEF OneAtATime
<1>1. \A g \in Finishers \ {f} : CommandAt(g, "idle") /\ finish'[g].pc = "idle"
  BY DEF OneAtATime, CommandAt
<1>2. ~past.rendered
  BY DEF OneAtATime, Quiet
<1> QED
  BY <1>1, <1>2 DEF OneAtATime, CommandAt

LEMMA SameRunDir ==
  ASSUME UNCHANGED <<fact, scores, runDir>>
  PROVE  /\ RunDirTold => RunDirTold'
         /\ past.asked \subseteq past'.asked => Onward
BY DEF runDir, RunDirTold, Onward, Fleet

LEMMA UploadKeeps ==
  ASSUME PublishInv, NEW r \in RunIds, Upload(r)
  PROVE  PublishInv'
<1> USE DEF PublishInv
<1>1. UNCHANGED <<fact, fetched, enginePods, runJson, results, md, day, finish, scripts, past>>
  BY DEF Upload, runDir, published
<1>2. scores[r] \in {"none", "running"} /\ scores' = [scores EXCEPT ![r] = scores'[r]]
      /\ scores'[r] \in {"running", fact[r].ends}
  <2>1. scores \in [RunIds -> AnySummary]
    BY DEF PublishTypeOK
  <2> QED
    BY <2>1 DEF Upload
<1>3. fact[r] \in Facts /\ scores'[r] \in AnySummary
  BY <1>2 DEF PublishTypeOK, AnySummary
<1>4. scores'[r] # "none" /\ ~RunValid(scores[r])
  BY <1>2, <1>3, PublishAssumption DEF RunValid
<1>5. \A q \in RunIds : q # r => scores'[q] = scores[q]
  BY <1>2 DEF PublishTypeOK
<1>6. PublishTypeOK'
  BY <1>1, <1>2, <1>3 DEF PublishTypeOK
<1>7. RunDirTold'
  BY <1>1, <1>2, <1>4, <1>5 DEF RunDirTold, Fleet
<1>8. Onward
  BY <1>1, <1>4, <1>5 DEF Onward, Fleet
<1>9. FilesTold' /\ \A f \in Finishers : CommandKnows(f)'
  BY <1>1, <1>8, FilesStayTold, OthersKnow
<1>10. OneAtATime'
  BY <1>1 DEF OneAtATime, CommandAt, Quiet, Rows
<1> QED
  BY <1>6, <1>7, <1>9, <1>10

LEMMA MidnightKeeps ==
  ASSUME PublishInv, Midnight
  PROVE  PublishInv'
<1> USE DEF PublishInv
<1>1. UNCHANGED <<fact, scores, runDir, results, md, finish, scripts, past>>
  BY DEF Midnight, published
<1>2. PublishTypeOK'
  BY <1>1 DEF PublishTypeOK, Midnight, runDir
<1>3. Onward /\ RunDirTold'
  BY <1>1, SameRunDir
<1>4. FilesTold' /\ \A f \in Finishers : CommandKnows(f)'
  BY <1>1, <1>3, FilesStayTold, OthersKnow
<1>5. OneAtATime'
  BY <1>1 DEF OneAtATime, CommandAt, Quiet, Rows
<1> QED
  BY <1>2, <1>3, <1>4, <1>5

LEMMA StartKeeps ==
  ASSUME PublishInv, NEW f \in Finishers,
         NEW how \in {"publish", "table"} \cup Insisting, NEW to \in {"fetch", "write", "load"},
         NEW r \in RunIds \cup {"none"}, NEW v \in VariantNames \cup {"none"},
         to # "load" => r \in RunIds /\ v \in VariantNames,
         to = "load" => how = "table", to = "write" => how = "collect",
         StartCommand(f, how, to, r, v)
  PROVE  PublishInv'
<1> USE DEF PublishInv
<1> DEFINE c == [NoCommand EXCEPT !.pc = to, !.how = how, !.run = r, !.variant = v]
<1>1. c \in Command /\ c.pc = to /\ c.how = how /\ c.run = r /\ c.variant = v /\ c.file = {}
  BY DEF NoCommand, Command, OfARun, Insisting
<1> HIDE DEF c
<1>2. finish' = [finish EXCEPT ![f] = c] /\ UNCHANGED <<fact, scores, runDir, published, day>>
      /\ CommandAt(f, "idle") /\ scripts' = scripts + 1
  BY DEF StartCommand, c
<1>3. /\ finish' \in [Finishers -> Command]
      /\ finish'[f] = c /\ \A g \in Finishers \ {f} : finish'[g] = finish[g]
  BY <1>1, <1>2, CommandMoves
<1>4. /\ past'.asked = past.asked \cup {r} \X ({how} \cap Insisting) /\ past'.rendered = FALSE
      /\ past'.overlapped = (past.overlapped \/ \E g \in Finishers : ~CommandAt(g, "idle"))
      /\ past' \in [asked : SUBSET (RunIds \X Insisting), overlapped : BOOLEAN, rendered : BOOLEAN]
  <2>1. how \in Insisting => r \in RunIds
    BY DEF Insisting
  <2>2. past.asked \in SUBSET (RunIds \X Insisting) /\ past.overlapped \in BOOLEAN
    BY DEF PublishTypeOK
  <2>3. past.asked \cup {r} \X ({how} \cap Insisting) \in SUBSET (RunIds \X Insisting)
    BY <2>1, <2>2
  <2>4. (past.overlapped \/ \E g \in Finishers : ~CommandAt(g, "idle")) \in BOOLEAN
    OBVIOUS
  <2>5. past' = [asked |-> past.asked \cup {r} \X ({how} \cap Insisting), rendered |-> FALSE,
                 overlapped |-> past.overlapped \/ \E g \in Finishers : ~CommandAt(g, "idle")]
    BY DEF StartCommand
  <2> QED
    BY <2>3, <2>4, <2>5
<1>5. PublishTypeOK'
  BY <1>2, <1>3, <1>4 DEF PublishTypeOK, runDir, published
<1>6. Onward /\ RunDirTold'
  BY <1>2, <1>4, SameRunDir
<1>7. FilesTold'
  BY <1>1, <1>2, <1>3, <1>6, FilesStayTold DEF published
<1>8. how \in Insisting => Insisted(r, {how})'
  BY <1>4 DEF Insisted
<1>9. CommandKnows(f)'
  <2>1. to = "write" => MayWrite(r)'
    BY <1>8 DEF MayWrite, Insisting
  <2> QED
    BY <1>1, <1>3, <1>8, <2>1 DEF CommandKnows, OfARun
<1>10. \A g \in Finishers \ {f} : CommandKnows(g)'
  BY <1>3, <1>6, OthersKnow
<1>11. OneAtATime'
  <2> SUFFICES ASSUME ~past'.overlapped PROVE OneAtATime'
    BY DEF OneAtATime
  <2>1. \A g \in Finishers : CommandAt(g, "idle")
    BY <1>4
  <2>2. \A g \in Finishers \ {f} : finish'[g].pc = "idle"
    BY <1>3, <2>1 DEF CommandAt
  <2>3. finish'[f].pc # "render"
    BY <1>1, <1>3
  <2> QED
    BY <1>4, <2>2, <2>3 DEF OneAtATime, CommandAt
<1> QED
  BY <1>5, <1>6, <1>7, <1>9, <1>10, <1>11

LEMMA FetchKeeps ==
  ASSUME PublishInv, NEW f \in Finishers, Fetch(f)
  PROVE  PublishInv'
<1> USE DEF PublishInv
<1> DEFINE r == finish[f].run
<1>1. /\ CommandAt(f, "fetch") /\ GoOn(f, "collect")
      /\ fetched' = [fetched EXCEPT ![r] = scores[r]]
      /\ UNCHANGED <<fact, scores, runJson, results, md, day, scripts, past>>
  BY DEF Fetch, published
<1>2. PICK here \in {enginePods[r], enginePods[r] \/ fact[r].captured} :
        enginePods' = [enginePods EXCEPT ![r] = here]
  BY DEF Fetch
<1>3. r \in RunIds
  BY <1>1 DEF CommandKnows, CommandAt, OfARun
<1>4. fact[r] \in Facts /\ fact[r].captured \in BOOLEAN /\ enginePods[r] \in BOOLEAN
  BY <1>3, PublishAssumption DEF PublishTypeOK
<1>5. here \in BOOLEAN /\ (enginePods[r] => here) /\ (here => enginePods[r] \/ fact[r].captured)
  BY <1>2, <1>4
<1>6. /\ finish' \in [Finishers -> Command]
      /\ finish'[f].pc = "collect" /\ finish'[f].file = finish[f].file
      /\ finish'[f].run = r /\ finish'[f].how = finish[f].how
      /\ finish'[f].variant = finish[f].variant
      /\ \A g \in Finishers \ {f} : finish'[g] = finish[g]
  BY <1>1, CommandGoes
<1> HIDE DEF r
<1>7. /\ fetched' \in [RunIds -> AnySummary] /\ enginePods' \in [RunIds -> BOOLEAN]
      /\ fetched'[r] = scores[r] /\ enginePods'[r] = here
      /\ \A q \in RunIds \ {r} : fetched'[q] = fetched[q] /\ enginePods'[q] = enginePods[q]
  BY <1>1, <1>2, <1>3, <1>5 DEF PublishTypeOK
<1>8. PublishTypeOK'
  BY <1>1, <1>6, <1>7 DEF PublishTypeOK
<1>9. \A q \in RunIds : Fleet(q) # "empty" => Fleet(q)' = Fleet(q)
  BY <1>1, <1>5, <1>7 DEF Fleet
<1>10. RunDirTold'
  <2> SUFFICES ASSUME NEW q \in RunIds
               PROVE  /\ scores'[q] \in {"none", "running", fact'[q].ends}
                      /\ fetched'[q] # "none" => scores'[q] # "none"
                      /\ RunValid(fetched'[q]) => RunValid(scores'[q])
                      /\ enginePods'[q] => fact'[q].captured
                      /\ runJson'[q] \in {"absent", "empty", fact'[q].machine}
                      /\ runJson'[q] = fact'[q].machine => Fleet(q)' = fact'[q].machine
    BY DEF RunDirTold
  <2>1. fact[q] \in Facts /\ fact[q].machine # "empty"
    BY PublishAssumption DEF PublishTypeOK
  <2>2. runJson[q] = fact[q].machine => Fleet(q) = fact[q].machine
    BY DEF RunDirTold
  <2>3. runJson'[q] = fact'[q].machine => Fleet(q)' = fact'[q].machine
    BY <1>1, <1>9, <2>1, <2>2
  <2> QED
    BY <1>1, <1>5, <1>7, <2>3 DEF RunDirTold
<1>11. Onward
  <2>1. \A q \in RunIds : RunValid(fetched[q]) => RunValid(fetched'[q])
    BY <1>7 DEF RunDirTold
  <2> QED
    BY <1>1, <1>9, <2>1 DEF Onward
<1>12. FilesTold'
  BY <1>1, <1>6, <1>11, FilesStayTold
<1>13. CommandKnows(f)'
  BY <1>1, <1>6, <1>11, StaysTold DEF CommandKnows, CommandAt, OfARun, r
<1>14. \A g \in Finishers \ {f} : CommandKnows(g)'
  BY <1>6, <1>11, OthersKnow
<1>15. OneAtATime'
  BY <1>1, <1>6, OwnTurn DEF CommandAt
<1> QED
  BY <1>8, <1>10, <1>12, <1>13, <1>14, <1>15

LEMMA CollectKeeps ==
  ASSUME PublishInv, NEW f \in Finishers, Collect(f)
  PROVE  PublishInv'
<1> USE DEF PublishInv
<1> DEFINE r == finish[f].run
<1>1. /\ CommandAt(f, "collect") /\ GoOn(f, "check")
      /\ runJson' = [runJson EXCEPT ![r] = Fleet(r)]
      /\ UNCHANGED <<fact, scores, fetched, enginePods, results, md, day, scripts, past>>
  BY DEF Collect, published
<1>2. r \in RunIds
  BY <1>1 DEF CommandKnows, CommandAt, OfARun
<1>3. /\ finish' \in [Finishers -> Command]
      /\ finish'[f].pc = "check" /\ finish'[f].file = finish[f].file
      /\ finish'[f].run = r /\ finish'[f].how = finish[f].how
      /\ finish'[f].variant = finish[f].variant
      /\ \A g \in Finishers \ {f} : finish'[g] = finish[g]
  BY <1>1, CommandGoes
<1> HIDE DEF r
<1>4. fact[r] \in Facts /\ fact[r].machine \notin {"absent", "empty"}
  BY <1>2, PublishAssumption DEF PublishTypeOK
<1>5. Fleet(r) \in {"empty", fact[r].machine} /\ Fleet(r) \in AnyFleet
  BY <1>4 DEF Fleet, AnyFleet
<1>6. /\ runJson' \in [RunIds -> {"absent"} \cup AnyFleet] /\ runJson'[r] = Fleet(r)
      /\ \A q \in RunIds \ {r} : runJson'[q] = runJson[q]
  BY <1>1, <1>2, <1>5 DEF PublishTypeOK
<1>7. PublishTypeOK'
  BY <1>1, <1>3, <1>6 DEF PublishTypeOK
<1>8. \A q \in RunIds : Fleet(q)' = Fleet(q)
  BY <1>1 DEF Fleet
<1>9. RunDirTold'
  BY <1>1, <1>4, <1>5, <1>6, <1>8 DEF RunDirTold
<1>10. Onward
  BY <1>1, <1>4, <1>5, <1>6, <1>8 DEF Onward
<1>11. FilesTold'
  BY <1>1, <1>3, <1>10, FilesStayTold
<1>12. CommandKnows(f)'
  <2>1. runJson'[r] # "absent"
    BY <1>4, <1>5, <1>6
  <2> QED
    BY <1>1, <1>3, <1>10, <2>1, StaysTold DEF CommandKnows, CommandAt, OfARun, r
<1>13. \A g \in Finishers \ {f} : CommandKnows(g)'
  BY <1>3, <1>10, OthersKnow
<1>14. OneAtATime'
  BY <1>1, <1>3, OwnTurn DEF CommandAt
<1> QED
  BY <1>7, <1>9, <1>11, <1>12, <1>13, <1>14

\* A command that ends leaves the directories alone, or has done its last step.
LEMMA EndKeeps ==
  ASSUME PublishInv, NEW f \in Finishers, ~CommandAt(f, "idle"), End(f),
         UNCHANGED <<fact, scores, runDir, published, day, scripts, past>>
  PROVE  PublishInv'
<1> USE DEF PublishInv
<1>1. /\ finish' \in [Finishers -> Command] /\ finish'[f] = NoCommand
      /\ \A g \in Finishers \ {f} : finish'[g] = finish[g]
  BY CommandEnds
<1>2. PublishTypeOK'
  BY <1>1 DEF PublishTypeOK, runDir, published
<1>3. Onward /\ RunDirTold'
  BY SameRunDir
<1>4. FilesTold'
  BY <1>1, <1>3, FilesStayTold DEF published, NoCommand
<1>5. CommandKnows(f)'
  BY <1>1, IdleKnows DEF NoCommand, OfARun
<1>6. \A g \in Finishers \ {f} : CommandKnows(g)'
  BY <1>1, <1>3, OthersKnow
<1>7. OneAtATime'
  BY <1>1, OwnTurn DEF CommandAt, NoCommand
<1> QED
  BY <1>2, <1>3, <1>4, <1>5, <1>6, <1>7

LEMMA CheckKeeps ==
  ASSUME PublishInv, NEW f \in Finishers, Check(f)
  PROVE  PublishInv'
<1> USE DEF PublishInv
<1>1. CASE MayPublish(f)
  <2> DEFINE r == finish[f].run
  <2>1. /\ CommandAt(f, "check") /\ GoOn(f, "write")
        /\ UNCHANGED <<fact, scores, runDir, published, day, scripts, past>>
    BY <1>1 DEF Check
  <2>2. /\ finish' \in [Finishers -> Command]
        /\ finish'[f].pc = "write" /\ finish'[f].file = finish[f].file
        /\ finish'[f].run = r /\ finish'[f].how = finish[f].how
        /\ finish'[f].variant = finish[f].variant
        /\ \A g \in Finishers \ {f} : finish'[g] = finish[g]
    BY <2>1, CommandGoes
  <2>3. r \in RunIds /\ runJson[r] # "absent"
    BY <2>1 DEF CommandKnows, CommandAt, OfARun
  <2>4. MayWrite(r)
    <3>1. Disclosed(runJson[r]) /\ (RunValid(fetched[r]) \/ finish[f].how = "publish-invalid")
      BY <1>1 DEF MayPublish
    <3>2. runJson[r] = fact[r].machine /\ Fleet(r) = fact[r].machine
      BY <2>3, <3>1 DEF RunDirTold, Disclosed
    <3>3. finish[f].how = "publish-invalid" => Insisted(r, Insisting)
      BY <2>1 DEF CommandKnows, CommandAt, OfARun, Insisted, Insisting
    <3> QED
      BY <3>1, <3>2, <3>3 DEF MayWrite
  <2> HIDE DEF r
  <2>5. PublishTypeOK'
    BY <2>1, <2>2 DEF PublishTypeOK, runDir, published
  <2>6. Onward /\ RunDirTold'
    BY <2>1, SameRunDir
  <2>7. FilesTold'
    BY <2>1, <2>2, <2>6, FilesStayTold DEF published
  <2>8. CommandKnows(f)'
    BY <2>1, <2>2, <2>3, <2>4, <2>6, StaysTold DEF CommandKnows, CommandAt, OfARun, r
  <2>9. \A g \in Finishers \ {f} : CommandKnows(g)'
    BY <2>2, <2>6, OthersKnow
  <2>10. OneAtATime'
    BY <2>1, <2>2, OwnTurn DEF CommandAt
  <2> QED
    BY <2>5, <2>6, <2>7, <2>8, <2>9, <2>10
<1>2. CASE ~MayPublish(f)
  BY <1>2, EndKeeps DEF Check, CommandAt
<1> QED
  BY <1>1, <1>2

\* A file that is put somewhere is told of, if it was before.
LEMMA PutKeeps ==
  ASSUME PublishTypeOK, FilesTold, Onward, NEW file \in AnyFile, DocTold(file.doc),
         results' = Put(file), NEW f \in Finishers,
         \A g \in Finishers \ {f} : finish'[g] = finish[g],
         finish'[f].file \subseteq {file}
  PROVE  results' \subseteq AnyFile /\ FilesTold'
<1>1. results \subseteq AnyFile /\ \A g \in Finishers : finish[g].file \subseteq AnyFile
  BY DEF PublishTypeOK, Command
<1>2. results' \subseteq results \cup {file}
  BY DEF Put
<1>3. DocTold(file.doc)'
  BY StaysTold
<1>4. \A g \in results' : DocTold(g.doc)'
  BY <1>1, <1>2, <1>3, StaysTold DEF FilesTold
<1>5. \A g \in Finishers : \A h \in finish'[g].file : DocTold(h.doc)'
  BY <1>1, <1>3, StaysTold DEF FilesTold
<1> QED
  BY <1>1, <1>2, <1>4, <1>5 DEF FilesTold

LEMMA WriteKeeps ==
  ASSUME PublishInv, NEW f \in Finishers, Write(f)
  PROVE  PublishInv'
<1> USE DEF PublishInv
<1> DEFINE r == finish[f].run
           v == finish[f].variant
           file == [name |-> Name(r, v), whole |-> FALSE, doc |-> Document(r, v)]
           c == [finish[f] EXCEPT !.pc = "close", !.file = {file}]
<1>1. /\ CommandAt(f, "write") /\ results' = Put(file)
      /\ finish' = [finish EXCEPT ![f] = c]
      /\ UNCHANGED <<fact, scores, runDir, md, day, scripts, past>>
  BY DEF Write
<1>2. r \in RunIds /\ v \in VariantNames /\ MayWrite(r)
      /\ (finish[f].how \in Insisting => Insisted(r, {finish[f].how}))
  BY <1>1 DEF CommandKnows, CommandAt, OfARun
<1>3. Document(r, v) \in AnyDoc /\ Name(r, v) \in AnyName /\ DocTold(Document(r, v))
  BY <1>2, DocumentIsDoc, DocumentIsTold
<1>4. file \in AnyFile /\ file.doc = Document(r, v)
  BY <1>3 DEF AnyFile
<1>5. DocTold(file.doc)
  BY <1>3, <1>4
<1> HIDE DEF file
<1>6. /\ c \in Command /\ c.pc = "close" /\ c.file = {file} /\ c.run = r /\ c.variant = v
      /\ c.how = finish[f].how
  <2>1. finish[f] \in Command
    BY DEF PublishTypeOK
  <2> QED
    BY <1>4, <2>1 DEF Command, OfARun
<1> HIDE DEF c, r, v
<1>7. /\ finish' \in [Finishers -> Command]
      /\ finish'[f] = c /\ \A g \in Finishers \ {f} : finish'[g] = finish[g]
  BY <1>1, <1>6, CommandMoves
<1>8. Onward /\ RunDirTold'
  BY <1>1, SameRunDir
<1>9. results' \subseteq AnyFile /\ FilesTold'
  <2>1. finish'[f].file \subseteq {file}
    BY <1>6, <1>7
  <2> QED
    BY <1>1, <1>4, <1>5, <1>7, <1>8, <2>1, PutKeeps
<1>10. PublishTypeOK'
  BY <1>1, <1>7, <1>9 DEF PublishTypeOK, runDir
<1>11. CommandKnows(f)'
  BY <1>2, <1>6, <1>7, <1>8, StaysTold DEF CommandKnows, OfARun
<1>12. \A g \in Finishers \ {f} : CommandKnows(g)'
  BY <1>7, <1>8, OthersKnow
<1>13. OneAtATime'
  BY <1>1, <1>6, <1>7, OwnTurn DEF CommandAt
<1> QED
  BY <1>8, <1>9, <1>10, <1>11, <1>12, <1>13

LEMMA CloseKeeps ==
  ASSUME PublishInv, NEW f \in Finishers, Close(f)
  PROVE  PublishInv'
<1> USE DEF PublishInv
<1>1. PICK file \in finish[f].file :
        /\ CommandAt(f, "close")
        /\ results' = Put([file EXCEPT !.whole = TRUE])
        /\ IF finish[f].how = "collect" THEN End(f)
           ELSE finish' = [finish EXCEPT ![f].pc = "load", ![f].file = {}]
        /\ UNCHANGED <<fact, scores, runDir, md, day, scripts, past>>
  BY DEF Close
<1>2. finish[f] \in Command /\ file \in AnyFile /\ DocTold(file.doc)
  BY DEF PublishTypeOK, Command, FilesTold
<1> DEFINE whole == [file EXCEPT !.whole = TRUE]
<1>3. whole \in AnyFile /\ whole.doc = file.doc
  BY <1>2 DEF AnyFile
<1>4. DocTold(whole.doc)
  BY <1>2, <1>3
<1>5. results' = Put(whole)
  BY <1>1
<1> HIDE DEF whole
<1>6. /\ finish' \in [Finishers -> Command]
      /\ finish'[f].file = {} /\ finish'[f].pc \in {"idle", "load"}
      /\ \A g \in Finishers \ {f} : finish'[g] = finish[g]
  <2>1. CASE finish[f].how = "collect"
    BY <1>1, <2>1, CommandEnds DEF NoCommand
  <2>2. CASE finish[f].how # "collect"
    <3> DEFINE c == [finish[f] EXCEPT !.pc = "load", !.file = {}]
    <3>1. c \in Command /\ c.file = {} /\ c.pc = "load"
      BY <1>2 DEF Command
    <3>2. finish' = [finish EXCEPT ![f] = c]
      BY <1>1, <2>2
    <3> HIDE DEF c
    <3> QED
      BY <3>1, <3>2, CommandMoves
  <2> QED
    BY <2>1, <2>2
<1>7. Onward /\ RunDirTold'
  BY <1>1, SameRunDir
<1>8. results' \subseteq AnyFile /\ FilesTold'
  BY <1>3, <1>4, <1>5, <1>6, <1>7, PutKeeps
<1>9. PublishTypeOK'
  BY <1>1, <1>6, <1>8 DEF PublishTypeOK, runDir
<1>10. CommandKnows(f)'
  BY <1>6, IdleKnows DEF OfARun
<1>11. \A g \in Finishers \ {f} : CommandKnows(g)'
  BY <1>6, <1>7, OthersKnow
<1>12. OneAtATime'
  BY <1>1, <1>6, OwnTurn DEF CommandAt
<1> QED
  BY <1>7, <1>8, <1>9, <1>10, <1>11, <1>12

LEMMA LoadKeeps ==
  ASSUME PublishInv, NEW f \in Finishers, Load(f)
  PROVE  PublishInv'
<1> USE DEF PublishInv
<1>1. CASE \A g \in results : Renderable(g)
  <2> DEFINE c == [finish[f] EXCEPT !.pc = "render", !.rows = Rows(results)]
  <2>1. CommandAt(f, "load") /\ UNCHANGED <<fact, scores, runDir, published, day, scripts, past>>
        /\ finish' = [finish EXCEPT ![f] = c]
    BY <1>1 DEF Load
  <2>2. c \in Command /\ c.pc = "render" /\ c.file = finish[f].file /\ c.rows = Rows(results)
    <3>1. finish[f] \in Command /\ Rows(results) \subseteq AnyRow
      BY RowsAreRows DEF PublishTypeOK
    <3> QED
      BY <3>1 DEF Command
  <2> HIDE DEF c
  <2>3. /\ finish' \in [Finishers -> Command]
        /\ finish'[f] = c /\ \A g \in Finishers \ {f} : finish'[g] = finish[g]
    BY <2>1, <2>2, CommandMoves
  <2>4. PublishTypeOK'
    BY <2>1, <2>3 DEF PublishTypeOK, runDir, published
  <2>5. Onward /\ RunDirTold'
    BY <2>1, SameRunDir
  <2>6. FilesTold'
    BY <2>1, <2>2, <2>3, <2>5, FilesStayTold DEF published
  <2>7. CommandKnows(f)'
    BY <2>2, <2>3, IdleKnows DEF OfARun
  <2>8. \A g \in Finishers \ {f} : CommandKnows(g)'
    BY <2>3, <2>5, OthersKnow
  <2>9. OneAtATime'
    <3>1. Rows(results)' = Rows(results)
      BY <2>1 DEF published, Rows
    <3> QED
      BY <2>1, <2>2, <2>3, <3>1, OwnTurn DEF CommandAt
  <2> QED
    BY <2>4, <2>5, <2>6, <2>7, <2>8, <2>9
<1>2. CASE ~(\A g \in results : Renderable(g))
  BY <1>2, EndKeeps DEF Load, CommandAt
<1> QED
  BY <1>1, <1>2

LEMMA RenderKeeps ==
  ASSUME PublishInv, NEW f \in Finishers, Render(f)
  PROVE  PublishInv'
<1> USE DEF PublishInv
<1>1. /\ CommandAt(f, "render") /\ md' = finish[f].rows /\ End(f)
      /\ past' = [past EXCEPT !.rendered = TRUE]
      /\ UNCHANGED <<fact, scores, runDir, results, day, scripts>>
  BY DEF Render
<1>2. /\ finish' \in [Finishers -> Command] /\ finish'[f] = NoCommand
      /\ \A g \in Finishers \ {f} : finish'[g] = finish[g]
  BY <1>1, CommandEnds
<1>3. /\ past' \in [asked : SUBSET (RunIds \X Insisting), overlapped : BOOLEAN, rendered : BOOLEAN]
      /\ past'.asked = past.asked /\ past'.overlapped = past.overlapped
  BY <1>1 DEF PublishTypeOK
<1>4. PublishTypeOK'
  BY <1>1, <1>2, <1>3 DEF PublishTypeOK, runDir, Command
<1>5. Onward /\ RunDirTold'
  BY <1>1, <1>3, SameRunDir
<1>6. FilesTold'
  BY <1>1, <1>2, <1>5, FilesStayTold DEF NoCommand
<1>7. CommandKnows(f)'
  BY <1>2, IdleKnows DEF NoCommand, OfARun
<1>8. \A g \in Finishers \ {f} : CommandKnows(g)'
  BY <1>2, <1>5, OthersKnow
<1>9. OneAtATime'
  <2> SUFFICES ASSUME ~past.overlapped PROVE OneAtATime'
    BY <1>3 DEF OneAtATime
  <2>1. \A g \in Finishers \ {f} : finish'[g].pc = "idle"
    BY <1>1, <1>2 DEF OneAtATime, CommandAt
  <2>2. \A g \in Finishers : finish'[g].pc = "idle"
    BY <1>2, <2>1 DEF NoCommand
  <2>3. finish[f].rows = Rows(results) /\ Rows(results)' = Rows(results)
    BY <1>1 DEF OneAtATime, Rows
  <2> QED
    BY <1>1, <2>2, <2>3 DEF OneAtATime, Quiet, CommandAt
<1> QED
  BY <1>4, <1>5, <1>6, <1>7, <1>8, <1>9

LEMMA FinishKeeps ==
  ASSUME PublishInv, NEW f \in Finishers, FinishStep(f)
  PROVE  PublishInv'
<1>1. CASE FinishSh(f)
  <2>1. PICK r \in RunIds, v \in VariantNames, how \in {"publish", "publish-invalid"} :
          StartCommand(f, how, "fetch", r, v)
    BY <1>1 DEF FinishSh
  <2> QED
    BY <2>1, StartKeeps DEF Insisting
<1>2. CASE Rerender(f)
  BY <1>2, StartKeeps DEF Rerender
<1>3. CASE CollectByHand(f)
  <2>1. PICK r \in RunIds, v \in VariantNames : StartCommand(f, "collect", "write", r, v)
    BY <1>3 DEF CollectByHand
  <2> QED
    BY <2>1, StartKeeps DEF Insisting
<1>4. CASE Stops(f)
  BY <1>4, EndKeeps DEF Stops
<1> QED
  BY <1>1, <1>2, <1>3, <1>4, FetchKeeps, CollectKeeps, CheckKeeps, WriteKeeps, CloseKeeps,
     LoadKeeps, RenderKeeps DEF FinishStep

LEMMA NextPublishInv ==
  ASSUME PublishInv, [PublishNext]_publishVars
  PROVE  PublishInv'
<1>1. CASE UNCHANGED publishVars
  <2>1. UNCHANGED <<fact, scores, fetched, enginePods, runJson, results, md, day, finish, scripts, past>>
    BY <1>1 DEF publishVars, runDir, published
  <2>2. Onward /\ RunDirTold' /\ PublishTypeOK'
    BY <2>1 DEF PublishInv, Onward, RunDirTold, PublishTypeOK, Fleet
  <2>3. FilesTold' /\ \A f \in Finishers : CommandKnows(f)'
    BY <2>1, <2>2, FilesStayTold, OthersKnow DEF PublishInv
  <2>4. OneAtATime'
    BY <2>1 DEF PublishInv, OneAtATime, CommandAt, Quiet, Rows
  <2> QED
    BY <2>2, <2>3, <2>4 DEF PublishInv
<1> QED
  BY <1>1, UploadKeeps, MidnightKeeps, FinishKeeps DEF PublishNext

LEMMA SoundWhenValidated ==
  ASSUME PublishInv
  PROVE  ValidatedIsSound
<1> SUFFICES ASSUME Validates(results, md)
             PROVE  /\ \A f \in results : f.whole /\ Sound(f)
                    /\ \A f, g \in results : f # g => f.doc.table # g.doc.table
                    /\ {row.name : row \in md} = {f.name : f \in results}
  BY DEF ValidatedIsSound
<1>1. \A f \in results : f.whole /\ Publishable(f.doc)
  BY DEF Validates
<1>2. ASSUME NEW f \in results PROVE Sound(f)
  <2> DEFINE r == f.doc.table
  <2>1. DocTold(f.doc) /\ Publishable(f.doc) /\ r \in RunIds
    BY <1>1 DEF PublishInv, FilesTold, PublishTypeOK, AnyFile, AnyDoc
  <2>2. /\ fact[r].corpus \notin {"local", "overridden"} /\ ~fact[r].shortened /\ fact[r].priced
        /\ ~fact[r].local /\ scores[r] # "none"
    BY <2>1 DEF DocTold, Publishable
  <2>3. fact[r].machine \notin NoMachine /\ Fleet(r) = fact[r].machine /\ fact[r].machine # "empty"
    BY <2>1 DEF DocTold, Publishable, Disclosed
  <2>4. fact[r].managed => fact[r].captured
    BY <2>1, <2>2, <2>3 DEF Fleet, PublishInv, RunDirTold
  <2>5. \A s \in f.doc.strings : ~\E i \in DOMAIN s : s[i] \in {"s3:", "account"}
    BY <2>1 DEF Publishable, NoLeak
  <2> QED
    BY <2>2, <2>3, <2>4, <2>5 DEF Sound
<1>3. \A f, g \in results : f # g => f.doc.table # g.doc.table
  BY DEF Validates, Fresh
<1>4. md = Rows(results)
  BY <1>1 DEF Validates, Renderable, Publishable
<1>5. {row.name : row \in md} = {f.name : f \in results}
  <2> DEFINE RowOf(f) == [name |-> f.name, label |-> Label(f.doc.summary), fleet |-> f.doc.fleet,
                          cost |-> f.doc.cost /\ f.doc.priced]
  <2>1. md = {RowOf(f) : f \in results}
    BY <1>4 DEF Rows
  <2>2. \A f : RowOf(f).name = f.name
    OBVIOUS
  <2> HIDE DEF RowOf
  <2> QED
    BY <2>1, <2>2
<1> QED
  BY <1>1, <1>2, <1>3, <1>5

(* What CI accepts is sound, and what finish.sh writes is fit and current, *)
(* for any runs, commands, days and roots, whatever stops anywhere.        *)
THEOREM PublishAccepts == PublishSpec => []AcceptedIsSound
<1>1. PublishInv => OnlyAskedIsInvalid /\ MachinesAreNamed /\ CurrentWhenDone
  BY DEF PublishInv, FilesTold, DocTold, OnlyAskedIsInvalid, MachinesAreNamed,
         OneAtATime, CurrentWhenDone
<1>2. PublishInv => AcceptedIsSound
  BY <1>1, SoundWhenValidated DEF AcceptedIsSound
<1> QED
  BY <1>2, InitPublishInv, NextPublishInv, PTL DEF PublishSpec
=============================================================================
