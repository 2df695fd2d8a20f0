---------------------------- MODULE EngineCheck ----------------------------
(***************************************************************************)
(* The second half of scripts/stage.sh: wait for a managed engine to be    *)
(* reported running, compare what it reports with the run spec             *)
(* (verify-flink, verify-spark) until a comparison succeeds, then capture  *)
(* the fleet's requests (engine-fleet).                                    *)
(*                                                                         *)
(* The fleet changes under the script's feet: pods come, run and retire,   *)
(* and the list of pods is read before the endpoint is asked.  Settings    *)
(* stands for all that is compared once with the spec and stays as it was  *)
(* submitted: checkpointing and vertices, or the driver's properties.      *)
(***************************************************************************)
EXTENDS Naturals, FiniteSets

CONSTANTS Engines,   \* of the engines that are waited for: "flink", "spark"
          Heads,     \* pods that can be the driver or JobManager
          Workers,   \* pods that can be executors or TaskManagers
          Guaranteed, \* the pods whose QoS class is Guaranteed once they run
          Wanted,    \* the workers the spec asks for
          PollS, RunningWaitS, Tries  \* ENGINE_POLL_S, ENGINE_RUNNING_WAIT_S, VERIFY_TRIES

Pods == Heads \union Workers

VARIABLES software, \* the engine of the spec
          asked,    \* the engine took the settings the spec asks for
          phase,    \* pod |-> its phase; a retired one is still listed
          app,      \* what the endpoint lists under the run's name
          step, tries,    \* scripts/stage.sh: where it is, and verify_tries
          waited,   \* waited, and then placement_waited
          listed,   \* the pod list of this round: pod |-> phase
          captured  \* the running pods in engine-pods.json
engine == <<software, asked, phase, app>>
checkVars == <<engine, step, waited, tries, listed, captured>>

Unlisted == [p \in Pods |-> "absent"]

CheckInit ==
        /\ software \in Engines
        /\ asked \in BOOLEAN
        /\ phase \in [Pods -> {"absent", "Pending", "Running"}]
        /\ app \in {"none", "RUNNING", "other"}
        /\ step = "wait" /\ waited = 0 /\ tries = 0
        /\ listed = Unlisted /\ captured = {}

----------------------------------------------------------------------------
(* The engine *)

\* What it did during the first wait is in CheckInit; after the script it matters no more.
EngineStep ==
    /\ step \in {"list", "verify", "capture"}
    /\ \/ \E p \in Pods, to \in {"Pending", "Running", "retired", "absent"} :
             /\ <<phase[p], to>> \in {<<"absent", "Pending">>, <<"Pending", "Running">>,
                                      <<"Running", "retired">>, <<"retired", "absent">>}
             /\ phase' = [phase EXCEPT ![p] = to]
             /\ UNCHANGED app
       \/ /\ app' \in {"none", "RUNNING", "other"} \ {app}
          /\ UNCHANGED phase
    /\ UNCHANGED <<software, asked, step, waited, tries, listed, captured>>

----------------------------------------------------------------------------
(* The two comparisons, over the pods l that were listed *)

\* active_pods leaves out the retired ones.
Active(l, S) == {p \in S : l[p] \in {"Pending", "Running"}}
Running(l, S) == {p \in S : l[p] = "Running"}

\* The exit codes of ingest_bench.readings.
OK == 0
UNVERIFIED == 2
DRIFT == 3
PENDING == 4

\* verify-flink: a TaskManager that has not registered is drift.
FlinkVerdict == IF app = "RUNNING" /\ asked /\ Cardinality(Running(phase, Workers)) = Wanted
                THEN OK ELSE DRIFT

\* _pod_drift's lines: one driver, no executor too many, QoS once a pod runs.
PodDrift(l) == \/ Cardinality(Active(l, Heads)) # 1
               \/ Cardinality(Active(l, Workers)) > Wanted
               \/ \E p \in Running(l, Pods) : p \notin Guaranteed

PodsPending(l) == \/ Cardinality(Active(l, Workers)) < Wanted
                  \/ Active(l, Pods) # Running(l, Pods)

\* verify-spark: a fleet being placed is raised past the lines on the application
\* and its settings, which are then reported by a later round.
SparkVerdict(l) == IF PodsPending(l) /\ ~PodDrift(l) THEN PENDING
                   ELSE IF app = "none" \/ ~asked \/ PodDrift(l) THEN DRIFT ELSE OK

\* An endpoint that cannot be read is neither.
Verdicts(l) == {UNVERIFIED, IF software = "flink" THEN FlinkVerdict ELSE SparkVerdict(l)}

\* engine-fleet: every listed active pod runs and the declared counts are there.
FleetComplete == /\ Active(phase, Pods) = Running(phase, Pods)
                 /\ Cardinality(Running(phase, Heads)) = 1
                 /\ Cardinality(Running(phase, Workers)) = Wanted

----------------------------------------------------------------------------
(* scripts/stage.sh *)

Die == step' = "died"

\* One round of the wait: the operator's state, error and lifecycle are read apart
\* from each other and may be anything, the empty answer of a failed read included.
AwaitEngine ==
    /\ step = "wait"
    /\ \/ step' = "list" /\ waited' = 0
       \/ Die /\ UNCHANGED waited
       \/ waited >= RunningWaitS /\ Die /\ UNCHANGED waited
       \/ waited < RunningWaitS /\ waited' = waited + PollS /\ UNCHANGED step
    /\ UNCHANGED <<engine, tries, listed, captured>>

\* k8s_write_pods; the tunnel or the API may fail.
ListPods == /\ step = "list"
            /\ \/ step' = "verify" /\ listed' = phase
               \/ Die /\ UNCHANGED listed
            /\ UNCHANGED <<engine, waited, tries, captured>>

Verified == /\ step' = "capture"
            /\ UNCHANGED <<tries, waited>>

\* A fleet being placed has its own wait.
StillPlacing == /\ waited' = waited + PollS
                /\ IF waited' > RunningWaitS THEN Die
                   ELSE step' = "list"
                /\ UNCHANGED tries

\* Unreadable answers are counted together, whatever came in between.
Unread == /\ tries' = tries + 1
          /\ IF tries' >= Tries THEN Die
             ELSE step' = "list"
          /\ UNCHANGED waited

\* mutant: every status but drift and a failed read is a success
AcceptPending == /\ step = "verify"
                 /\ \E v \in Verdicts(listed) :
                       \/ v \in {OK, PENDING} /\ Verified
                       \/ v = DRIFT /\ Die /\ UNCHANGED <<tries, waited>>
                       \/ v = UNVERIFIED /\ Unread
                 /\ listed' = Unlisted /\ UNCHANGED <<engine, captured>>

Verify == /\ step = "verify"
          /\ \E v \in Verdicts(listed) :
                \/ v = OK /\ Verified
                \/ v = DRIFT /\ Die /\ UNCHANGED <<tries, waited>>
                \/ v = PENDING /\ StillPlacing
                \/ v = UNVERIFIED /\ Unread
          /\ listed' = Unlisted /\ UNCHANGED <<engine, captured>>

\* The pods are listed once more, and must still be the whole fleet.
Capture == /\ step = "capture"
           /\ IF FleetComplete
              THEN step' = "returned" /\ captured' = Running(phase, Pods)
              ELSE Die /\ UNCHANGED captured
           /\ UNCHANGED <<engine, waited, tries, listed>>

CheckStep == AwaitEngine \/ ListPods \/ Verify \/ Capture

CheckNext == EngineStep \/ CheckStep

CheckSpec == CheckInit /\ [][CheckNext]_checkVars

----------------------------------------------------------------------------
(* Properties *)

\* stage.sh prints a run id for an engine only if the engine really runs with the
\* settings of the spec, on a fleet of the declared size that engine-pods.json
\* describes (the comparisons, the loop's branches and engine-fleet together).
ReturnedIsVerified ==
    step = "returned" => /\ asked
                       /\ Cardinality(captured \intersect Heads) = 1
                       /\ Cardinality(captured \intersect Workers) = Wanted

=============================================================================
