------------------------------ MODULE Publish ------------------------------
(***************************************************************************)
(* From the artifacts of a run to the results directory: finish.sh fetches *)
(* the scorer's artifacts, collects them into the run's document, checks   *)
(* it and writes it redacted under results/, then renders RESULTS.md from  *)
(* every document there (collect/, scripts/finish.sh).  `collect` and      *)
(* `results-table` may also be run by hand, several of these at a time,    *)
(* and each may stop at any step.  CI accepts or refuses the directory     *)
(* (collect/validate.py).                                                  *)
(*                                                                         *)
(* A path is the sequence of its components; "s3:" is a cloud scheme and   *)
(* "account" a 12-digit number.  A scorer's summary is "none" before the   *)
(* first upload, "running" while it scores and then how the run ended;     *)
(* "inexact" is a drained run that failed exactness or freshness.          *)
(***************************************************************************)
EXTENDS Naturals, SequencesExt

CONSTANTS RunIds, Finishers, VariantNames,
          Roots,       \* the site's roots, [name, path], in the order they are read
          Facts,       \* what a run may be: the spec's and the site's part, how it
                       \* ends, and what its document would say, as paths
          MaxDay,      \* bound: the days that pass
          MaxScripts   \* bound: the commands that are started

\* A run ends some day, and no machine type reads like a missing fleet.
ASSUME PublishAssumption ==
    /\ MaxDay \in Nat /\ MaxScripts \in Nat
    /\ \A f \in Facts : /\ f.ends \notin {"none", "running"} /\ f.machine \notin {"absent", "empty"}
                        /\ {f.managed, f.captured, f.local, f.shortened, f.priced} \subseteq BOOLEAN

VARIABLES fact,      \* run |-> what it was: its spec, its site and how it ends
          scores,    \* run |-> the summary under the runs prefix
          fetched,   \* run |-> the summary in the run directory
          enginePods,      \* run |-> the captured pods are in the run directory
          runJson,   \* run |-> the fleet in the run directory's run.json
          results,   \* the files of the results directory, [name, whole, doc]
          md,        \* the rows of RESULTS.md
          day,
          finish,    \* finisher |-> [pc, how, run, variant, file, rows]
          scripts,   \* the commands started so far
          past       \* history: which runs were insisted on, and how; whether commands
                     \* overlapped; whether the last one rendered RESULTS.md

runDir == <<fetched, enginePods, runJson>>
published == <<results, md>>
publishVars == <<fact, scores, runDir, published, day, finish, scripts, past>>

----------------------------------------------------------------------------
(* Redaction *)

\* The root a path is under: the longest, the first of equal ones.
RootOf(path) ==
    LET under == {i \in DOMAIN Roots : IsPrefix(Roots[i].path, path)}
        longest == {i \in under : \A j \in under : Len(Roots[j].path) <= Len(Roots[i].path)}
    IN  {i \in longest : \A j \in longest : i <= j}

Redact(path) ==
    IF RootOf(path) = {} THEN path
    ELSE LET root == Roots[CHOOSE i \in RootOf(path) : TRUE]
         IN  <<root.name>> \o SubSeq(path, Len(root.path) + 1, Len(path))

----------------------------------------------------------------------------
(* The document *)

RunValid(summary) == summary = "valid"
StateOf(summary) == IF summary \in {"valid", "inexact"} THEN "drained" ELSE summary

\* The pods tell a managed fleet on a cluster, the spec any other.
Fleet(r) == IF fact[r].managed /\ ~fact[r].local /\ ~enginePods[r] THEN "empty" ELSE fact[r].machine

Document(r, variant) ==
    LET f == fact[r] IN
    [table |-> r, variant |-> variant, corpus |-> f.corpus, shortened |-> f.shortened,
     fleet |-> Fleet(r), priced |-> f.priced,
     cost |-> ~f.local /\ Fleet(r) # "empty",
     summary |-> fetched[r], strings |-> {Redact(s) : s \in f.says}]

Name(r, variant) == <<day, fact[r].engine, fact[r].corpus, variant>>

NoMachine == {"unspecified", "YOUR_MACHINE_TYPE"}
Disclosed(fleet) == fleet # "empty" /\ fleet \notin NoMachine

Label(summary) == CASE RunValid(summary) -> "valid"
                    [] StateOf(summary) \in {"producer_bound", "void"} -> StateOf(summary)
                    [] StateOf(summary) = "idle_stop" -> "undersized"
                    [] OTHER -> "not drained"

Renderable(file) == file.whole /\ file.doc.summary # "none"
Rows(files) == {[name |-> f.name, label |-> Label(f.doc.summary), fleet |-> f.doc.fleet,
                 cost |-> f.doc.cost /\ f.doc.priced] : f \in files}

----------------------------------------------------------------------------
(* validate-results *)

NoLeak(strings) == \A s \in strings : \A i \in DOMAIN s : s[i] \notin {"s3:", "account"}

\* The hash comes with the summary and is the shipped preset's own.
Publishable(doc) == /\ NoLeak(doc.strings)
                    /\ ~doc.shortened
                    /\ doc.corpus \notin {"local", "overridden"}
                    /\ doc.summary # "none"
                    /\ doc.cost /\ Disclosed(doc.fleet) /\ doc.priced

Fresh(files) == \A f, g \in files : f.doc.table = g.doc.table => f = g

\* mutant: RESULTS.md is not compared with a render
ValidatesStale(files, rows) == (\A f \in files : f.whole /\ Publishable(f.doc)) /\ Fresh(files)

Validates(files, rows) ==
    /\ \A f \in files : f.whole /\ Publishable(f.doc)
    /\ Fresh(files)
    /\ (\A f \in files : Renderable(f)) => rows = Rows(files)

----------------------------------------------------------------------------
(* Initial states and the scorer *)

NoCommand == [pc |-> "idle", how |-> "none", run |-> "none", variant |-> "none",
              file |-> {}, rows |-> {}]

PublishInit == /\ fact \in [RunIds -> Facts]
        /\ scores = [r \in RunIds |-> "none"] /\ fetched = [r \in RunIds |-> "none"]
        /\ enginePods = [r \in RunIds |-> FALSE] /\ runJson = [r \in RunIds |-> "absent"]
        /\ results = {} /\ md = {} /\ day = 1 /\ scripts = 0
        /\ past = [asked |-> {}, overlapped |-> FALSE, rendered |-> FALSE]
        /\ finish = [f \in Finishers |-> NoCommand]

\* The scorer uploads its live summary and, at the end, the final one.
Upload(r) == /\ \/ scores[r] = "none" /\ scores' = [scores EXCEPT ![r] = "running"]
                \/ scores[r] = "running" /\ scores' = [scores EXCEPT ![r] = fact[r].ends]
             /\ UNCHANGED <<fact, runDir, published, day, finish, scripts, past>>

Midnight == /\ day < MaxDay /\ day' = day + 1
            /\ UNCHANGED <<fact, scores, runDir, published, finish, scripts, past>>

----------------------------------------------------------------------------
(* finish.sh <run> --publish results/ *)

CommandAt(f, pc) == finish[f].pc = pc
GoOn(f, pc) == finish' = [finish EXCEPT ![f].pc = pc]
End(f) == finish' = [finish EXCEPT ![f] = NoCommand]

\* How a run is written whatever the verdict is.
Insisting == {"publish-invalid", "collect"}

StartCommand(f, how, pc, r, variant) ==
    /\ CommandAt(f, "idle") /\ scripts < MaxScripts /\ scripts' = scripts + 1
    /\ finish' = [finish EXCEPT ![f] = [NoCommand EXCEPT !.pc = pc, !.how = how, !.run = r, !.variant = variant]]
    /\ past' = [asked |-> past.asked \cup {r} \X ({how} \cap Insisting), rendered |-> FALSE,
                overlapped |-> past.overlapped \/ \E g \in Finishers : ~CommandAt(g, "idle")]
    /\ UNCHANGED <<fact, scores, runDir, published, day>>

FinishSh(f) == \E r \in RunIds, v \in VariantNames, how \in {"publish", "publish-invalid"} :
                 StartCommand(f, how, "fetch", r, v)

\* The pods are fetched once and may be missing; the scores must be readable.
Fetch(f) == LET r == finish[f].run IN
            /\ CommandAt(f, "fetch") /\ GoOn(f, "collect")
            /\ fetched' = [fetched EXCEPT ![r] = scores[r]]
            /\ \E here \in {enginePods[r], enginePods[r] \/ fact[r].captured} : enginePods' = [enginePods EXCEPT ![r] = here]
            /\ UNCHANGED <<fact, scores, runJson, published, day, scripts, past>>

Collect(f) == LET r == finish[f].run IN
              /\ CommandAt(f, "collect") /\ GoOn(f, "check")
              /\ runJson' = [runJson EXCEPT ![r] = Fleet(r)]
              /\ UNCHANGED <<fact, scores, fetched, enginePods, published, day, scripts, past>>

\* There must be a verdict, a valid one unless told otherwise, and machine types.
MayPublish(f) == LET r == finish[f].run IN
                 /\ fetched[r] # "none"
                 /\ RunValid(fetched[r]) \/ finish[f].how = "publish-invalid"
                 /\ Disclosed(runJson[r])

Check(f) == /\ CommandAt(f, "check")
            /\ IF MayPublish(f) THEN GoOn(f, "write") ELSE End(f)
            /\ UNCHANGED <<fact, scores, runDir, published, day, scripts, past>>

\* A file with the new content in place of any of that name.
Put(file) == {g \in results : g.name # file.name} \cup {file}

\* collect builds the document and truncates the file it then writes.
Write(f) == LET r == finish[f].run  v == finish[f].variant
                file == [name |-> Name(r, v), whole |-> FALSE, doc |-> Document(r, v)] IN
            /\ CommandAt(f, "write")
            /\ results' = Put(file)
            /\ finish' = [finish EXCEPT ![f].pc = "close", ![f].file = {file}]
            /\ UNCHANGED <<fact, scores, runDir, md, day, scripts, past>>

Close(f) == \E file \in finish[f].file :
            /\ CommandAt(f, "close")
            /\ results' = Put([file EXCEPT !.whole = TRUE])
            /\ IF finish[f].how = "collect" THEN End(f)
               ELSE finish' = [finish EXCEPT ![f].pc = "load", ![f].file = {}]
            /\ UNCHANGED <<fact, scores, runDir, md, day, scripts, past>>

----------------------------------------------------------------------------
(* results-table, of finish.sh or by hand *)

\* Every document is read and parsed; one that cannot be rendered stops it.
Load(f) == /\ CommandAt(f, "load")
           /\ IF \A g \in results : Renderable(g)
              THEN finish' = [finish EXCEPT ![f].pc = "render", ![f].rows = Rows(results)]
              ELSE End(f)
           /\ UNCHANGED <<fact, scores, runDir, published, day, scripts, past>>

Render(f) == /\ CommandAt(f, "render") /\ md' = finish[f].rows /\ End(f)
             /\ past' = [past EXCEPT !.rendered = TRUE]
             /\ UNCHANGED <<fact, scores, runDir, results, day, scripts>>

Rerender(f) == StartCommand(f, "table", "load", "none", "none")

----------------------------------------------------------------------------
(* By hand, and a command that stops *)

CollectByHand(f) == \E r \in RunIds, v \in VariantNames : StartCommand(f, "collect", "write", r, v)

\* A failed command or an interrupt ends a finish, at any step.
Stops(f) == /\ ~CommandAt(f, "idle") /\ End(f)
           /\ UNCHANGED <<fact, scores, runDir, published, day, scripts, past>>

FinishStep(f) == \/ FinishSh(f) \/ Fetch(f) \/ Collect(f) \/ Check(f) \/ Write(f) \/ Close(f)
                 \/ Load(f) \/ Render(f) \/ Rerender(f) \/ CollectByHand(f) \/ Stops(f)

PublishNext == Midnight \/ (\E r \in RunIds : Upload(r)) \/ (\E f \in Finishers : FinishStep(f))

PublishSpec == PublishInit /\ [][PublishNext]_publishVars

----------------------------------------------------------------------------
(* What holds *)

\* What a published result stands for: the whole offer of a shipped corpus, a
\* cluster fleet of named machines at a price, scored, and nothing private said.
Sound(f) == LET r == f.doc.table IN
            /\ fact[r].corpus \notin {"local", "overridden"} /\ ~fact[r].shortened
            /\ fact[r].priced /\ ~fact[r].local
            /\ fact[r].machine \notin NoMachine /\ (fact[r].managed => fact[r].captured)
            /\ scores[r] # "none"
            /\ \A s \in f.doc.strings : ~\E i \in DOMAIN s : s[i] \in {"s3:", "account"}

\* A directory that CI accepts holds, whatever commands wrote to it at the same
\* time and wherever they stopped, sound results of different runs, and
\* RESULTS.md has one row for each of them (collect/validate.py).
ValidatedIsSound ==
    Validates(results, md) =>
        /\ \A f \in results : f.whole /\ Sound(f)
        /\ \A f, g \in results : f # g => f.doc.table # g.doc.table
        /\ {row.name : row \in md} = {f.name : f \in results}

Insisted(r, hows) == \E how \in hows : <<r, how>> \in past.asked

\* An invalid or unfinished run is there only after --publish-invalid was given
\* for it (finish.sh, "4. The published result") or it was collected by hand.
OnlyAskedIsInvalid ==
    \A f \in results : RunValid(f.doc.summary) \/ Insisted(f.doc.table, Insisting)

\* No result without machine types is ever written, not even for a moment, but
\* by hand (finish.sh: "Match collect.validate's missing-machine rules before
\* writing a result").
MachinesAreNamed == \A f \in results : Disclosed(f.doc.fleet) \/ Insisted(f.doc.table, {"collect"})

\* If commands ran one at a time and the last one rendered, RESULTS.md has the
\* rows of the documents that are there (docs/running.md, "Publishing a result").
CurrentWhenDone ==
    ~past.overlapped /\ past.rendered /\ (\A f \in Finishers : CommandAt(f, "idle")) => md = Rows(results)

\* What CI accepts is sound, and what finish.sh writes there is fit and current
\* (collect/validate.py, finish.sh).
AcceptedIsSound == ValidatedIsSound /\ OnlyAskedIsInvalid /\ MachinesAreNamed /\ CurrentWhenDone

=============================================================================
