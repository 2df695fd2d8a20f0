----------------------------- MODULE MCPrepare -----------------------------
(* Instances of what comes before a run and after it: a Flink job          *)
(* (FlinkJob), the generation of a corpus (Corpus), staging (Staging), the *)
(* check of an engine (EngineCheck) and publication (Publish).  They share *)
(* no state: a behaviour is one of one part, and what the others would     *)
(* change stays at one initial value.                                      *)
(*                                                                         *)
(* Corpora: gen-corpus.sh is started twice, with one and two shards of     *)
(* three batches.  Merges and Mixes: also merge-corpus by hand, of shards  *)
(* of two and three and of shards of two seeds.  Stages: three attempts of *)
(* one run id by hand; drivers: two attempts of two run ids and machines.  *)
(* Check: a fleet of one worker and a spare one that is not Guaranteed, of *)
(* either engine.  Alone: one command at a time, of all kinds, over        *)
(* midnight, on any run; Together: two finishes at a time on two runs.     *)
EXTENDS FlinkJob, Staging, EngineCheck, Corpus, Publish, TLC

CONSTANTS
  x, y,        \* two seeds, two finishing commands
  facts, spec, \* files of a run directory
  a, b         \* runs

VARIABLE part

-----------------------------------------------------------------------------
MCFileOrder == <<facts, spec>>

(* What runs may be.  Good is fit for publication.                         *)
Lake == <<"s3:", "lake">>
MCRoots == << [name |-> "<corpus_root>", path |-> Lake \o <<"corpus">>],
              [name |-> "<runs_root>", path |-> Lake \o <<"runs">>],
              [name |-> "<warehouse>", path |-> Lake],
              [name |-> "<registry>", path |-> <<"account", "harness">>] >>

Good == [engine |-> "flink", managed |-> TRUE, corpus |-> "shipped", shortened |-> FALSE,
         priced |-> TRUE, machine |-> "m6g", captured |-> TRUE, local |-> FALSE, ends |-> "valid",
         says |-> {Lake \o <<"runs", "r1">>, Lake \o <<"corpus-archive">>, <<"account", "harness", "img">>}]

(* Deviations of the spec and the site, and of what the document would say.*)
Embedded == Good.says \cup {<<"s3:", "other", "t">>, <<"warehouse=", "s3:", "lake", "t">>}
Account  == Good.says \cup {<<"account", "other">>}
Flawed   == {[Good EXCEPT !.corpus = "overridden"], [Good EXCEPT !.shortened = TRUE],
             [Good EXCEPT !.priced = FALSE], [Good EXCEPT !.local = TRUE],
             [Good EXCEPT !.captured = FALSE], [Good EXCEPT !.managed = FALSE, !.captured = FALSE],
             [Good EXCEPT !.machine = "YOUR_MACHINE_TYPE"],
             [Good EXCEPT !.says = Embedded], [Good EXCEPT !.says = Account]}
AllFacts == {Good, [Good EXCEPT !.ends = "inexact"]} \cup Flawed
FewFacts == {Good, [Good EXCEPT !.machine = "unspecified"], [Good EXCEPT !.ends = "idle_stop"]}

MCFacts  == AllFacts \cup FewFacts

-----------------------------------------------------------------------------
(* The Flink job, attempts, engine and runs of another part's behaviours,  *)
(* which no step changes.                                                  *)
AnyJob     == place = "compose" /\ extra = <<>> /\ knobs = [taskmanagers |-> 1, slots |-> 1, source |-> 1, max |-> 4]
AnyStaging == harnessTable
AnyEngine  == software = "flink" /\ asked /\ phase = Unlisted /\ app = "none"
RunsOf(p) == CASE p = "alone" -> AllFacts [] p = "together" -> FewFacts [] OTHER -> {Good}

InitPrepare ==
  /\ part \in {"job", "stages", "drivers", "check", "corpora", "merges", "mixes", "alone", "together"}
  /\ Init        /\ (part # "job" => AnyJob)
  /\ StagingInit /\ (part \notin {"stages", "drivers"} => AnyStaging)
  /\ CheckInit   /\ (part # "check" => AnyEngine)
  /\ CorpusInit
  /\ \E f \in RunsOf(part) : fact = (a :> f @@ b :> Good)
  /\ PublishInit

Here(p) == part = p /\ part' = p

(* CorpusNext with some seeds and shard counts.  Where merges are by hand, *)
(* none is written to Whole before, which therefore is no shard of one.    *)
Generated(vs, cs) == ProcessStep \/ \E v \in vs, c \in cs : Generate(v, c)
MergedByHand(cs) == \E n \in cs : \E dirs \in [1 .. n -> Dirs \ {Whole}] : MergeByHand(dirs)

NextPrepare ==
  \/ Here("job") /\ Next /\ UNCHANGED <<corpusVars, stagingVars, checkVars, publishVars>>
  \/ /\ \/ Here("corpora") /\ Generated({x, y}, {1, 2})
        \/ Here("merges") /\ (Generated({x}, {2, 3}) \/ MergedByHand({2, 3}))
        \/ Here("mixes") /\ (Generated({x, y}, {2}) \/ MergedByHand({2}))
     /\ UNCHANGED <<vars, stagingVars, checkVars, publishVars>>
  \/ /\ Here("stages") \/ Here("drivers")
     /\ StagingNext /\ UNCHANGED <<vars, corpusVars, checkVars, publishVars>>
  \/ Here("check") /\ CheckNext /\ UNCHANGED <<vars, corpusVars, stagingVars, publishVars>>
  \/ /\ \/ /\ Here("alone") /\ PublishNext
           /\ ~past'.overlapped /\ scores'[b] = "none" /\ \A f \in Finishers : finish'[f].run # b
        \/ /\ Here("together") /\ PublishNext
           /\ day' = 1 /\ scripts' <= 2 /\ \A f \in Finishers : finish'[f].how \notin {"collect", "table"}
     /\ UNCHANGED <<vars, corpusVars, stagingVars, checkVars>>

prepareVars == <<part, vars, corpusVars, stagingVars, checkVars, publishVars>>

Prepare == InitPrepare /\ [][NextPrepare]_prepareVars

(* With merges by hand one process works at a time: the pods of a Job,     *)
(* which write to different directories, one after another, and the merge  *)
(* when they are gone.  Every interruption is still there.  Without such   *)
(* merges, one that fails after the last launch is one that takes no step  *)
(* any more.  By hand only the first run is staged, with machines only two *)
(* attempts are made.  At most one of two runs to be published deviates.   *)
Explored ==
  /\ part = "corpora" /\ generation.gen = MaxGens =>
       /\ generation.pc # "died" /\ \A p \in pods : p.state # "failed"
       /\ \A k \in DOMAIN merges : merges[k].pc # "failed"
  /\ part \in {"merges", "mixes"} =>
       /\ merges = <<>> => generation.alone
       /\ \A k \in DOMAIN merges : merges[k].byHand /\ merges[k].clean
       /\ \A p, q \in pods : p.state = "running" /\ p.index < q.index => q.at = 1 /\ q.state = "running"
  /\ part = "stages" => /\ \A n \in Attempts : att[n].run = 1
                        /\ \A d \in Drivers : DriverAt(d, "start")
  /\ part = "drivers" => At(3, "idle")

Interchangeable == Permutations({x, y})
=============================================================================
