--------------------------- MODULE ScriptsProofs ---------------------------
(***************************************************************************)
(* Proofs about the three modules of the operator's scripts, which share   *)
(* no state: RunDriver, for any deadline, interval and limit; Launch, for  *)
(* any lead, slack and waits and any number of launches; and Purge, for    *)
(* any operators and any number of scripts.                                *)
(***************************************************************************)
EXTENDS RunDriver, Launch, Purge, TLAPS

(* The invariant holds initially.                                          *)
LEMMA RunInitIInv == Init => IInv
<1> SUFFICES ASSUME Init PROVE IInv
  OBVIOUS
<1> USE RunAssumption DEF Init
<1>1. TypeOK
  <2>1. Absent \in [Artifacts -> Version]
    BY DEF Absent, Version
  <2>2. pc \in Places /\ caller \in {"gate", "run"} /\ live \subseteq Resources
    BY DEF Places
  <2>3. clock \in 0..RunMax /\ breaches \in 0..Breaches
    OBVIOUS
  <2>4. outcome \in Version /\ toSync \subseteq Artifacts
    BY DEF Version
  <2>5. QED
    BY <2>1, <2>2, <2>3, <2>4 DEF TypeOK
<1>2. Launching /\ Deleted /\ Counted
  BY DEF Launching, Deleted, Counted, Finish, Teardown
<1>3. Uploaded /\ Fetched
  BY DEF Uploaded, Fetched, Finish, Final, Artifacts, Absent
<1>4. NothingLeftUnreported /\ TornDownForCause /\ PublishedIsWhole
  BY DEF NothingLeftUnreported, TornDownForCause, Teardown, PublishedIsWhole
<1>5. QED
  BY <1>1, <1>2, <1>3, <1>4 DEF IInv

(* An upload replaces one artifact by the outcome, the summary last.       *)
LEMMA UploadsKeep ==
  ASSUME TypeOK, Uploaded, PodUploads
  PROVE  /\ remote' \in [Artifacts -> Version] /\ pod' \in {"ending", "gone"} /\ Uploaded'
         /\ \A a \in Artifacts : remote[a] # "none" => remote'[a] # "none"
         /\ remote["summary"] \in Final => remote'["summary"] \in Final
<1>1. PICK a \in Artifacts : /\ remote[a] # outcome /\ MayUpload(a)
                             /\ remote' = [remote EXCEPT ![a] = outcome]
  BY DEF PodUploads
<1>2. outcome \in Final /\ outcome \in Version /\ outcome' = outcome /\ pod = "ending"
  BY DEF PodUploads, Uploaded, Version
<1>3. /\ remote \in [Artifacts -> Version] /\ remote' \in [Artifacts -> Version]
      /\ \A b \in Artifacts : remote'[b] = IF b = a THEN outcome ELSE remote[b]
  BY <1>1, <1>2 DEF TypeOK
<1>4. pod' \in {"ending", "gone"}
  BY DEF PodUploads
<1>5. \A b \in Artifacts : remote[b] # "none" => remote'[b] # "none"
  BY <1>2, <1>3 DEF Final
<1>6. remote["summary"] \in Final => remote'["summary"] \in Final
  BY <1>2, <1>3 DEF Artifacts
<1>7. remote'["evidence"] \in {"none", outcome}
  BY <1>2, <1>3 DEF Artifacts, Uploaded
<1>8. remote'["summary"] \in Final => remote' = [b \in Artifacts |-> outcome]
  <2>1. CASE a = "summary"
    BY <2>1, <1>1, <1>3 DEF MayUpload, Artifacts
  <2>2. CASE a = "evidence"
    BY <2>2, <1>1, <1>3 DEF Uploaded, Artifacts
  <2>3. QED
    BY <2>1, <2>2 DEF Artifacts
<1>9. Uploaded'
  BY <1>2, <1>4, <1>7, <1>8 DEF Uploaded
<1>10. QED
  BY <1>3, <1>4, <1>5, <1>6, <1>9

(* The pod's steps touch nothing but its artifacts.                        *)
LEMMA RunPodKeeps ==
  ASSUME IInv, Pod
  PROVE  IInv'
<1> USE DEF IInv, driver, finishing
<1>1. UNCHANGED <<driver, live, finishing>> /\ pod \in {"running", "ending"}
  BY DEF Pod, PodPolls, PodEnds, PodUploads, PodGone
<1>2. /\ pod' \in {"running", "ending", "gone"} /\ outcome' \in Version
      /\ remote' \in [Artifacts -> Version] /\ Uploaded'
      /\ \A a \in Artifacts : remote[a] # "none" => remote'[a] # "none"
      /\ remote["summary"] \in Final => remote'["summary"] \in Final
  <2>1. CASE PodPolls
    BY <2>1 DEF PodPolls, TypeOK, Uploaded, Artifacts, Version, Final
  <2>2. CASE PodEnds
    BY <2>2 DEF PodEnds, TypeOK, Uploaded, Artifacts, Version, Final
  <2>3. CASE PodUploads
    BY <2>3, UploadsKeep DEF PodUploads, TypeOK
  <2>4. CASE PodGone
    BY <2>4 DEF PodGone, TypeOK, Uploaded
  <2>5. QED
    BY <2>1, <2>2, <2>3, <2>4 DEF Pod
<1>3. TypeOK'
  BY <1>1, <1>2 DEF TypeOK
<1>4. Fetched'
  BY <1>1, <1>2, <1>3 DEF Fetched, Finish
<1>5. Launching' /\ Deleted' /\ Counted' /\ NothingLeftUnreported' /\ PublishedIsWhole'
  BY <1>1 DEF Launching, Deleted, Counted, NothingLeftUnreported, PublishedIsWhole
<1>6. TornDownForCause'
  BY <1>1, <1>2 DEF TornDownForCause
<1>7. QED
  BY <1>2, <1>3, <1>4, <1>5, <1>6

(* The driver's steps up to finish.sh leave the artifacts and their copies *)
(* alone, and what is known of them with it.                               *)
LEMMA ArtifactsKept ==
  ASSUME IInv, UNCHANGED <<podVars, finishing>>,
         pc \notin Finish \cup {"exit"}, pc' \notin Finish \ {"finFetch"}
  PROVE  Uploaded' /\ Fetched' /\ PublishedIsWhole'
<1> USE DEF IInv, podVars, finishing
<1>1. Uploaded'
  BY DEF Uploaded
<1>2. Fetched'
  BY DEF Fetched, Finish
<1>3. PublishedIsWhole'
  BY DEF PublishedIsWhole
<1>4. QED
  BY <1>1, <1>2, <1>3

(* launch.sh starts what teardown.sh will have to delete.                  *)
LEMMA LaunchKeeps ==
  ASSUME IInv, Launch
  PROVE  IInv'
<1> USE RunAssumption DEF IInv, finishing, podVars, Die, Goto
<1>1. CASE Stage
  <2>1. TypeOK'
    BY <1>1 DEF Stage, Staged, TypeOK, Resources, Places
  <2>2. Launching' /\ Deleted' /\ Counted' /\ NothingLeftUnreported' /\ TornDownForCause'
    BY <1>1 DEF Stage, Launching, Deleted, Counted, NothingLeftUnreported, TornDownForCause, Teardown, Finish
  <2>3. Uploaded' /\ Fetched' /\ PublishedIsWhole'
    BY <1>1, ArtifactsKept DEF Stage, Finish
  <2>4. QED
    BY <2>1, <2>2, <2>3
<1>2. CASE StartScorer
  <2>1. TypeOK'
    <3>1. live' \subseteq live \cup {"scorer"} /\ {"scorer"} \subseteq Resources
      BY <1>2 DEF StartScorer, Resources
    <3>2. live' \subseteq Resources
      BY <3>1 DEF TypeOK
    <3>3. pc' \in Places
      BY <1>2 DEF StartScorer, Places
    <3>4. QED
      BY <1>2, <3>2, <3>3 DEF StartScorer, TypeOK
  <2>2. Launching' /\ Deleted' /\ Counted' /\ NothingLeftUnreported' /\ TornDownForCause'
    BY <1>2 DEF StartScorer, Launching, Deleted, Counted, NothingLeftUnreported, TornDownForCause, Teardown, Finish
  <2>3. Uploaded' /\ Fetched' /\ PublishedIsWhole'
    BY <1>2 DEF StartScorer, Launching, Uploaded, Fetched, PublishedIsWhole, Finish, Final
  <2>4. QED
    BY <2>1, <2>2, <2>3
<1>3. CASE FirstPoll
  <2>1. TypeOK'
    BY <1>3 DEF FirstPoll, TypeOK, Places
  <2>2. Launching' /\ Deleted' /\ Counted' /\ NothingLeftUnreported' /\ TornDownForCause'
    BY <1>3 DEF FirstPoll, Launching, Deleted, Counted, NothingLeftUnreported, TornDownForCause, Teardown, Finish
  <2>3. Uploaded' /\ Fetched' /\ PublishedIsWhole'
    BY <1>3, ArtifactsKept DEF FirstPoll, Finish
  <2>4. QED
    BY <2>1, <2>2, <2>3
<1>4. CASE StartOffer
  <2>1. TypeOK'
    <3>1. live' \subseteq live \cup {"producer"} /\ {"producer"} \subseteq Resources
      BY <1>4 DEF StartOffer, Resources
    <3>2. live' \subseteq Resources
      BY <3>1 DEF TypeOK
    <3>3. pc' \in Places
      BY <1>4 DEF StartOffer, Places
    <3>4. launched' \in BOOLEAN /\ status' \in {Running, 0, 1, TeardownFailed}
      BY <1>4 DEF StartOffer, TypeOK
    <3>5. QED
      BY <1>4, <3>2, <3>3, <3>4 DEF StartOffer, TypeOK
  <2>2. Launching' /\ Deleted' /\ Counted' /\ NothingLeftUnreported' /\ TornDownForCause'
    BY <1>4 DEF StartOffer, Launching, Deleted, Counted, NothingLeftUnreported, TornDownForCause, Teardown, Finish
  <2>3. Uploaded' /\ Fetched' /\ PublishedIsWhole'
    BY <1>4, ArtifactsKept DEF StartOffer, Finish
  <2>4. QED
    BY <2>1, <2>2, <2>3
<1>5. QED
  BY <1>1, <1>2, <1>3, <1>4 DEF Launch

(* The loop calls teardown.sh only for cause, and gate.sh counts right.    *)
LEMMA JudgingKeeps ==
  ASSUME IInv, Judging
  PROVE  IInv'
<1> USE RunAssumption DEF IInv, finishing, podVars, Goto, CallTeardown
<1>1. UNCHANGED <<live, launched, metadata, teardownStatus, status, podVars, finishing>>
  BY DEF Judging, Loop, Judge, Count, TornDown, Limit, ReadSummary
<1>2. /\ pc \in {"loop", "gate", "count", "saved", "limit", "summary"}
      /\ pc' \in {"loop", "gate", "count", "saved", "limit", "summary", "tdStart", "finFetch"}
  BY DEF Judging, Loop, Judge, Count, TornDown, Limit, ReadSummary
<1>3. clock' \in 0..RunMax
  <2>1. CASE Loop
    BY <2>1 DEF Loop, TypeOK
  <2>2. CASE Judge \/ ReadSummary
    BY <2>2 DEF Judge, ReadSummary, Spend, TypeOK
  <2>3. CASE Count \/ TornDown \/ Limit
    BY <2>3 DEF Count, TornDown, Limit, TypeOK
  <2>4. QED
    BY <2>1, <2>2, <2>3 DEF Judging
<1>4. /\ caller' \in {"gate", "run"} /\ overran' \in BOOLEAN /\ gateStatus' \in {0, 1, 3, 5}
  <2>1. CASE Loop
    BY <2>1 DEF Loop, TypeOK
  <2>2. CASE Judge
    BY <2>2 DEF Judge, TypeOK
  <2>3. CASE Count \/ TornDown
    BY <2>3 DEF Count, TornDown, TypeOK
  <2>4. CASE Limit \/ ReadSummary
    BY <2>4 DEF Limit, ReadSummary, TypeOK
  <2>5. QED
    BY <2>1, <2>2, <2>3, <2>4 DEF Judging
<1>5. breaches' \in 0..Breaches /\ streak' \in Nat /\ Counted' /\ TornDownForCause'
  <2>1. CASE Loop
    BY <2>1 DEF Loop, TypeOK, Counted, TornDownForCause, Teardown, Finish
  <2>2. CASE Judge
    BY <2>2 DEF Judge, TypeOK, Counted, TornDownForCause, Teardown, Finish
  <2>3. CASE Count
    BY <2>3 DEF Count, BreachesAfter, TypeOK, Counted, TornDownForCause, Teardown, Finish
  <2>4. CASE TornDown
    BY <2>4 DEF TornDown, TypeOK, Counted, TornDownForCause, Teardown, Finish
  <2>5. CASE Limit
    BY <2>5 DEF Limit, AtLimit, TypeOK, Counted, TornDownForCause, Teardown, Finish
  <2>6. CASE ReadSummary
    BY <2>6 DEF ReadSummary, TypeOK, Counted, TornDownForCause, Teardown, Finish
  <2>7. QED
    BY <2>1, <2>2, <2>3, <2>4, <2>5, <2>6 DEF Judging
<1>6. pc' \in Places
  BY <1>2 DEF Places, Teardown, Finish
<1>7. TypeOK'
  BY <1>1, <1>3, <1>4, <1>5, <1>6 DEF TypeOK
<1>8. pc' = "finFetch" => metadata
  BY DEF Judging, Loop, Judge, Count, TornDown, Limit, ReadSummary
<1>9. metadata => pc = "saved" /\ pc' = "finFetch"
  <2>1. metadata => pc = "saved"
    BY <1>2 DEF Deleted, Finish
  <2>2. pc = "saved" => TornDown
    BY DEF Judging, Loop, Judge, Count, TornDown, Limit, ReadSummary
  <2>3. QED
    BY <2>1, <2>2 DEF TornDown
<1>10. Deleted'
  BY <1>1, <1>2, <1>8, <1>9 DEF Deleted, Finish
<1>11. Launching' /\ NothingLeftUnreported'
  BY <1>1, <1>2 DEF Launching, NothingLeftUnreported
<1>12. Uploaded' /\ Fetched' /\ PublishedIsWhole'
  BY <1>1, <1>2, ArtifactsKept DEF Finish
<1>13. QED
  BY <1>5, <1>7, <1>10, <1>11, <1>12

(* A teardown leaves a place only with that place's resources deleted, or  *)
(* returns a failure to the script that called it.                         *)
LEMMA TearDownKeeps ==
  ASSUME IInv, TearDown
  PROVE  IInv'
<1> USE DEF IInv, podVars, TeardownStep, Goto, Return, Delete
<1>1. /\ UNCHANGED <<caller, clock, launched, gateStatus, breaches, streak, overran, status>>
      /\ UNCHANGED <<podVars, local, fetched, lingered, published>>
  BY DEF TearDown, DeleteEngine, DeleteProducer, DeleteScorer, DropTopic, FetchScores,
     ScoresFetched, SaveMetadata, finishing
<1>2. pc \in Teardown /\ pc' \in Teardown \cup {"saved", "finFetch"}
  BY DEF TearDown, DeleteEngine, DeleteProducer, DeleteScorer, DropTopic, FetchScores,
     ScoresFetched, SaveMetadata, Teardown
<1>4. ~metadata
  BY <1>2 DEF Deleted, Teardown, Finish
<1>5. /\ pc' = "saved" => caller = "gate"
      /\ pc' = "finFetch" => caller = "run"
  BY <1>2 DEF TearDown, DeleteEngine, DeleteProducer, DeleteScorer, DropTopic, FetchScores,
     ScoresFetched, SaveMetadata, TypeOK
<1>6. /\ live' \subseteq Resources /\ metadata' \in BOOLEAN /\ teardownStatus' \in {0, 1}
      /\ toSync' \subseteq Artifacts /\ Deleted'
  <2>1. CASE DeleteEngine
    BY <2>1, <1>4, <1>5 DEF DeleteEngine, TypeOK, Deleted, Finish, finishing
  <2>2. CASE DeleteProducer
    BY <2>2, <1>4, <1>5 DEF DeleteProducer, TypeOK, Deleted, Finish, finishing
  <2>3. CASE DeleteScorer
    <3>1. /\ pc = "tdScorer" /\ live' \subseteq live
          /\ \/ pc' = "tdTopic" /\ live' = live \ {"scorer"}
             \/ pc' \in {"saved", "finFetch"}
      BY <2>3 DEF DeleteScorer
    <3>2. live \ {"scorer"} \subseteq {"topic", "dropJob"} /\ live' \subseteq Resources
      BY <3>1 DEF Deleted, TypeOK, Resources
    <3>3. /\ teardownStatus' \in {0, 1} /\ pc' = "finFetch" => teardownStatus' = 1
      BY <2>3, <1>5 DEF DeleteScorer, TypeOK
    <3>4. QED
      BY <2>3, <1>4, <3>1, <3>2, <3>3 DEF DeleteScorer, TypeOK, Deleted, Finish, finishing
  <2>4. CASE DropTopic
    <3>1. /\ pc = "tdTopic" /\ live' \subseteq live \cup {"dropJob"}
          /\ \/ pc' = "tdFetch" /\ live' = live \ {"topic", "dropJob"}
             \/ pc' \in {"saved", "finFetch"}
      BY <2>4 DEF DropTopic
    <3>2. live \ {"topic", "dropJob"} = {} /\ live' \subseteq Resources
      BY <3>1 DEF Deleted, TypeOK, Resources
    <3>3. /\ teardownStatus' \in {0, 1} /\ pc' = "finFetch" => teardownStatus' = 1
      BY <2>4, <1>5 DEF DropTopic, TypeOK
    <3>4. QED
      BY <2>4, <1>4, <3>1, <3>2, <3>3 DEF DropTopic, TypeOK, Deleted, Finish, finishing
  <2>5. CASE FetchScores
    BY <2>5, <1>4, <1>5 DEF FetchScores, Listed, TypeOK, Deleted, Finish
  <2>6. CASE ScoresFetched
    BY <2>6, <1>4, <1>5 DEF ScoresFetched, TypeOK, Deleted, Finish
  <2>7. CASE SaveMetadata
    BY <2>7, <1>4, <1>5 DEF SaveMetadata, TypeOK, Deleted, Finish, finishing
  <2>8. QED
    BY <2>1, <2>2, <2>3, <2>4, <2>5, <2>6, <2>7 DEF TearDown
<1>7. pc' \in Places
  BY <1>2 DEF Places, Finish
<1>8. TypeOK'
  BY <1>1, <1>6, <1>7 DEF TypeOK
<1>9. Counted' /\ TornDownForCause'
  BY <1>1, <1>2, <1>5 DEF Counted, TornDownForCause, Teardown, Finish
<1>10. Launching' /\ NothingLeftUnreported' /\ Uploaded'
  BY <1>1, <1>2 DEF Launching, NothingLeftUnreported, Uploaded, Teardown
<1>11. Fetched' /\ PublishedIsWhole'
  BY <1>1, <1>2 DEF Fetched, PublishedIsWhole, Teardown, Finish
<1>12. QED
  BY <1>6, <1>8, <1>9, <1>10, <1>11

(* A copy is what its object is while the scorer is silent.                *)
LEMMA SyncKeeps ==
  ASSUME IInv, SyncOne
  PROVE  IInv'
<1> USE DEF IInv, driver, podVars
<1>1. PICK a \in toSync : /\ local' = [local EXCEPT ![a] = remote[a]]
                          /\ toSync' = toSync \ {a}
  BY DEF SyncOne
<1>2. UNCHANGED <<driver, live, podVars, fetched, lingered, published>>
  BY DEF SyncOne
<1>3. /\ local' \in [Artifacts -> Version]
      /\ \A b \in Artifacts : local'[b] = IF b = a THEN remote[a] ELSE local[b]
  BY <1>1 DEF TypeOK
<1>4. TypeOK'
  BY <1>1, <1>2, <1>3 DEF TypeOK
<1>5. Fetched'
  BY <1>1, <1>2, <1>3 DEF Fetched, SyncOne
<1>6. Launching' /\ Deleted' /\ Counted' /\ Uploaded'
  BY <1>2 DEF Launching, Deleted, Counted, Uploaded
<1>7. NothingLeftUnreported' /\ TornDownForCause' /\ PublishedIsWhole'
  BY <1>2 DEF NothingLeftUnreported, TornDownForCause, PublishedIsWhole
<1>8. QED
  BY <1>4, <1>5, <1>6, <1>7

(* What finish.sh publishes it has fetched, and an exit status other than  *)
(* 6 says that the last teardown failed nowhere.                           *)
LEMMA FinishingKeeps ==
  ASSUME IInv, Finishing
  PROVE  IInv'
<1> USE DEF IInv, podVars, FinishStep, Goto, Exit
<1>1. /\ UNCHANGED <<caller, clock, launched, gateStatus, breaches, streak, overran, metadata>>
      /\ UNCHANGED <<teardownStatus, live, podVars, local>>
  BY DEF Finishing, FetchFinal, FinalFetched, Collect, Publish, PrintVerdict, finishing
<1>2. pc \in Finish /\ pc' \in Finish \cup {"exit"}
  BY DEF Finishing, FetchFinal, FinalFetched, Collect, Publish, PrintVerdict, Finish
<1>3. \/ status' = status
      \/ pc' = "exit" /\ \E s \in {0, 1} : status' = ExitStatus(s)
  <2>1. CASE FetchFinal \/ FinalFetched
    BY <2>1 DEF FetchFinal, FinalFetched
  <2>2. CASE Collect
    BY <2>2 DEF Collect
  <2>3. CASE Publish
    BY <2>3 DEF Publish
  <2>4. CASE PrintVerdict
    BY <2>4 DEF PrintVerdict
  <2>5. QED
    BY <2>1, <2>2, <2>3, <2>4 DEF Finishing
<1>4. status' \in {Running, 0, 1, TeardownFailed}
  BY <1>3 DEF ExitStatus, TypeOK
<1>5. /\ toSync' \subseteq Artifacts /\ fetched' \in BOOLEAN /\ lingered' \in BOOLEAN
      /\ published' \in [Artifacts -> Version]
  <2>1. CASE FetchFinal
    <3>1. lingered' \in BOOLEAN
      BY <2>1 DEF FetchFinal
    <3>2. QED
      BY <2>1, <3>1 DEF FetchFinal, Listed, TypeOK
  <2>2. CASE FinalFetched
    <3>1. fetched' = TRUE \/ fetched' = fetched
      BY <2>2 DEF FinalFetched
    <3>2. toSync' \subseteq Artifacts /\ fetched' \in BOOLEAN
      BY <2>2, <3>1 DEF FinalFetched, TypeOK
    <3>3. lingered' = lingered /\ published' = published
      BY <2>2 DEF FinalFetched
    <3>4. QED
      BY <3>2, <3>3 DEF TypeOK
  <2>3. CASE Collect \/ PrintVerdict
    <3>1. UNCHANGED <<toSync, fetched, lingered, published>>
      BY <2>3 DEF Collect, PrintVerdict, finishing
    <3>2. QED
      BY <3>1 DEF TypeOK
  <2>4. CASE Publish
    <3>1. UNCHANGED <<toSync, fetched, lingered>> /\ published' \in {published, local}
      BY <2>4 DEF Publish
    <3>2. QED
      BY <3>1 DEF TypeOK
  <2>5. QED
    BY <2>1, <2>2, <2>3, <2>4 DEF Finishing
<1>6. TypeOK'
  BY <1>1, <1>2, <1>4, <1>5 DEF TypeOK, Places
<1>7. Deleted' /\ Counted' /\ TornDownForCause'
  BY <1>1, <1>2 DEF Deleted, Counted, TornDownForCause, Teardown, Finish
<1>8. Launching' /\ Uploaded'
  BY <1>1, <1>2 DEF Launching, Uploaded, Finish
<1>9. NothingLeftUnreported'
  <2> SUFFICES ASSUME pc' = "exit", status' # TeardownFailed PROVE live' = {}
    BY DEF NothingLeftUnreported
  <2>1. \E s \in {0, 1} : status' = ExitStatus(s)
    BY DEF Finishing, FetchFinal, FinalFetched, Collect, Publish, PrintVerdict
  <2>2. teardownStatus = 0
    BY <2>1 DEF ExitStatus
  <2>3. QED
    BY <1>1, <1>2, <2>2 DEF Deleted
<1>10. Fetched'
  <2>1. CASE FetchFinal
    <3>1. lingered' = (pod \in {"running", "ending"}) /\ toSync' = Listed
      BY <2>1 DEF FetchFinal
    <3>2. ~lingered' => pod \in {"none", "gone"}
      BY <3>1 DEF TypeOK
    <3>3. \A a \in Artifacts : a \in toSync' \/ local[a] = remote[a]
      BY <3>1 DEF Listed, Fetched
    <3>4. QED
      BY <1>1, <2>1, <3>2, <3>3 DEF FetchFinal, Fetched, Finish
  <2>2. CASE FinalFetched
    BY <2>2, <1>1 DEF FinalFetched, Fetched, Finish
  <2>3. CASE Collect
    BY <2>3, <1>1 DEF Collect, Fetched, Finish, finishing
  <2>4. CASE Publish
    BY <2>4, <1>1 DEF Publish, Fetched, Finish
  <2>5. CASE PrintVerdict
    BY <2>5, <1>1 DEF PrintVerdict, Fetched, Finish, finishing
  <2>6. QED
    BY <2>1, <2>2, <2>3, <2>4, <2>5 DEF Finishing
<1>11. PublishedIsWhole'
  <2>1. CASE published' # published
    <3>1. /\ pc = "finPublish" /\ local["summary"] = "valid"
          /\ published' = local /\ lingered' = lingered
      BY <2>1 DEF Finishing, FetchFinal, FinalFetched, Collect, Publish, PrintVerdict, finishing
    <3>2. ASSUME ~lingered PROVE local = [a \in Artifacts |-> "valid"]
      <4>1. \A a \in Artifacts : local[a] = remote[a]
        BY <3>1, <3>2 DEF Fetched, Finish
      <4>2. remote["summary"] = "valid"
        BY <3>1, <4>1 DEF Artifacts
      <4>3. \A a \in Artifacts : remote[a] = "valid"
        BY <4>2 DEF Uploaded, Final, Artifacts
      <4>4. QED
        BY <4>1, <4>3 DEF TypeOK
    <3>3. QED
      BY <3>1, <3>2 DEF PublishedIsWhole
  <2>2. CASE published' = published /\ pc = "finFetch"
    BY <2>2 DEF Fetched, PublishedIsWhole
  <2>3. CASE published' = published /\ pc # "finFetch"
    <3>1. lingered' = lingered
      BY <2>3 DEF Finishing, FetchFinal, FinalFetched, Collect, Publish, PrintVerdict, finishing
    <3>2. QED
      BY <2>3, <3>1 DEF PublishedIsWhole
  <2>4. QED
    BY <2>1, <2>2, <2>3
<1>12. QED
  BY <1>6, <1>7, <1>8, <1>9, <1>10, <1>11

(* Every step keeps the invariant.                                         *)
LEMMA RunNextIInv == IInv /\ [Next]_vars => IInv'
<1> SUFFICES ASSUME IInv, [Next]_vars PROVE IInv'
  OBVIOUS
<1>1. CASE Launch
  BY <1>1, LaunchKeeps
<1>2. CASE Judging
  BY <1>2, JudgingKeeps
<1>3. CASE TearDown
  BY <1>3, TearDownKeeps
<1>4. CASE SyncOne
  BY <1>4, SyncKeeps
<1>5. CASE Finishing
  BY <1>5, FinishingKeeps
<1>6. CASE Pod
  BY <1>6, RunPodKeeps
<1>7. CASE UNCHANGED vars
  BY <1>7 DEF vars, driver, podVars, finishing, IInv, TypeOK, Launching, Deleted, Counted,
     Uploaded, Fetched, NothingLeftUnreported, TornDownForCause, PublishedIsWhole
<1>8. QED
  BY <1>1, <1>2, <1>3, <1>4, <1>5, <1>6, <1>7 DEF Next, Driver

(* Whatever fails and whenever the pod uploads, the invariant holds.       *)
THEOREM RunDriverInvariant == Spec => []IInv
<1>1. Init => IInv
  BY RunInitIInv
<1>2. IInv /\ [Next]_vars => IInv'
  BY RunNextIInv
<1>3. QED
  BY <1>1, <1>2, PTL DEF Spec

(* The driver, the cluster and the artifacts stay in their types.          *)
THEOREM RunTypeOK == Spec => []TypeOK
<1>1. IInv => TypeOK
  BY DEF IInv
<1>2. QED
  BY <1>1, RunDriverInvariant, PTL

(* A launched run that leaves something standing exits with status 6.      *)
THEOREM RunReportsLeftovers == Spec => []NothingLeftUnreported
<1>1. IInv => NothingLeftUnreported
  BY DEF IInv
<1>2. QED
  BY <1>1, RunDriverInvariant, PTL

(* A run is torn down at its deadline, after its scorer ended, or after    *)
(* Breaches verdicts on end that were not a PASS.                          *)
THEOREM RunTornDownForCause == Spec => []TornDownForCause
<1>1. IInv => TornDownForCause
  BY DEF IInv
<1>2. QED
  BY <1>1, RunDriverInvariant, PTL

(* A result published after the pod was gone is the whole valid result.    *)
THEOREM RunPublishesWhole == Spec => []PublishedIsWhole
<1>1. IInv => PublishedIsWhole
  BY DEF IInv
<1>2. QED
  BY <1>1, RunDriverInvariant, PTL

-----------------------------------------------------------------------------
(* Launch.  What a launch may rely on is carried by the place of the       *)
(* script: a scorer has read the table from "lead" on, only the Jobs of    *)
(* this launch are left running from "poll" (scorers) and "record"         *)
(* (producers) on, and the commands of "offer" end before the epoch.       *)

(* A launch after the current one has left nothing yet.                    *)
LaterIsNew == \A l \in Launches :
    l > launch => scorer[l] = "none" /\ producer[l] = "none"

(* Rows come from producers, and producers follow their scorer's reading.  *)
ReadFirst == /\ \A l \in Launches : /\ l \in polled => scorer[l] # "none"
                                    /\ producer[l] # "none" => l \in polled
                                    /\ l \in rows => producer[l] # "none"
             /\ place \in {"lead", "offer", "record"} => launch \in polled

(* Where the script is tells what it has started and stopped.              *)
LaunchPlaces == /\ place # "staged" => launch \in Launches
                /\ place \in {"scorer", "poll", "lead", "offer"} => producer[launch] = "none"
                /\ place \in {"poll", "lead", "offer", "record", "launched"} =>
                     \A l \in Launches : scorer[l] = "up" => l = launch
                /\ place \in {"record", "launched"} => /\ producer[launch] # "none"
                                                       /\ \A l \in Launches : producer[l] = "up" => l = launch
                /\ place = "launched" => facts = launch

(* Producers are started well before the epoch.                            *)
InTime == place = "offer" => now <= until /\ until < epoch[launch]

Recorded == facts # 0 => facts \in Launches /\ producer[facts] # "none"

LaunchInv == LaunchTypeOK /\ LaterIsNew /\ ReadFirst /\ LaunchPlaces /\ InTime /\ Recorded

(* Unless a run is launched again after its offer, only the last launch    *)
(* has producers, and a first reading finds what was there before them.    *)
OneOffer == /\ \A l \in Launches : producer[l] # "none" => l = launch
            /\ \A l \in Launches : l \notin polled => baseline[l] = {}

-----------------------------------------------------------------------------
(* Told to stop, a pod stays where it is or stops; none is made.           *)
LEMMA StoppedPods ==
  ASSUME NEW kept, kept \in [Launches -> Place]
  PROVE  /\ Stopped(kept) \in [Launches -> Place]
         /\ \A l \in Launches : /\ Stopped(kept)[l] = "none" <=> kept[l] = "none"
                                /\ Stopped(kept)[l] # "up"
BY DEF Stopped, Place

LEMMA LaunchInitKeeps == LaunchInit => LaunchInv
BY LaunchAssumption DEF LaunchInit, LaunchInv, LaunchTypeOK, LaterIsNew, ReadFirst, LaunchPlaces, InTime, Recorded,
     Launches, Place, Ended

LEMMA LaunchBeginKeeps == LaunchInv /\ Begin => LaunchInv'
<1> SUFFICES ASSUME LaunchInv, Begin PROVE LaunchInv'
  OBVIOUS
<1> USE LaunchAssumption DEF LaunchInv, Begin, Proceed, pods, Step
<1>1. /\ launch + 1 \in Launches /\ launch' = launch + 1 /\ place' = "scorer"
      /\ launch \in Nat /\ now \in Nat /\ now <= MaxTime
  BY DEF LaunchTypeOK, Launches
<1>2. LaunchTypeOK'
  <2>1. {Lead, Slack, FirstPollWait, MaxTime} \subseteq Nat /\ Slack >= 1
    OBVIOUS
  <2>2. epoch' \in [Launches -> 0..MaxTime + Lead] /\ until' \in 0..MaxTime + FirstPollWait + Slack
    BY <1>1, <2>1 DEF LaunchTypeOK
  <2>3. launch' \in 0..MaxLaunches /\ facts' \in 0..launch'
    BY <1>1 DEF LaunchTypeOK, Launches
  <2>4. QED
    BY <1>1, <2>2, <2>3 DEF LaunchTypeOK, Ended
<1>3. LaterIsNew' /\ ReadFirst'
  BY <1>1 DEF LaterIsNew, ReadFirst, LaunchTypeOK, Launches
<1>4. producer[launch + 1] = "none"
  BY <1>1 DEF LaterIsNew
<1>5. LaunchPlaces' /\ InTime' /\ Recorded'
  BY <1>1, <1>4 DEF LaunchPlaces, InTime, Recorded
<1>6. QED
  BY <1>2, <1>3, <1>5

LEMMA StartScorerKeeps == LaunchInv /\ ApplyScorer => LaunchInv'
<1> SUFFICES ASSUME LaunchInv, ApplyScorer PROVE LaunchInv'
  OBVIOUS
<1> USE LaunchAssumption DEF LaunchInv, ApplyScorer, Proceed, DieThere
<1>1. launch \in Launches /\ producer[launch] = "none" /\ place' \in {"poll", "died"}
  BY DEF LaunchPlaces
<1>2. /\ Stopped(scorer) \in [Launches -> Place]
      /\ \A l \in Launches : /\ Stopped(scorer)[l] = "none" <=> scorer[l] = "none"
                             /\ Stopped(scorer)[l] # "up"
  BY StoppedPods DEF LaunchTypeOK
<1>3. /\ scorer' \in [Launches -> Place]
      /\ \A l \in Launches : l # launch => (scorer'[l] = "none" <=> scorer[l] = "none")
      /\ \A l \in Launches : scorer[l] # "none" => scorer'[l] # "none"
      /\ place' = "poll" => \A l \in Launches : scorer'[l] = "up" => l = launch
  <2>1. CASE scorer' = [Stopped(scorer) EXCEPT ![launch] = "up"]
    BY <1>1, <1>2, <2>1 DEF Place
  <2>2. CASE scorer' \in {scorer, Stopped(scorer)} /\ place' = "died"
    BY <1>2, <2>2 DEF LaunchTypeOK
  <2>3. QED
    BY <2>1, <2>2
<1>4. LaunchTypeOK'
  BY <1>1, <1>3 DEF LaunchTypeOK, Ended
<1>5. LaterIsNew'
  BY <1>1, <1>3 DEF LaterIsNew, Launches, LaunchTypeOK
<1>6. ReadFirst' /\ LaunchPlaces' /\ InTime' /\ Recorded'
  BY <1>1, <1>3 DEF ReadFirst, LaunchPlaces, InTime, Recorded
<1>7. QED
  BY <1>4, <1>5, <1>6

(* The script waits for the first reading and checks what is left.         *)
LEMMA LaunchWaitKeeps == LaunchInv /\ (SeeFirstPoll \/ PollTimeout \/ CheckLead) => LaunchInv'
<1> SUFFICES ASSUME LaunchInv, SeeFirstPoll \/ PollTimeout \/ CheckLead PROVE LaunchInv'
  OBVIOUS
<1> USE LaunchAssumption DEF LaunchInv, Proceed, DieThere, pods
<1>1. CASE SeeFirstPoll
  BY <1>1 DEF SeeFirstPoll, LaunchTypeOK, LaterIsNew, ReadFirst, LaunchPlaces, InTime, Recorded
<1>2. CASE PollTimeout
  BY <1>2 DEF PollTimeout, LaunchTypeOK, Ended, LaterIsNew, ReadFirst, LaunchPlaces, InTime, Recorded
<1>3. CASE CheckLead
  <2>1. launch \in Launches /\ epoch[launch] \in Nat /\ now \in Nat /\ now <= MaxTime
    BY <1>3 DEF CheckLead, LaunchPlaces, LaunchTypeOK
  <2>2. LaunchTypeOK'
    BY <1>3, <2>1 DEF CheckLead, LaunchTypeOK, Ended, Step
  <2>3. InTime'
    BY <1>3, <2>1 DEF CheckLead, InTime, Step
  <2>4. LaterIsNew' /\ ReadFirst' /\ LaunchPlaces' /\ Recorded'
    BY <1>3 DEF CheckLead, LaterIsNew, ReadFirst, LaunchPlaces, Recorded
  <2>5. QED
    BY <2>2, <2>3, <2>4
<1>4. QED
  BY <1>1, <1>2, <1>3

(* Only this launch gets producers, and every other's are told to stop.    *)
LEMMA OfferedPods ==
  ASSUME LaunchInv, ApplyProducers
  PROVE  /\ launch \in Launches /\ place' \in {"record", "died"}
         /\ producer' \in [Launches -> Place]
         /\ \A l \in Launches : l # launch => (producer'[l] = "none" <=> producer[l] = "none")
         /\ \A l \in Launches : producer[l] # "none" => producer'[l] # "none"
         /\ \A l \in Launches : producer'[l] = "up" /\ producer[l] = "none" => l = launch
         /\ place' = "record" => /\ producer'[launch] = "up"
                                 /\ \A l \in Launches : producer'[l] = "up" => l = launch
<1> USE DEF ApplyProducers, Proceed, DieThere, LaunchInv
<1>1. launch \in Launches
  BY DEF LaunchPlaces
<1>2. /\ Stopped(producer) \in [Launches -> Place]
      /\ \A l \in Launches : /\ Stopped(producer)[l] = "none" <=> producer[l] = "none"
                             /\ Stopped(producer)[l] # "up"
  BY StoppedPods DEF LaunchTypeOK
<1>3. CASE producer' = [Stopped(producer) EXCEPT ![launch] = "up"]
  BY <1>1, <1>2, <1>3 DEF Place
<1>4. CASE producer' \in {producer, Stopped(producer)} /\ place' = "died"
  BY <1>1, <1>2, <1>4 DEF LaunchTypeOK
<1>5. QED
  BY <1>3, <1>4

LEMMA StartOfferKeeps == LaunchInv /\ ApplyProducers => LaunchInv'
<1> SUFFICES ASSUME LaunchInv, ApplyProducers PROVE LaunchInv'
  OBVIOUS
<1> USE OfferedPods DEF LaunchInv
<1>1. LaunchTypeOK'
  BY DEF ApplyProducers, LaunchTypeOK, Ended
<1>2. LaterIsNew'
  BY DEF ApplyProducers, LaterIsNew, Launches, LaunchTypeOK
<1>3. ReadFirst'
  BY DEF ApplyProducers, ReadFirst
<1>4. LaunchPlaces' /\ InTime' /\ Recorded'
  BY DEF ApplyProducers, LaunchPlaces, InTime, Recorded
<1>5. QED
  BY <1>1, <1>2, <1>3, <1>4

LEMMA WriteEpochKeeps == LaunchInv /\ WriteEpoch => LaunchInv'
<1> SUFFICES ASSUME LaunchInv, WriteEpoch PROVE LaunchInv'
  OBVIOUS
<1> USE LaunchAssumption DEF LaunchInv, WriteEpoch, Proceed, DieThere, pods
<1>1. launch \in Launches /\ producer[launch] # "none"
  BY DEF LaunchPlaces
<1>2. LaunchTypeOK'
  <2>1. launch \in Nat /\ launch \in 0..launch
    BY <1>1 DEF Launches
  <2>2. facts' \in 0..launch' /\ launch' = launch
    BY <2>1 DEF LaunchTypeOK
  <2>3. place' \in Ended
    BY DEF Ended
  <2>4. QED
    BY <2>2, <2>3 DEF LaunchTypeOK
<1>3. LaterIsNew' /\ ReadFirst' /\ LaunchPlaces' /\ InTime' /\ Recorded'
  BY <1>1 DEF LaterIsNew, ReadFirst, LaunchPlaces, InTime, Recorded
<1>4. QED
  BY <1>2, <1>3

(* Pods read, send and end.                                                *)
LEMMA LaunchPodKeeps ==
  ASSUME LaunchInv, NEW l \in Launches, FirstReading(l) \/ Produce(l) \/ LaunchedPodEnds(l)
  PROVE  LaunchInv'
<1> USE DEF LaunchInv, script
<1>1. CASE FirstReading(l)
  BY <1>1 DEF FirstReading, LaunchTypeOK, LaterIsNew, ReadFirst, LaunchPlaces, InTime, Recorded
<1>2. CASE Produce(l)
  BY <1>2 DEF Produce, LaunchTypeOK, LaterIsNew, ReadFirst, LaunchPlaces, InTime, Recorded
<1>3. CASE LaunchedPodEnds(l)
  <2>1. /\ scorer' \in [Launches -> Place] /\ producer' \in [Launches -> Place]
        /\ \A k \in Launches : /\ scorer'[k] = "none" <=> scorer[k] = "none"
                               /\ producer'[k] = "none" <=> producer[k] = "none"
                               /\ scorer'[k] = "up" => scorer[k] = "up"
                               /\ producer'[k] = "up" => producer[k] = "up"
    BY <1>3 DEF LaunchedPodEnds, LaunchTypeOK, Place
  <2>2. LaunchTypeOK' /\ LaterIsNew' /\ InTime' /\ Recorded'
    BY <1>3, <2>1 DEF LaunchedPodEnds, LaunchTypeOK, LaterIsNew, InTime, Recorded
  <2>3. ReadFirst' /\ LaunchPlaces'
    BY <1>3, <2>1 DEF LaunchedPodEnds, ReadFirst, LaunchPlaces
  <2>4. QED
    BY <2>2, <2>3
<1>4. QED
  BY <1>1, <1>2, <1>3

LEMMA LaunchTickKeeps == LaunchInv /\ Tick => LaunchInv'
BY LaunchAssumption DEF LaunchInv, Tick, script, pods, LaunchTypeOK, LaterIsNew, ReadFirst, LaunchPlaces, InTime, Recorded

LEMMA LaunchNextKeeps == LaunchInv /\ [LaunchNext]_launchVars => LaunchInv'
<1> SUFFICES ASSUME LaunchInv, [LaunchNext]_launchVars PROVE LaunchInv'
  OBVIOUS
<1>1. CASE LaunchNext
  BY <1>1, LaunchBeginKeeps, StartScorerKeeps, LaunchWaitKeeps, StartOfferKeeps, WriteEpochKeeps, LaunchTickKeeps, LaunchPodKeeps
    DEF LaunchNext, Script
<1>2. CASE UNCHANGED launchVars
  BY <1>2 DEF launchVars, script, pods, LaunchInv, LaunchTypeOK, LaterIsNew, ReadFirst, LaunchPlaces, InTime, Recorded
<1>3. QED
  BY <1>1, <1>2

(* The strengthened invariant: every launch is where its script says.      *)
THEOREM LaunchInvariant == LaunchSpec => []LaunchInv
BY LaunchInitKeeps, LaunchNextKeeps, PTL DEF LaunchSpec

(* Whatever launches die, every variable keeps its type.                   *)
THEOREM LaunchTypeCorrect == LaunchSpec => []LaunchTypeOK
<1>1. LaunchInv => LaunchTypeOK
  BY DEF LaunchInv
<1>2. QED
  BY LaunchInvariant, <1>1, PTL

(* No row is sent before the scorer of the same epoch has read the table.  *)
THEOREM LaunchScoredFromStart == LaunchSpec => []ScoredFromTheStart
<1>1. LaunchInv => ScoredFromTheStart
  BY DEF LaunchInv, LaunchTypeOK, ReadFirst, ScoredFromTheStart
<1>2. QED
  BY LaunchInvariant, <1>1, PTL

(* The recorded epoch is one that was offered, of the Jobs that are there. *)
THEOREM LaunchEpochIsOffered == LaunchSpec => []EpochIsOffered
<1>1. LaunchInv => EpochIsOffered
  BY DEF LaunchInv, Recorded, LaunchPlaces, EpochIsOffered
<1>2. QED
  BY LaunchInvariant, <1>1, PTL

(* Producers' pods are there before their first batch is due.              *)
THEOREM LaunchOfferedInTime == LaunchSpec => OfferedInTime
<1> DEFINE Early == \A l \in Launches : producer[l] = "none" /\ producer'[l] = "up" => now < epoch[l]
<1>1. LaunchInv /\ [LaunchNext]_launchVars => Early
  <2> SUFFICES ASSUME LaunchInv, [LaunchNext]_launchVars, NEW l \in Launches,
                      producer[l] = "none", producer'[l] = "up"
               PROVE  now < epoch[l]
    OBVIOUS
  <2>1. ApplyProducers
    BY DEF LaunchNext, Script, Begin, ApplyScorer, SeeFirstPoll, PollTimeout, CheckLead, WriteEpoch,
           FirstReading, Produce, LaunchedPodEnds, Tick, launchVars, pods, script, LaunchInv, LaunchTypeOK
  <2>2. l = launch
    BY <2>1, OfferedPods
  <2>3. now \in Nat /\ until \in Nat /\ epoch[l] \in Nat
    BY LaunchAssumption DEF LaunchInv, LaunchTypeOK
  <2>4. QED
    BY <2>1, <2>2, <2>3 DEF LaunchInv, InTime, ApplyProducers
<1>2. LaunchInv /\ [LaunchNext]_launchVars => [Early]_launchVars
  BY <1>1
<1>3. QED
  BY LaunchInvariant, <1>2, PTL DEF LaunchSpec, OfferedInTime

-----------------------------------------------------------------------------
(* The first reading, when no run is launched again after its offer.       *)
LEMMA OneOfferKeeps ==
  ASSUME ~RelaunchOffered, LaunchInv, OneOffer, [LaunchNext]_launchVars
  PROVE  OneOffer' /\ (BaselineIsFree => BaselineIsFree')
<1> USE DEF LaunchInv
<1>1. CASE Begin
  <2>1. /\ launch + 1 \in Launches /\ launch' = launch + 1
        /\ UNCHANGED <<producer, polled, baseline>>
    BY <1>1, LaunchAssumption DEF Begin, LaunchTypeOK, Launches, pods
  <2>2. \A l \in Launches : producer[l] = "none"
    BY <1>1, LaunchAssumption DEF Begin
  <2>3. launch + 1 \notin polled
    BY <2>1 DEF LaunchTypeOK, LaterIsNew, ReadFirst, Launches
  <2>4. QED
    BY <2>1, <2>2, <2>3 DEF OneOffer, BaselineIsFree
<1>2. CASE ApplyProducers
  BY <1>2, OfferedPods DEF ApplyProducers, OneOffer, BaselineIsFree
<1>3. CASE \E l \in Launches : FirstReading(l)
  <2>1. PICK l \in Launches : FirstReading(l)
    BY <1>3
  <2>2. /\ baseline' = [baseline EXCEPT ![l] = rows] /\ polled' = polled \union {l}
        /\ UNCHANGED <<launch, producer>> /\ baseline \in [Launches -> SUBSET Launches]
    BY <2>1 DEF FirstReading, script, LaunchTypeOK
  <2>3. l = launch => rows = {}
    BY <2>1 DEF FirstReading, OneOffer, ReadFirst, LaunchTypeOK
  <2>4. QED
    BY <2>2, <2>3 DEF OneOffer, BaselineIsFree, LaunchTypeOK
<1>4. CASE \E l \in Launches : LaunchedPodEnds(l)
  BY <1>4 DEF LaunchedPodEnds, script, LaunchTypeOK, OneOffer, BaselineIsFree
<1>5. CASE UNCHANGED <<launch, producer, polled, baseline>>
  BY <1>5 DEF OneOffer, BaselineIsFree
<1>6. QED
  BY <1>1, <1>2, <1>3, <1>4, <1>5 DEF LaunchNext, Script, ApplyScorer, SeeFirstPoll, PollTimeout, CheckLead,
       WriteEpoch, Produce, Tick, launchVars, pods, script

(* Launched again only before its offer, a run's baseline is free of rows. *)
THEOREM LaunchBaselineIsFree ==
  ASSUME ~RelaunchOffered
  PROVE  LaunchSpec => []BaselineIsFree
<1>1. LaunchInit => OneOffer /\ BaselineIsFree
  BY DEF LaunchInit, OneOffer, BaselineIsFree
<1>2. LaunchInv /\ (OneOffer /\ BaselineIsFree) /\ [LaunchNext]_launchVars => (OneOffer /\ BaselineIsFree)'
  BY OneOfferKeeps
<1>3. QED
  BY <1>1, <1>2, LaunchInvariant, PTL DEF LaunchSpec

-----------------------------------------------------------------------------
(* Purge.  What keeps purges apart is that nothing comes back: the engine  *)
(* is gone once a purge has begun, so an entry that was dropped and files  *)
(* that were removed stay away, whoever removed them.                      *)

(* What a purge has found and done by each of its places.                  *)
Progress(p) ==
    /\ ~Idle(p) \/ purge[p].ended \in {"nothing", "purged"} => ~engine
    /\ purge[p].knew => saved
    /\ purge[p].have => located
    /\ purge[p].pc \in {"drop", "files"} => purge[p].have
    /\ purge[p].knew /\ purge[p].pc \in {"scorer", "confirm", "artifacts"} => purge[p].have
    /\ purge[p].pc = "files" => ~catalog
    /\ purge[p].pc = "artifacts" /\ purge[p].have => ~catalog /\ ~files
    /\ purge[p].ended \in {"nothing", "purged"} /\ purge[p].knew => ~catalog /\ ~files
    /\ ~Idle(p) => purge[p].ended = "running"

PurgeInv == PurgeTypeOK /\ CatalogNamesFiles /\ OtherTablesStay /\ \A p \in Operators : Progress(p)

-----------------------------------------------------------------------------
(* A purge that ends changes its place and how it ended, and nothing else  *)
(* of its own.                                                             *)
PurgeRecords == [Operators -> [pc : {"idle", "look", "scorer", "confirm", "drop", "files", "artifacts"},
                               have : BOOLEAN, wants : BOOLEAN, knew : BOOLEAN,
                               ended : {"never", "running", "died", "nothing", "purged"}]]

LEMMA EndedRecord ==
  ASSUME purge \in PurgeRecords, NEW p \in Operators, NEW how \in {"died", "nothing", "purged"},
         purge' = [purge EXCEPT ![p].pc = "idle", ![p].ended = how]
  PROVE  /\ purge' \in PurgeRecords
         /\ purge'[p].pc = "idle" /\ purge'[p].ended = how
         /\ purge'[p].have = purge[p].have /\ purge'[p].knew = purge[p].knew
<1> DEFINE ended == [purge[p] EXCEPT !.pc = "idle", !.ended = how]
<1>1. purge' = [purge EXCEPT ![p] = ended]
  BY DEF PurgeRecords
<1>2. ended \in [pc : {"idle", "look", "scorer", "confirm", "drop", "files", "artifacts"},
                 have : BOOLEAN, wants : BOOLEAN, knew : BOOLEAN,
                 ended : {"never", "running", "died", "nothing", "purged"}]
  BY DEF PurgeRecords
<1>3. purge'[p] = ended
  BY <1>1 DEF PurgeRecords
<1>4. QED
  BY <1>1, <1>2, <1>3 DEF PurgeRecords

LEMMA PurgeInitKeeps == PurgeInit => PurgeInv
<1> SUFFICES ASSUME PurgeInit PROVE PurgeInv
  OBVIOUS
<1> USE DEF PurgeInit
<1>1. PurgeTypeOK
  <2>1. scripts \in 0..MaxScripts
    BY PurgeAssumption
  <2>2. catalog \in BOOLEAN /\ files \in BOOLEAN /\ located \in BOOLEAN /\ engine \in BOOLEAN
    OBVIOUS
  <2>3. purge \in [Operators -> [pc : {"idle", "look", "scorer", "confirm", "drop", "files", "artifacts"},
                                have : BOOLEAN, wants : BOOLEAN, knew : BOOLEAN,
                                ended : {"never", "running", "died", "nothing", "purged"}]]
    OBVIOUS
  <2>4. others \in BOOLEAN /\ artifacts \in BOOLEAN /\ saved \in BOOLEAN /\ job \in BOOLEAN
    OBVIOUS
  <2>5. QED
    BY <2>1, <2>2, <2>3, <2>4 DEF PurgeTypeOK
<1>2. CatalogNamesFiles
  BY DEF CatalogNamesFiles
<1>3. OtherTablesStay
  BY DEF OtherTablesStay
<1>4. ASSUME NEW p \in Operators PROVE Progress(p)
  BY DEF Progress, Idle
<1>5. QED
  BY <1>1, <1>2, <1>3, <1>4 DEF PurgeInv

(* The scripts beside the purges change no purge's record.                 *)
LEMMA OthersKeep ==
  ASSUME PurgeInv, LaunchScorer \/ EngineCommits \/ ScorerPodUploads \/ ScorerPodEnds \/ StopScorer \/ SaveDocument
  PROVE  PurgeInv'
<1> USE DEF PurgeInv, store, cluster, Start
<1>1. CASE LaunchScorer
  BY <1>1, PurgeAssumption DEF LaunchScorer, PurgeTypeOK, CatalogNamesFiles, OtherTablesStay, Progress, Idle
<1>2. CASE EngineCommits
  BY <1>2 DEF EngineCommits, PurgeTypeOK, CatalogNamesFiles, OtherTablesStay, Progress, Idle
<1>3. CASE ScorerPodUploads
  BY <1>3 DEF ScorerPodUploads, PurgeTypeOK, CatalogNamesFiles, OtherTablesStay, Progress, Idle
<1>4. CASE ScorerPodEnds
  BY <1>4 DEF ScorerPodEnds, PurgeTypeOK, CatalogNamesFiles, OtherTablesStay, Progress, Idle
<1>5. CASE StopScorer
  <2>1. scorerPod' \in {"none", "running", "stopping"}
    BY <1>5 DEF StopScorer, ScorerActive, PurgeTypeOK
  <2>2. scripts' \in 0..MaxScripts
    BY <1>5, PurgeAssumption DEF StopScorer, PurgeTypeOK
  <2>3. /\ job' = FALSE /\ engine' = FALSE /\ down' = "metadata"
        /\ UNCHANGED <<catalog, files, located, others, artifacts, saved, purge>>
    BY <1>5 DEF StopScorer
  <2>4. PurgeTypeOK'
    BY <2>1, <2>2, <2>3 DEF PurgeTypeOK
  <2>5. CatalogNamesFiles' /\ OtherTablesStay' /\ \A p \in Operators : Progress(p)'
    BY <2>3 DEF CatalogNamesFiles, OtherTablesStay, Progress, Idle
  <2>6. QED
    BY <2>4, <2>5
<1>6. CASE SaveDocument
  BY <1>6 DEF SaveDocument, PurgeTypeOK, CatalogNamesFiles, OtherTablesStay, Progress, Idle
<1>7. QED
  BY <1>1, <1>2, <1>3, <1>4, <1>5, <1>6

(* A purge's step leaves the records of the other purges true: it only     *)
(* takes the entry and the files away, and no engine is there.             *)
LEMMA Elsewhere ==
  ASSUME PurgeInv, NEW p \in Operators, NEW q \in Operators, q # p,
         purge'[q] = purge[q], UNCHANGED <<engine, saved, located>>,
         catalog' => catalog, files' => files
  PROVE  Progress(q)'
BY DEF PurgeInv, Progress, Idle, PurgeTypeOK

(* A purge that looks has found a table of its own, or none.               *)
LEMMA LookKeeps ==
  ASSUME PurgeInv, NEW p \in Operators, FindTable(p)
  PROVE  PurgeInv'
<1> USE DEF PurgeInv, FindTable, store, Keep, At
<1>1. /\ \/ purge' = [purge EXCEPT ![p].pc = "scorer", ![p].have = TRUE] /\ located
         \/ purge' = [purge EXCEPT ![p].pc = "scorer", ![p].have = FALSE] /\ ~saved
         \/ purge' = [purge EXCEPT ![p].pc = "idle", ![p].ended = "died"]
      /\ UNCHANGED <<catalog, files, others, located, artifacts, engine, saved, job, scorerPod, down, scripts>>
  BY DEF Found, End, cluster
<1>2. PurgeTypeOK' /\ CatalogNamesFiles' /\ OtherTablesStay'
  BY <1>1 DEF PurgeTypeOK, CatalogNamesFiles, OtherTablesStay
<1>3. Progress(p)'
  BY <1>1 DEF Progress, Idle, PurgeTypeOK
<1>4. ASSUME NEW q \in Operators, q # p PROVE Progress(q)'
  BY <1>1, <1>4, Elsewhere DEF PurgeTypeOK
<1>5. QED
  BY <1>2, <1>3, <1>4

(* Nothing is removed before the operator has confirmed.                   *)
LEMMA AskKeeps ==
  ASSUME PurgeInv, NEW p \in Operators, CheckScorer(p) \/ Confirm(p)
  PROVE  PurgeInv'
<1> USE DEF PurgeInv, CheckScorer, Confirm, store, Keep, At
<1>1. /\ \/ purge' = [purge EXCEPT ![p].pc = "idle", ![p].ended = "died"]
         \/ /\ purge' = [purge EXCEPT ![p].pc = "idle", ![p].ended = "nothing"]
            /\ ~purge[p].have /\ purge[p].pc = "scorer"
         \/ purge' = [purge EXCEPT ![p].pc = "confirm"] /\ purge[p].pc = "scorer"
         \/ purge' = [purge EXCEPT ![p].pc = "drop"] /\ purge[p].have
         \/ /\ purge' = [purge EXCEPT ![p].pc = "artifacts"]
            /\ ~purge[p].have /\ purge[p].pc = "confirm"
      /\ UNCHANGED <<catalog, files, others, located, artifacts, engine, saved, job, scorerPod, down, scripts>>
      /\ purge[p].pc \in {"scorer", "confirm"}
  BY DEF Advance, End, cluster
<1>2. PurgeTypeOK' /\ CatalogNamesFiles' /\ OtherTablesStay'
  BY <1>1 DEF PurgeTypeOK, CatalogNamesFiles, OtherTablesStay
<1>3. Progress(p)'
  BY <1>1 DEF Progress, Idle, PurgeTypeOK
<1>4. ASSUME NEW q \in Operators, q # p PROVE Progress(q)'
  BY <1>1, <1>4, Elsewhere DEF PurgeTypeOK
<1>5. QED
  BY <1>2, <1>3, <1>4

LEMMA PurgeBeginKeeps ==
  ASSUME PurgeInv, NEW p \in Operators, NEW wants \in BOOLEAN, BeginPurge(p, wants)
  PROVE  PurgeInv'
<1> USE DEF PurgeInv, BeginPurge, store, cluster, Start
<1>1. PurgeTypeOK' /\ CatalogNamesFiles' /\ OtherTablesStay'
  BY PurgeAssumption DEF PurgeTypeOK, CatalogNamesFiles, OtherTablesStay
<1>2. Progress(p)'
  BY DEF Progress, Idle, PurgeTypeOK
<1>3. ASSUME NEW q \in Operators, q # p PROVE Progress(q)'
  BY <1>3, Elsewhere DEF PurgeTypeOK
<1>4. QED
  BY <1>1, <1>2, <1>3

LEMMA DropTableKeeps ==
  ASSUME PurgeInv, NEW p \in Operators, DropTable(p)
  PROVE  PurgeInv'
<1> USE DEF PurgeInv, DropTable, Keep, At
<1>1. /\ \/ /\ catalog' = FALSE
            /\ \/ purge' = [purge EXCEPT ![p].pc = "files"]
               \/ purge' = [purge EXCEPT ![p].pc = "idle", ![p].ended = "died"]
         \/ catalog' = catalog /\ purge' = [purge EXCEPT ![p].pc = "idle", ![p].ended = "died"]
      /\ UNCHANGED <<files, others, artifacts, located, engine, saved, job, scorerPod, down, scripts>>
      /\ purge[p].pc = "drop"
  BY DEF Advance, End, cluster
<1>2. PurgeTypeOK' /\ CatalogNamesFiles' /\ OtherTablesStay'
  <2>1. catalog' \in BOOLEAN /\ files' \in BOOLEAN /\ others' \in BOOLEAN /\ artifacts' \in BOOLEAN
    BY <1>1 DEF PurgeTypeOK
  <2>2. purge' \in [Operators -> [pc : {"idle", "look", "scorer", "confirm", "drop", "files", "artifacts"},
                                   have : BOOLEAN, wants : BOOLEAN, knew : BOOLEAN,
                                   ended : {"never", "running", "died", "nothing", "purged"}]]
    BY <1>1 DEF PurgeTypeOK
  <2>3. PurgeTypeOK'
    BY <1>1, <2>1, <2>2 DEF PurgeTypeOK
  <2>4. CatalogNamesFiles'
    <3>1. (catalog' = FALSE \/ catalog' = catalog) /\ files' = files
      BY <1>1
    <3>2. CatalogNamesFiles
      OBVIOUS
    <3>3. catalog' => catalog
      <4>1. CASE catalog' = FALSE
        BY <4>1
      <4>2. CASE catalog' = catalog
        BY <4>2
      <4>3. QED
        BY <3>1, <4>1, <4>2
    <3>4. QED
      BY <3>1, <3>2, <3>3 DEF CatalogNamesFiles
  <2>5. OtherTablesStay'
    BY <1>1 DEF OtherTablesStay
  <2>6. QED
    BY <2>3, <2>4, <2>5
<1>3. Progress(p)'
  BY <1>1 DEF Progress, Idle, PurgeTypeOK
<1>4. ASSUME NEW q \in Operators, q # p PROVE Progress(q)'
  BY <1>1, <1>4, Elsewhere DEF PurgeTypeOK
<1>5. QED
  BY <1>2, <1>3, <1>4

(* The entry is gone when the files are removed, and they are this run's.  *)
LEMMA RemoveFilesKeeps ==
  ASSUME PurgeInv, NEW p \in Operators, RemoveFiles(p)
  PROVE  PurgeInv'
<1> USE DEF PurgeInv, RemoveFiles, Keep, At
<1>0. purge \in PurgeRecords
  BY DEF PurgeTypeOK, PurgeRecords
<1>1. /\ \/ /\ files' = FALSE
            /\ \/ purge' = [purge EXCEPT ![p].pc = "artifacts"]
               \/ purge' = [purge EXCEPT ![p].pc = "idle", ![p].ended = "purged"]
         \/ files' \in {files, FALSE} /\ purge' = [purge EXCEPT ![p].pc = "idle", ![p].ended = "died"]
      /\ UNCHANGED <<catalog, artifacts, located, engine, saved, job, scorerPod, down, scripts>>
      /\ purge[p].pc = "files" /\ others' = (others /\ located)
  BY DEF Purged, Advance, End, cluster
<1>2. ~catalog /\ located /\ ~engine
  BY <1>1 DEF Progress, Idle
<1>3. PurgeTypeOK' /\ CatalogNamesFiles' /\ OtherTablesStay'
  <2>1. catalog' \in BOOLEAN /\ files' \in BOOLEAN /\ others' \in BOOLEAN /\ artifacts' \in BOOLEAN
    BY <1>1, <1>2 DEF PurgeTypeOK
  <2>2. purge' \in [Operators -> [pc : {"idle", "look", "scorer", "confirm", "drop", "files", "artifacts"},
                                   have : BOOLEAN, wants : BOOLEAN, knew : BOOLEAN,
                                   ended : {"never", "running", "died", "nothing", "purged"}]]
    <3>1. CASE purge' = [purge EXCEPT ![p].pc = "artifacts"]
      BY <3>1 DEF PurgeTypeOK
    <3>2. CASE purge' = [purge EXCEPT ![p].pc = "idle", ![p].ended = "purged"]
      BY <1>0, <3>2, EndedRecord DEF PurgeRecords
    <3>3. CASE purge' = [purge EXCEPT ![p].pc = "idle", ![p].ended = "died"]
      BY <1>0, <3>3, EndedRecord DEF PurgeRecords
    <3>4. QED
      BY <1>1, <3>1, <3>2, <3>3
  <2>3. PurgeTypeOK'
    BY <1>1, <1>2, <2>1, <2>2 DEF PurgeTypeOK
  <2>4. CatalogNamesFiles'
    BY <1>1, <1>2 DEF CatalogNamesFiles
  <2>5. OtherTablesStay'
    BY <1>1, <1>2 DEF OtherTablesStay
  <2>6. QED
    BY <2>3, <2>4, <2>5
<1>4. Progress(p)'
  <2>1. purge'[p].have = purge[p].have /\ purge'[p].knew = purge[p].knew /\ Progress(p)
    <3>1. CASE purge' = [purge EXCEPT ![p].pc = "artifacts"]
      BY <1>0, <3>1 DEF PurgeRecords
    <3>2. CASE purge' = [purge EXCEPT ![p].pc = "idle", ![p].ended = "purged"]
      BY <1>0, <3>2, EndedRecord
    <3>3. CASE purge' = [purge EXCEPT ![p].pc = "idle", ![p].ended = "died"]
      BY <1>0, <3>3, EndedRecord
    <3>4. QED
      BY <1>1, <3>1, <3>2, <3>3
  <2>2. CASE purge'[p].pc = "artifacts" /\ purge'[p].ended = purge[p].ended /\ files' = FALSE
    BY <1>1, <1>2, <2>1, <2>2 DEF Progress, Idle
  <2>3. CASE purge'[p].pc = "idle" /\ purge'[p].ended = "purged" /\ files' = FALSE
    BY <1>1, <1>2, <2>1, <2>3 DEF Progress, Idle
  <2>4. CASE purge'[p].pc = "idle" /\ purge'[p].ended = "died"
    BY <1>1, <1>2, <2>1, <2>4 DEF Progress, Idle
  <2>5. CASE purge' = [purge EXCEPT ![p].pc = "artifacts"] /\ files' = FALSE
    <3>1. purge'[p].pc = "artifacts" /\ purge'[p].ended = purge[p].ended
      BY <2>5 DEF PurgeTypeOK
    <3>2. QED
      BY <2>2, <2>5, <3>1
  <2>6. CASE purge' = [purge EXCEPT ![p].pc = "idle", ![p].ended = "purged"] /\ files' = FALSE
    <3>1. purge'[p].pc = "idle" /\ purge'[p].ended = "purged"
      BY <1>0, <2>6, EndedRecord
    <3>2. QED
      BY <2>3, <2>6, <3>1
  <2>7. CASE purge' = [purge EXCEPT ![p].pc = "idle", ![p].ended = "died"]
    <3>1. purge'[p].pc = "idle" /\ purge'[p].ended = "died"
      BY <1>0, <2>7, EndedRecord
    <3>2. QED
      BY <2>4, <3>1
  <2>8. QED
    BY <1>1, <2>5, <2>6, <2>7
<1>5. ASSUME NEW q \in Operators, q # p PROVE Progress(q)'
  <2>1. purge'[q] = purge[q] /\ UNCHANGED <<engine, saved, located, catalog>> /\ files' \in {files, FALSE}
    BY <1>1, <1>5 DEF PurgeTypeOK
  <2>2. files' => files
    <3>1. CASE files' = FALSE
      BY <3>1
    <3>2. CASE files' = files
      BY <3>2
    <3>3. QED
      BY <2>1, <3>1, <3>2
  <2>3. catalog' => catalog
    BY <2>1
  <2>4. QED
    BY <1>5, <2>1, <2>2, <2>3, Elsewhere
<1>6. QED
  BY <1>3, <1>4, <1>5

LEMMA RemoveArtifactsKeeps ==
  ASSUME PurgeInv, NEW p \in Operators, RemoveArtifacts(p)
  PROVE  PurgeInv'
<1> USE DEF PurgeInv, RemoveArtifacts, Keep, At
<1>1. /\ \/ purge' = [purge EXCEPT ![p].pc = "idle", ![p].ended = "purged"]
         \/ purge' = [purge EXCEPT ![p].pc = "idle", ![p].ended = "died"]
      /\ artifacts' \in {artifacts, FALSE}
      /\ UNCHANGED <<catalog, files, others, located, engine, saved, job, scorerPod, down, scripts>>
      /\ purge[p].pc = "artifacts"
  BY DEF End, cluster
<1>2. PurgeTypeOK' /\ CatalogNamesFiles' /\ OtherTablesStay'
  <2>1. catalog' \in BOOLEAN /\ files' \in BOOLEAN /\ others' \in BOOLEAN /\ artifacts' \in BOOLEAN
    BY <1>1 DEF PurgeTypeOK
  <2>2. purge' \in [Operators -> [pc : {"idle", "look", "scorer", "confirm", "drop", "files", "artifacts"},
                                   have : BOOLEAN, wants : BOOLEAN, knew : BOOLEAN,
                                   ended : {"never", "running", "died", "nothing", "purged"}]]
    BY <1>1 DEF PurgeTypeOK
  <2>3. PurgeTypeOK'
    BY <1>1, <2>1, <2>2 DEF PurgeTypeOK
  <2>4. CatalogNamesFiles'
    BY <1>1 DEF CatalogNamesFiles
  <2>5. OtherTablesStay'
    BY <1>1 DEF OtherTablesStay
  <2>6. QED
    BY <2>3, <2>4, <2>5
<1>3. Progress(p)'
  BY <1>1 DEF Progress, Idle, PurgeTypeOK
<1>4. ASSUME NEW q \in Operators, q # p PROVE Progress(q)'
  BY <1>1, <1>4, Elsewhere DEF PurgeTypeOK
<1>5. QED
  BY <1>2, <1>3, <1>4

LEMMA PurgeNextKeeps == PurgeInv /\ [PurgeNext]_purgeVars => PurgeInv'
<1> SUFFICES ASSUME PurgeInv, [PurgeNext]_purgeVars PROVE PurgeInv'
  OBVIOUS
<1>1. CASE LaunchScorer \/ EngineCommits \/ ScorerPodUploads \/ ScorerPodEnds \/ StopScorer \/ SaveDocument
  BY <1>1, OthersKeep
<1>2. ASSUME NEW p \in Operators, PurgeStep(p) PROVE PurgeInv'
  BY <1>2, PurgeBeginKeeps, LookKeeps, AskKeeps, DropTableKeeps, RemoveFilesKeeps, RemoveArtifactsKeeps
    DEF PurgeStep
<1>3. CASE UNCHANGED purgeVars
  BY <1>3 DEF purgeVars, store, cluster, PurgeInv, PurgeTypeOK, CatalogNamesFiles, OtherTablesStay, Progress, Idle
<1>4. QED
  BY <1>1, <1>2, <1>3 DEF PurgeNext

(* The strengthened invariant: each purge has done what its place says.    *)
THEOREM PurgeInvariant == PurgeSpec => []PurgeInv
BY PurgeInitKeeps, PurgeNextKeeps, PTL DEF PurgeSpec

(* Every variable keeps its type.                                          *)
THEOREM PurgeTypeCorrect == PurgeSpec => []PurgeTypeOK
<1>1. PurgeInv => PurgeTypeOK
  BY DEF PurgeInv
<1>2. QED
  BY PurgeInvariant, <1>1, PTL

(* A table that the catalog names has its files, whichever purges stop.    *)
THEOREM PurgeNamedIsWhole == PurgeSpec => []CatalogNamesFiles
<1>1. PurgeInv => CatalogNamesFiles
  BY DEF PurgeInv
<1>2. QED
  BY PurgeInvariant, <1>1, PTL

(* A purge that ends well for a run with a saved document leaves nothing.  *)
THEOREM PurgeSavedIsPurged == PurgeSpec => []SavedRunIsPurged
<1>1. PurgeInv => SavedRunIsPurged
  BY DEF PurgeInv, Progress, SavedRunIsPurged
<1>2. QED
  BY PurgeInvariant, <1>1, PTL

(* No purge touches the files of another table.                            *)
THEOREM PurgeOthersStay == PurgeSpec => []OtherTablesStay
<1>1. PurgeInv => OtherTablesStay
  BY DEF PurgeInv
<1>2. QED
  BY PurgeInvariant, <1>1, PTL
=============================================================================
