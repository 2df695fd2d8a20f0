----------------------------- MODULE MCScripts -----------------------------
(* Instances of the three modules of the operator's scripts, which share   *)
(* no state: a behaviour is one of RunDriver, of Launch or of Purge, and   *)
(* what the other two would change stays as it begins.                     *)
(*                                                                         *)
(* RunDriver: two breaches, seven ticks, a sleep of two, so that the last  *)
(* sleep is cut short.  Launch: two launches, the second at any time.      *)
(* Purge: two operators and five scripts.                                  *)
EXTENDS MCRunDriver, Launch, Purge

VARIABLE part

Here(p) == part = p /\ part' = p

InitScripts ==
  /\ part \in {"run", "launch", "purge"}
  /\ Init /\ LaunchInit /\ PurgeInit
  /\ part # "purge" => ~catalog /\ located /\ ~engine

NextScripts ==
  \/ Next /\ Here("run") /\ UNCHANGED <<launchVars, purgeVars>>
  \/ LaunchNext /\ Here("launch") /\ UNCHANGED <<vars, purgeVars>>
  \/ PurgeNext /\ Here("purge") /\ UNCHANGED <<vars, launchVars>>

scriptsVars == <<part, vars, launchVars, purgeVars>>

Scripts ==
  /\ InitScripts /\ [][NextScripts]_scriptsVars
  /\ WF_vars(Here("run") /\ Driver /\ UNCHANGED <<launchVars, purgeVars>>)
=============================================================================
