-------------------------- MODULE MCDeployAndRestore --------------------------
(***************************************************************************)
(* Instances of Deployments and of Restore for TLC, which share nothing: a  *)
(* behaviour is of one, the other stays as it begins.  The fairness is that *)
(* of the two specifications, each where its part is.                       *)
(***************************************************************************)
EXTENDS MCDeployments, Restore

VARIABLE part   \* the module this behaviour is of

MCInit ==
    /\ part \in {"deploy", "restore"} /\ Init /\ RestoreInit
    /\ part = "deploy" => on

InDeploy  == part = "deploy"  /\ Next        /\ UNCHANGED <<part, restoreVars>>
InRestore == part = "restore" /\ RestoreNext /\ UNCHANGED <<part, vars>>

DeployFairness ==
    /\ WF_vars(part = "deploy" /\ TickBegins)
    /\ WF_vars(part = "deploy" /\ TickEnds)
    /\ WF_vars(part = "deploy" /\ \E d \in Dep : TickAsks(d))
    /\ WF_vars(part = "deploy" /\ \E d \in Dep : TickJudges(d) \/ TickApplies(d))
    /\ \A d \in Dep : /\ WF_vars(part = "deploy" /\ (StewardStarts(d) \/ StewardRefuses(d)))
                      /\ WF_vars(part = "deploy" /\ InstallerMoves(d))
                      /\ WF_vars(part = "deploy" /\ TimePasses(d))
    /\ \A u \in Upload : WF_vars(part = "deploy" /\ (UploadAccepted(u) \/ UploadRefused(u)))

RestoresGoOn ==
    /\ WF_restoreVars(part = "restore" /\ restore)
    /\ WF_restoreVars(part = "restore" /\ repair)
    /\ WF_restoreVars(part = "restore" /\ afterRestore)
    /\ WF_restoreVars(part = "restore" /\ Locking("cleanup"))

MCSpec ==
    /\ MCInit /\ [][InDeploy \/ InRestore]_<<part, vars, restoreVars>>
    /\ DeployFairness /\ RestoresGoOn
==============================================================================
