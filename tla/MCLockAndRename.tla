--------------------------- MODULE MCLockAndRename ---------------------------
(***************************************************************************)
(* Instances of CaddyLock and of Rename for TLC, which share nothing: a     *)
(* behaviour is of one, the other stays as it begins.  The fairness is that *)
(* of the two specifications, each where its part is.                       *)
(***************************************************************************)
EXTENDS MCCaddyLock, Rename

VARIABLE part   \* the module this behaviour is of

MCInit ==
    /\ part \in {"lock", "rename"} /\ Init /\ RenameInit
    /\ part = "lock" => kind = "public" /\ owns = {}

InLock   == part = "lock"   /\ Next       /\ UNCHANGED <<part, renameVars>>
InRename == part = "rename" /\ RenameNext /\ UNCHANGED <<part, vars>>

MCSpec ==
    /\ MCInit /\ [][InLock \/ InRename]_<<part, vars, renameVars>>
    /\ \A r \in Run : WF_vars(part = "lock" /\ (Step(r) \/ WriteFails(r)))
    /\ WF_renameVars(part = "rename" /\ RunGoesOn)
    /\ WF_renameVars(part = "rename" /\ Steward)
    /\ WF_renameVars(part = "rename" /\ Ask /\ ~told)
==============================================================================
