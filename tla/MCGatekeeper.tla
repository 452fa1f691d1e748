----------------------------- MODULE MCGatekeeper -----------------------------
(***************************************************************************)
(* Two instances of Gatekeeper for TLC, a behaviour being of one of them:   *)
(*   - "switch": two sites, Caddy and the machine staying up;               *)
(*   - "dark": one site, Caddy dying and the machine losing power as well;  *)
(* the other stays as it begins.                                            *)
(***************************************************************************)
EXTENDS Gatekeeper, TLC

CONSTANTS blog, shop

VARIABLES
    part,       \* the instance this behaviour is of
    darkDisk, darkCaddy, darkPages, darkReloads, darkBackup, darkPc, darkJob, darkResult

dark == <<darkDisk, darkCaddy, darkPages, darkReloads, darkBackup, darkPc, darkJob, darkResult>>

Dark == INSTANCE Gatekeeper WITH
            Site <- {blog}, Crashes <- TRUE, PowerCuts <- TRUE,
            disk <- darkDisk, caddy <- darkCaddy, pages <- darkPages, reloads <- darkReloads,
            backup <- darkBackup, pc <- darkPc, job <- darkJob, result <- darkResult

MCInit == part \in {"switch", "dark"} /\ Init /\ Dark!Init

InSwitch == part = "switch" /\ Next      /\ UNCHANGED <<part, dark>>
InDark   == part = "dark"   /\ Dark!Next /\ UNCHANGED <<part, vars>>

MCSpec == MCInit /\ [][InSwitch \/ InDark]_<<part, vars, dark>>

(* OkServed where Caddy dies and the power goes: a change reported done is  *)
(* what Caddy serves, with the page of its door, at every later rest        *)
(* (gatekeeper/transaction.ts).                                             *)
OkServedInTheDark == Dark!OkServed

CodeSymmetry == Permutations(Code)
=============================================================================
