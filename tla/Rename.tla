-------------------------------- MODULE Rename --------------------------------
(***************************************************************************)
(* A project renamed: the run that moves on the machine everything its name *)
(* From names to To, and puts it back at the first failure (runRename in    *)
(* dashboard/src/installer/rename.ts), and the steward that asks for it,    *)
(* then re-keys its registries (renameProject in                            *)
(* dashboard/src/control/steward.ts).  The locks on Caddy and on the        *)
(* backups, which the run holds throughout, are CaddyLock's and Restore's;  *)
(* claims, tokens' scopes and deployments are left out.  Nobody renames the *)
(* project back.                                                            *)
(***************************************************************************)
EXTENDS Naturals, Sequences, Functions

CONSTANTS
    From, To,    \* the current name and the new one
    Doors,       \* the kinds of project considered, among Kinds
    MaxFaults,   \* how many steps may fail
    MaxStops     \* how many times the run, the steward or the machine may stop

\* An app, a static site behind the portal, a static site open to everyone.
Kinds == {"app", "protected", "public"}
Names == {From, To}

ASSUME NamesAssumption == From # To
ASSUME DoorsAssumption == Doors \subseteq Kinds
ASSUME BoundsAssumption == MaxFaults \in Nat /\ MaxStops \in Nat

(* What a name names on the machine: the services that run, those enabled   *)
(* at boot, the unit files and their drop-ins, the account, Caddy's block,  *)
(* the tree, the store of secrets, the slug written in the manifest, which  *)
(* lies in the tree, and the domain's line in the table.                    *)
Things == {"services", "enabled", "units", "dropIns", "account", "block", "tree", "store", "manifest", "table"}

VARIABLES
    kind,       \* what the project is
    at,         \* at[x]: the names x exists under
    loaded,     \* the names whose block Caddy has loaded
    backup,     \* is the gatekeeper's backup of From in /run?
    run,        \* the last run of sitesolide-rename@From, or the one under way
    route,      \* the steward's request
    turn,       \* the settlement of names, in the tokens' queue: the names it has found gone
    owns,       \* the names a token owns, in the tokens' registry
    people,     \* the names people have access to, in the access registry
    told,       \* has the owner been told that the project is renamed?
    faults, stops, rebooted

machine == <<kind, at, loaded, backup>>
registries == <<owns, people>>
renameVars == <<machine, run, route, turn, registries, told, faults, stops, rebooted>>

Idle == [pc |-> "idle", todo |-> {}, undos |-> <<>>, failed |-> FALSE, reloaded |-> FALSE, ok |-> FALSE, mine |-> FALSE]
NoTurn == [open |-> FALSE, gone |-> {}]

\* The project is whole under one name; x runs, or not, by its kind.
Has(k) == CASE k = "app" -> Things [] k = "protected" -> {"block", "tree", "store", "manifest", "table"}
            [] k = "public" -> {"tree", "store", "manifest", "table"}

RenameInit ==
    /\ kind \in Doors
    /\ at = [x \in Things |-> IF x \in Has(kind) THEN {From} ELSE {}]
    /\ loaded = at["block"]
    /\ backup = FALSE
    /\ run = Idle
    /\ route = "idle"
    /\ turn = NoTurn
    /\ owns \in {{From}, {}}
    /\ people = {From}
    /\ told = FALSE
    /\ faults = 0 /\ stops = 0 /\ rebooted = FALSE

Fault == faults < MaxFaults /\ faults' = faults + 1
Stop == stops < MaxStops /\ stops' = stops + 1

------------------------------------------------------------------------------
(* The steps, in the order of the run, and their way back *)

\* What a step takes away under From, and what it makes under To.
Takes(s) ==
    CASE s = "stop"      -> {"services", "enabled"}
      [] s = "setAside"  -> {"units"}
      [] s = "dropBlock" -> {"block"}
      [] s \in {"dropIns", "account", "tree", "store", "manifest", "table"} -> {s}
      [] OTHER           -> {}
Gives(s) ==
    CASE s = "layBlock"  -> {"block"}
      [] s = "layUnits"  -> {"units"}
      [] s = "enable"    -> {"enabled"}
      [] s = "start"     -> {"services"}
      [] s \in {"dropIns", "account", "tree", "store", "manifest", "table"} -> {s}
      [] OTHER           -> {}

(* Slip: the folder is moved, and the block that closes it laid behind it.  *)
StepsFolderFirst ==
    <<"stop", "setAside", "dropIns", "account", "tree", "layBlock", "store", "manifest",
      "layUnits", "enable", "dropBlock", "table", "validate", "reload", "start", "verify">>
AllSteps ==
    <<"stop", "setAside", "dropIns", "account", "layBlock", "tree", "store", "manifest",
      "layUnits", "enable", "dropBlock", "table", "validate", "reload", "start", "verify">>

\* The steps of this run, by what the machine carries under From.
Applies(s) ==
    CASE s \in {"stop", "setAside", "dropIns"} -> From \in at["units"]
      [] s \in {"account", "store"}            -> From \in at[s]
      [] s = "layBlock"                        -> kind # "public"
      [] s = "dropBlock"                       -> From \in at["block"]
      [] s \in {"layUnits", "enable", "start"} -> kind = "app"
      [] OTHER                                 -> TRUE
Steps == {s \in Range(AllSteps) : Applies(s)}

\* The step that comes first among those left to do.
NextStep(s) == \E i \in DOMAIN AllSteps : s = AllSteps[i] /\ s \in run.todo /\ \A j \in 1..i - 1 : AllSteps[j] \notin run.todo

\* The way back a step notes; none for the last ones, whose effects the others undo.
Notes(s) ==
    CASE s = "stop"     -> <<"restart">>
      [] s = "setAside" -> <<"units">>
      [] s = "layBlock" -> <<IF From \in at["block"] THEN "blocks" ELSE "newBlock">>
      [] s = "layUnits" -> <<"newUnits">>
      [] s \in {"dropIns", "account", "tree", "store", "manifest", "table"} -> <<s>>
      [] OTHER          -> <<>>

Ways == {"restart", "units", "dropIns", "account", "blocks", "newBlock", "tree", "store", "manifest", "newUnits", "table"}

(* Noted before the step is tried, so that a step that fails half way is    *)
(* undone; the others are one rename, or undo themselves, when they fail.   *)
(* Slip: the unit files' way back noted once all of them are removed.       *)
NotedOnceRemoved == {"stop", "layBlock", "manifest", "layUnits", "table"}
NotedBefore == {"stop", "setAside", "layBlock", "manifest", "layUnits", "table"}

Moved(lost, given) == [x \in Things |-> (at[x] \ (IF x \in lost THEN {From} ELSE {})) \cup (IF x \in given THEN {To} ELSE {})]
Back(lost, given)  == [x \in Things |-> (at[x] \ (IF x \in lost THEN {To} ELSE {})) \cup (IF x \in given THEN {From} ELSE {})]

\* The run's checks, under both locks: From whole enough, To nowhere.
Refused ==
    \/ From \notin at["tree"] \/ at["manifest"] # {From}
    \/ \E x \in {"account", "tree", "store", "units", "block"} : To \in at[x]
    \/ backup

------------------------------------------------------------------------------
(* The run *)

Checked ==
    /\ run.pc = "checks" /\ ~Refused
    /\ backup' = TRUE
    /\ run' = [Idle EXCEPT !.pc = "out", !.todo = Steps, !.mine = run.mine]
    /\ UNCHANGED <<kind, at, loaded, route, turn, registries, faults, stops, rebooted, told>>

\* Refused, or a lock still held, or Caddy not well: nothing was changed.
CheckFails ==
    /\ run.pc = "checks"
    /\ IF Refused THEN UNCHANGED faults ELSE Fault
    /\ run' = [run EXCEPT !.pc = "idle"]
    /\ UNCHANGED <<machine, route, turn, registries, stops, rebooted, told>>

Takeable(s) == s # "account" \/ From \notin at["services"]

TakeStep ==
    /\ run.pc = "out"
    /\ \E s \in run.todo :
         /\ NextStep(s) /\ Takeable(s)
         /\ at' = Moved(Takes(s), Gives(s))
         /\ loaded' = IF s = "reload" THEN at["block"] ELSE loaded
         /\ run' = [run EXCEPT !.todo = @ \ {s}, !.undos = Notes(s) \o @, !.reloaded = @ \/ s = "reload"]
    /\ UNCHANGED <<kind, backup, route, turn, registries, faults, stops, rebooted, told>>

\* A step fails: any part of its effect may be there, unless it is one rename.
StepFails ==
    /\ run.pc = "out" /\ Fault
    /\ \E s \in run.todo :
         LET undos == (IF s \in NotedBefore THEN Notes(s) ELSE <<>>) \o run.undos IN
           /\ NextStep(s)
           /\ IF s \in {"dropIns", "account", "tree", "store"} THEN UNCHANGED at
              ELSE IF s = "manifest" THEN at' \in {at, Moved({s}, {s})}
              ELSE \E lost \in SUBSET Takes(s), given \in SUBSET Gives(s) : at' = Moved(lost, given)
           /\ loaded' \in (IF s = "reload" THEN {at["block"]} ELSE {}) \cup {loaded}
           /\ run' = [run EXCEPT !.pc = IF undos = <<>> THEN "idle" ELSE "back", !.todo = {}, !.undos = undos,
                                 !.reloaded = @ \/ s = "reload"]
           /\ backup' = (undos # <<>>)
    /\ UNCHANGED <<kind, route, turn, registries, stops, rebooted, told>>

Succeeds ==
    /\ run.pc = "out" /\ run.todo = {}
    /\ backup' = FALSE
    /\ run' = [run EXCEPT !.pc = "idle", !.undos = <<>>, !.ok = TRUE]
    /\ UNCHANGED <<kind, at, loaded, route, turn, registries, faults, stops, rebooted, told>>

Undone(u) ==
    CASE u = "restart"  -> Back({}, {"services", "enabled"})
      [] u = "units"    -> Back({}, {"units"})
      [] u = "blocks"   -> Back({"block"}, {"block"})
      [] u = "newBlock" -> Back({"block"}, {})
      [] u = "newUnits" -> Back({"units", "enabled"}, {})
      [] OTHER          -> Back({u}, {u})

Undo ==
    /\ run.pc = "back" /\ run.undos # <<>>
    /\ LET u == Head(run.undos) IN
         /\ u = "account" => To \notin at["services"]
         /\ at' = Undone(u)
         /\ run' = [run EXCEPT !.undos = Tail(@)]
    /\ UNCHANGED <<kind, loaded, backup, route, turn, registries, faults, stops, rebooted, told>>

(* A way back fails, or does half: the others are tried all the same.  The  *)
(* account of a service that still runs under its new name is refused.      *)
(* What systemctl answers to the restart is not looked at.                  *)
UndoFails ==
    /\ run.pc = "back" /\ run.undos # <<>>
    /\ LET u == Head(run.undos) IN
         /\ IF u = "account" /\ To \in at["services"] THEN UNCHANGED faults ELSE Fault
         /\ at' \in CASE u = "restart"  -> {Back({}, given) : given \in SUBSET {"services", "enabled"}}
                      [] u = "blocks"   -> {at, Back({"block"}, {})}
                      [] u = "newUnits" -> {at, Back({"units"}, {}), Back({"enabled"}, {})}
                      [] OTHER          -> {at}
         /\ run' = [run EXCEPT !.undos = Tail(@), !.failed = @ \/ u # "restart"]
    /\ UNCHANGED <<kind, loaded, backup, route, turn, registries, stops, rebooted, told>>

\* reloadRestored, then the backup removed unless something failed.
ReloadRestored ==
    /\ run.pc = "back" /\ run.undos = <<>>
    /\ loaded' = IF run.reloaded THEN at["block"] ELSE loaded
    /\ backup' = run.failed
    /\ run' = [run EXCEPT !.pc = "idle"]
    /\ UNCHANGED <<kind, at, route, turn, registries, faults, stops, rebooted, told>>

ReloadFails ==
    /\ run.pc = "back" /\ run.undos = <<>> /\ Fault
    /\ run' = [run EXCEPT !.pc = "idle", !.failed = TRUE]
    /\ UNCHANGED <<machine, route, turn, registries, stops, rebooted, told>>

\* systemd stops the run, past its ten minutes or its memory.
RunKilled ==
    /\ run.pc # "idle" /\ Stop
    /\ run' = [run EXCEPT !.pc = "idle"]
    /\ UNCHANGED <<machine, route, turn, registries, faults, rebooted, told>>

------------------------------------------------------------------------------
(* The steward *)

(* Renamed on the machine already, by a run whose answer the steward never  *)
(* got to: no manifest under From, and To's names it among its former ones. *)
(* Slip: the steward only follows a run it has just waited for.             *)
DoneNever == FALSE
Done == From \notin at["tree"] /\ at["tree"] = {To} /\ at["manifest"] = {To}

\* The owner asks, or asks again. Refused, the request changes nothing: it is
\* not a step.
Ask ==
    /\ route = "idle"
    /\ \/ Done /\ route' = "team"
       \/ ~Done /\ From \in at["tree"] /\ at["manifest"] = {From} /\ To \notin at["tree"] /\ route' = "start"
    /\ UNCHANGED <<machine, run, turn, registries, faults, stops, rebooted, told>>

\* systemctl start: a new run, or one more to wait for the run under way.
StartRun ==
    /\ route = "start" /\ route' = "wait"
    /\ run' = IF run.pc = "idle" THEN [run EXCEPT !.pc = "checks", !.ok = FALSE, !.mine = TRUE] ELSE [run EXCEPT !.mine = FALSE]
    /\ UNCHANGED <<machine, turn, registries, faults, stops, rebooted, told>>

\* judgeRenameResult: the result of this request alone, once the run has ended.
RunJudged ==
    /\ route = "wait" /\ run.pc = "idle"
    /\ route' = IF run.mine /\ run.ok THEN "team" ELSE "idle"
    /\ UNCHANGED <<machine, run, turn, registries, faults, stops, rebooted, told>>

Renamed(names) == IF From \in names THEN {To} ELSE names

TeamFollows ==
    /\ route = "team" /\ ~turn.open
    /\ \/ owns' = Renamed(owns) /\ route' = "people" /\ UNCHANGED faults
       \/ Fault /\ route' = "idle" /\ UNCHANGED owns
    /\ UNCHANGED <<machine, run, turn, people, stops, rebooted, told>>

\* renameProject of the access registry: whatever To held is replaced by what From holds.
PeopleFollow ==
    /\ route = "people"
    /\ \/ people' = (IF From \in people THEN {To} ELSE {}) /\ route' = "answer" /\ UNCHANGED faults
       \/ Fault /\ route' = "idle" /\ UNCHANGED people
    /\ UNCHANGED <<machine, run, turn, owns, stops, rebooted, told>>

(* The answer, once everything has followed: heard, unless its caller gave  *)
(* up, which the wait for the run is long enough for.                       *)
Answer ==
    /\ route = "answer" /\ route' = "idle"
    /\ told' \in {told, TRUE}
    /\ UNCHANGED <<machine, run, turn, registries, faults, stops, rebooted>>

\* settleNames, in the tokens' queue: what it finds on no machine is let go.
SettlementReads ==
    /\ ~turn.open
    /\ owns \ at["tree"] # {}
    /\ turn' = [open |-> TRUE, gone |-> owns \ at["tree"]]
    /\ UNCHANGED <<machine, run, route, registries, faults, stops, rebooted, told>>

SettlementWrites ==
    /\ turn.open /\ turn' = NoTurn
    /\ owns' = owns \ turn.gone
    /\ UNCHANGED <<machine, run, route, people, faults, stops, rebooted, told>>

\* The run, a unit of its own, goes on.
StewardStops ==
    /\ (route # "idle" \/ turn.open) /\ Stop
    /\ route' = "idle" /\ turn' = NoTurn
    /\ UNCHANGED <<machine, run, registries, faults, rebooted, told>>

\* /run is emptied, Caddy reads what is on the disk, what is enabled and whole starts.
Reboot ==
    /\ Stop
    /\ run' = [run EXCEPT !.pc = "idle", !.ok = FALSE]
    /\ route' = "idle" /\ turn' = NoTurn
    /\ backup' = FALSE
    /\ loaded' = at["block"]
    /\ at' = [at EXCEPT !["services"] = at["enabled"] \cap at["units"] \cap at["account"] \cap at["tree"]]
    /\ rebooted' = (rebooted \/ run.pc \in {"out", "back"} \/ backup)
    /\ UNCHANGED <<kind, registries, faults, told>>

RunGoesOn == Checked \/ CheckFails \/ TakeStep \/ StepFails \/ Succeeds \/ Undo \/ UndoFails \/ ReloadRestored \/ ReloadFails
Steward == StartRun \/ RunJudged \/ TeamFollows \/ PeopleFollow \/ Answer \/ SettlementWrites
RenameNext == RunGoesOn \/ RunKilled \/ Ask \/ Steward \/ SettlementReads \/ StewardStops \/ Reboot

RenameSpec == RenameInit /\ [][RenameNext]_renameVars

(* The run and the steward go on; the owner who was told of no success asks *)
(* again.                                                                   *)
FairSpec == RenameSpec /\ WF_renameVars(RunGoesOn) /\ WF_renameVars(Steward) /\ WF_renameVars(Ask /\ ~told)

------------------------------------------------------------------------------
Running ==
    [pc : {"idle", "checks", "out", "back"}, todo : SUBSET Range(AllSteps), undos : Seq(Ways),
     failed : BOOLEAN, reloaded : BOOLEAN, ok : BOOLEAN, mine : BOOLEAN]

RenameTypeOK ==
    /\ kind \in Kinds
    /\ at \in [Things -> SUBSET Names] /\ loaded \subseteq Names /\ backup \in BOOLEAN
    /\ run \in Running
    /\ route \in {"idle", "start", "wait", "team", "people", "answer"}
    /\ turn \in [open : BOOLEAN, gone : SUBSET Names]
    /\ owns \subseteq Names /\ people \subseteq Names /\ told \in BOOLEAN
    /\ faults \in 0..MaxFaults /\ stops \in 0..MaxStops /\ rebooted \in BOOLEAN

(* Everything is under one name, and Caddy serves it. The services of a     *)
(* project put back may not have started: nothing looks at it.              *)
Whole(n) ==
    /\ \A x \in Things \ {"services", "enabled"} : at[x] = IF x \in Has(kind) THEN {n} ELSE {}
    /\ at["services"] \subseteq {n} /\ at["enabled"] \cap at["units"] \subseteq {n}
    /\ loaded = at["block"]

(* A run that ends, succeeds, fails or is cut short anywhere leaves the     *)
(* project whole under one name, and never a part of it under the other,    *)
(* or the backup that makes every later change of access refuse until the   *)
(* owner has looked; only a restart of the machine meanwhile loses it       *)
(* (rename.ts:41-44, and the order in which undos are noted).               *)
SettledOrMarked == run.pc = "idle" => Whole(From) \/ Whole(To) \/ backup \/ rebooted

\* What the wildcard serves to anyone: a folder no block on the disk, nor in Caddy, closes.
Open(n) == kind # "public" /\ n \in at["tree"] /\ n \notin at["block"] /\ n \notin loaded

(* A project not open to everyone is served by the wildcard under neither   *)
(* of its names, at any step of the way there, nor of the way back as long  *)
(* as Caddy has not been reloaded under the new name and no step of the way *)
(* back has failed (rename.ts:359-362).                                     *)
ClosedOnTheWay == (\E n \in Names : Open(n)) => run.reloaded \/ run.failed \/ rebooted

(* Whatever stops on the way, a project found whole under its new name has  *)
(* in the end nobody and no token left under the name it left: the request, *)
(* asked again until its success is heard, finishes the registries          *)
(* (steward.ts:1484-1486).                                                  *)
RegistriesFollow == (run.pc = "idle" /\ Whole(To)) ~> From \notin owns \cup people

(* "Its people keep their roles" (steward.ts:1482), however often the       *)
(* request is asked: "it is safe to repeat" (steward.ts:1486).              *)
PeopleKept == people # {}
==============================================================================
