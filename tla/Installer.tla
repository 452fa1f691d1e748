------------------------------ MODULE Installer ------------------------------
(***************************************************************************)
(* What changes a project on the machine: a token's deployment, run by the  *)
(* installer (dashboard/src/installer/pipeline.ts), the owner's deployment  *)
(* over SSH (deploy in bin/sitesolide.ts), a project turned off, turned on  *)
(* or removed (dashboard/src/installer/lifecycle.ts), and the gatekeeper,   *)
(* which changes the door.  They share the manifests, the trees, the units, *)
(* the accounts and the blocks of Caddy, and take the lock on Caddy         *)
(* (CaddyLock) only for a part of their steps: what each read before it may *)
(* be another's when it acts.  Projects are apps with public files.  What   *)
(* Gatekeeper details, a transaction on Caddy, is here two steps, the file  *)
(* written and Caddy reloaded, with a backup kept meanwhile.                *)
(***************************************************************************)
EXTENDS Naturals, Sequences

CONSTANTS
    Slugs,      \* the names of the projects
    Ports,      \* the service ports of the machine
    Bound       \* how many of each kind of run, and of faults, may happen: "undo" is a step of
                \* a way back that fails, "fault" a run killed or a restore of Caddy that fails

Kinds == {"token", "ssh", "life", "door", "fault", "undo"}

ASSUME PortsAssumption == Ports \subseteq Nat \ {0}
ASSUME BoundAssumption == Bound \in [Kinds -> Nat]

VARIABLES
    manifest,   \* /srv/sites/<slug>/sitesolide.json: its port, its door, turned off or not
    tree,       \* is /srv/sites/<slug> there?
    public,     \* its public files: "shown", "stale" if from before it was restricted, "aside"
    account,    \* is site-<slug> there?
    unit,       \* is its unit laid?
    running,    \* does its service run?
    block,      \* /etc/caddy/sites/<slug>.caddy
    loaded,     \* the block Caddy has loaded for it
    backup,     \* the projects whose backup is in /run: a change under way, or cut short
    lock,       \* who holds the lock on Caddy
    token,      \* the run of the installer, per project
    ssh,        \* the owner's deployment from a workstation, per project
    life,       \* the run that turns off, on, or removes, per project
    done        \* how many of each kind have begun

disk == <<manifest, tree, public, account, unit, block>>
vars == <<manifest, tree, public, account, unit, running, block, loaded, backup, lock, token, ssh, life, done>>

Nobody == <<"nobody">>
NoManifest == [port |-> 0, portal |-> FALSE, off |-> FALSE]
Blocks == {"none", "open", "closed", "off"}

Deposited == {s \in Slugs : manifest[s] # NoManifest}

\* takenPorts, and what portConflicts holds against a manifest.
Taken(s) == {manifest[t].port : t \in Deposited \ {s}}

\* generateFragment and disabledFragment: the block a manifest asks for.
OwnBlock(m) == IF m.off THEN "off" ELSE IF m.portal THEN "closed" ELSE "open"

(***************************************************************************)
(* What a visitor of <slug>.<zone> is given: its block, when Caddy has      *)
(* loaded one; otherwise the wildcard, which refuses a name whose block is  *)
(* on the disk, at the time of the request, and serves its public folder.   *)
(***************************************************************************)
Served(s) ==
    IF loaded[s] # "none" THEN loaded[s]
    ELSE IF block[s] = "none" /\ "shown" \in public[s] THEN "files"
    ELSE "refused"

------------------------------------------------------------------------------
NoToken == [pc |-> "idle", creating |-> FALSE, port |-> 0, door |-> FALSE, made |-> {}, was |-> "none"]
NoShell == [pc |-> "idle", port |-> 0, door |-> FALSE]
NoLife  == [pc |-> "idle", action |-> "disable", was |-> "none", undos |-> <<>>,
            tried |-> FALSE, failed |-> FALSE]

\* Each project is absent, live behind its door, or off; nothing under way.
Init ==
    /\ manifest \in {m \in [Slugs -> {NoManifest} \cup [port : Ports, portal : BOOLEAN, off : BOOLEAN]] :
                        \A s, t \in Slugs : s # t /\ m[s] # NoManifest => m[s].port # m[t].port}
    /\ tree = [s \in Slugs |-> s \in Deposited]
    /\ public = [s \in Slugs |-> IF s \in Deposited THEN {"shown"} ELSE {}]
    /\ account = tree
    /\ unit = tree
    /\ running = [s \in Slugs |-> s \in Deposited /\ ~manifest[s].off]
    /\ block = [s \in Slugs |-> IF s \in Deposited THEN OwnBlock(manifest[s]) ELSE "none"]
    /\ loaded = block
    /\ backup = {}
    /\ lock = Nobody
    /\ token = [s \in Slugs |-> NoToken]
    /\ ssh = [s \in Slugs |-> NoShell]
    /\ life = [s \in Slugs |-> NoLife]
    /\ done = [k \in Kinds |-> 0]

Begins(k) == done[k] < Bound[k] /\ done' = [done EXCEPT ![k] = @ + 1]

TokenTo(s, pc) == token' = [token EXCEPT ![s].pc = pc]
SshTo(s, pc) == ssh' = [ssh EXCEPT ![s].pc = pc]
LifeTo(s, pc) == life' = [life EXCEPT ![s].pc = pc]

LetGo(who) == lock' = IF lock = who THEN Nobody ELSE lock

\* systemctl is-active of the installer's unit, and of a lifecycle's.
InstallerActive(s) == token[s].pc \notin {"idle", "asked"}
LifecycleActive(s) == life[s].pc \notin {"idle", "asked"}

------------------------------------------------------------------------------
(* A token's deployment *)

(* The steward starts the installer, no other run of the project active.   *)
TokenAsked(s, creating) ==
    /\ token[s].pc = "idle" /\ Begins("token")
    /\ creating = ~tree[s]
    /\ ~LifecycleActive(s)
    /\ token' = [token EXCEPT ![s] = [NoToken EXCEPT !.pc = "asked", !.creating = creating]]
    /\ UNCHANGED <<disk, running, loaded, backup, lock, ssh, life>>

(* The first reading: the manifests, from which the port and the door are   *)
(* chosen, and the machine, which no cut change must have left unknown.     *)
TokenReads(s, port, door) ==
    /\ token[s].pc = "asked"
    /\ ~(token[s].creating /\ s \in Deposited)
    /\ ~manifest[s].off
    /\ backup = {}
    /\ port \notin Taken(s)
    /\ s \in Deposited => port = manifest[s].port /\ door = manifest[s].portal
    /\ token' = [token EXCEPT ![s].pc = "prepare", ![s].port = port, ![s].door = door]
    /\ UNCHANGED <<disk, running, loaded, backup, lock, ssh, life, done>>

TokenRefused(s) ==
    /\ token[s].pc = "asked"
    /\ \/ token[s].creating /\ s \in Deposited
       \/ manifest[s].off
       \/ backup # {}
       \/ Ports \subseteq Taken(s)
    /\ token' = [token EXCEPT ![s] = NoToken]
    /\ UNCHANGED <<disk, running, loaded, backup, lock, ssh, life, done>>

(* ensureAccount and prepareTree: what was not there is this run's; a       *)
(* creation that finds a tree stops.                                        *)
TokenPrepares(s) ==
    /\ token[s].pc = "prepare"
    /\ account' = [account EXCEPT ![s] = TRUE]
    /\ tree' = [tree EXCEPT ![s] = TRUE]
    /\ token' = [token EXCEPT ![s] =
           IF @.creating /\ tree[s] THEN NoToken
           ELSE [@ EXCEPT !.pc = "units",
                          !.made = {x \in {"account", "tree"} :
                                       IF x = "tree" THEN ~tree[s] ELSE ~account[s]}]]
    /\ UNCHANGED <<manifest, public, unit, running, block, loaded, backup, lock, ssh, life, done>>

\* Where a run that stops before anything was served goes: undoCreation.
Stopped(t) == IF "tree" \in t.made THEN [t EXCEPT !.pc = "undoUnits"] ELSE NoToken

(* The archive is refused, `install` fails, a folder is not there any more. *)
TokenGivesUp(s) ==
    /\ token[s].pc = "units"
    /\ token' = [token EXCEPT ![s] = Stopped(@)]
    /\ UNCHANGED <<disk, running, loaded, backup, lock, ssh, life, done>>

(* The archive is extracted under the tree, `install` run, the unit laid    *)
(* and enabled.                                                             *)
TokenLays(s) ==
    /\ token[s].pc = "units" /\ tree[s]
    /\ unit' = [unit EXCEPT ![s] = TRUE]
    /\ token' = [token EXCEPT ![s].pc = "lock",
                              ![s].made = IF unit[s] THEN @ ELSE @ \cup {"unit"}]
    /\ UNCHANGED <<manifest, tree, public, account, running, block, loaded, backup, lock, ssh, life, done>>

(* Slip: the ports are not compared again under the lock.                   *)
StillHoldsPorts(s, t) ==
    /\ s \in Deposited => manifest[s].portal = t.door /\ ~manifest[s].off
    /\ t.creating \/ s \in Deposited

(* Slip: whether it was turned off is not read again under the lock.        *)
StillHoldsOff(s, t) ==
    /\ s \in Deposited => manifest[s].portal = t.door
    /\ t.port \notin Taken(s)
    /\ t.creating \/ s \in Deposited

(* What is read again under the lock: the door (confirmDoorUnderLock), the  *)
(* ports, turned off, removed.                                              *)
StillHolds(s, t) ==
    /\ s \in Deposited => manifest[s].portal = t.door /\ ~manifest[s].off
    /\ t.port \notin Taken(s)
    /\ t.creating \/ s \in Deposited

TokenTakes(s) ==
    /\ token[s].pc = "lock"
    /\ IF lock = Nobody /\ StillHolds(s, token[s])
       THEN /\ lock' = <<"token", s>>
            /\ TokenTo(s, IF token[s].door THEN "block" ELSE "place")
       ELSE /\ token' = [token EXCEPT ![s] = Stopped(@)]
            /\ UNCHANGED lock
    /\ UNCHANGED <<disk, running, loaded, backup, ssh, life, done>>

(* From here on everything stays, whatever fails.                           *)
TokenEnds(s) == token' = [token EXCEPT ![s] = NoToken] /\ LetGo(<<"token", s>>)

(* It ends: at the verification, whatever it says, or at a step that fails. *)
TokenIsOver(s) ==
    /\ token[s].pc \in {"block", "place", "deposit", "restart", "verify"}
    /\ TokenEnds(s)
    /\ UNCHANGED <<disk, running, loaded, backup, ssh, life, done>>

(* installBlock, up to the write: nothing to do when the block is in place, *)
(* nothing done when a cut change left Caddy unknown.                       *)
TokenWritesBlock(s) ==
    LET own == OwnBlock([port |-> token[s].port, portal |-> token[s].door, off |-> FALSE])
    IN  /\ token[s].pc = "block" /\ backup = {}
        /\ IF block[s] = own
           THEN /\ TokenTo(s, IF token[s].door THEN "place" ELSE "verify")
                /\ UNCHANGED <<block, backup>>
           ELSE /\ block' = [block EXCEPT ![s] = own]
                /\ backup' = backup \cup {s}
                /\ token' = [token EXCEPT ![s].pc = "reload", ![s].was = block[s]]
        /\ UNCHANGED <<manifest, tree, public, account, unit, running, loaded, lock, ssh, life, done>>

(* The rest of installBlock: validated, reloaded and probed, or put back.   *)
TokenReloads(s) ==
    /\ token[s].pc = "reload"
    /\ loaded' = block
    /\ backup' = backup \ {s}
    /\ TokenTo(s, IF token[s].door THEN "place" ELSE "verify")
    /\ UNCHANGED <<disk, running, lock, ssh, life, done>>

TokenPutsBlockBack(s) ==
    /\ token[s].pc = "reload"
    /\ block' = [block EXCEPT ![s] = token[s].was]
    /\ loaded' = block'
    /\ backup' = backup \ {s}
    /\ TokenEnds(s)
    /\ UNCHANGED <<manifest, tree, public, account, unit, running, ssh, life, done>>

(* The restore fails, at the block or at the reload: the backup stays.      *)
TokenLeavesBlock(s, left, seen) ==
    /\ token[s].pc = "reload" /\ Begins("fault")
    /\ {left, seen} \subseteq {block[s], token[s].was}
    /\ block' = [block EXCEPT ![s] = left]
    /\ loaded' = [loaded EXCEPT ![s] = seen]
    /\ TokenEnds(s)
    /\ UNCHANGED <<manifest, tree, public, account, unit, running, backup, ssh, life>>

TokenPlaces(s) ==
    /\ token[s].pc = "place" /\ tree[s]
    /\ public' = [public EXCEPT ![s] = (@ \ {"stale"}) \cup {"shown"}]
    /\ TokenTo(s, "deposit")
    /\ UNCHANGED <<manifest, tree, account, unit, running, block, loaded, backup, lock, ssh, life, done>>

(* The manifest deposited; a restricted site's lock is given back here,     *)
(* before its services restart.                                             *)
TokenDeposits(s) ==
    /\ token[s].pc = "deposit" /\ tree[s]
    /\ manifest' = [manifest EXCEPT ![s] = [port |-> token[s].port, portal |-> token[s].door, off |-> FALSE]]
    /\ TokenTo(s, "restart")
    /\ IF token[s].door THEN LetGo(<<"token", s>>) ELSE UNCHANGED lock
    /\ UNCHANGED <<tree, public, account, unit, running, block, loaded, backup, ssh, life, done>>

TokenRestarts(s) ==
    /\ token[s].pc = "restart" /\ unit[s]
    /\ running' = [running EXCEPT ![s] = TRUE]
    /\ TokenTo(s, IF token[s].door THEN "verify" ELSE "block")
    /\ UNCHANGED <<disk, loaded, backup, lock, ssh, life, done>>

(* undoCreation: the units this run laid, then its tree unless a manifest   *)
(* is there, then its account.  Nothing keeps another from depositing       *)
(* between the look for a manifest and the removal.                         *)
TokenUndoesUnits(s) ==
    /\ token[s].pc = "undoUnits"
    /\ LET mine == "unit" \in token[s].made
       IN  /\ unit' = [unit EXCEPT ![s] = @ /\ ~mine]
           /\ running' = [running EXCEPT ![s] = @ /\ ~mine]
    /\ TokenTo(s, "undoTree")
    /\ UNCHANGED <<manifest, tree, public, account, block, loaded, backup, lock, ssh, life, done>>

TokenChecksTree(s) ==
    /\ token[s].pc = "undoTree"
    /\ IF s \in Deposited THEN token' = [token EXCEPT ![s] = NoToken] ELSE TokenTo(s, "removeTree")
    /\ UNCHANGED <<disk, running, loaded, backup, lock, ssh, life, done>>

TokenRemovesTree(s) ==
    /\ token[s].pc = "removeTree"
    /\ manifest' = [manifest EXCEPT ![s] = NoManifest]
    /\ tree' = [tree EXCEPT ![s] = FALSE]
    /\ public' = [public EXCEPT ![s] = {}]
    /\ TokenTo(s, "undoAccount")
    /\ UNCHANGED <<account, unit, running, block, loaded, backup, lock, ssh, life, done>>

TokenUndoesAccount(s) ==
    /\ token[s].pc = "undoAccount"
    /\ account' = [account EXCEPT ![s] = @ /\ "account" \notin token[s].made]
    /\ token' = [token EXCEPT ![s] = NoToken]
    /\ UNCHANGED <<manifest, tree, public, unit, running, block, loaded, backup, lock, ssh, life, done>>

Token(s) ==
    \/ \E creating \in BOOLEAN : TokenAsked(s, creating)
    \/ \E port \in Ports, door \in BOOLEAN : TokenReads(s, port, door)
    \/ TokenRefused(s) \/ TokenPrepares(s) \/ TokenGivesUp(s) \/ TokenLays(s)
    \/ TokenTakes(s) \/ TokenIsOver(s) \/ TokenWritesBlock(s) \/ TokenReloads(s)
    \/ TokenPutsBlockBack(s) \/ TokenPlaces(s) \/ TokenDeposits(s) \/ TokenRestarts(s)
    \/ \E left, seen \in Blocks : TokenLeavesBlock(s, left, seen)
    \/ TokenUndoesUnits(s) \/ TokenChecksTree(s) \/ TokenRemovesTree(s) \/ TokenUndoesAccount(s)

------------------------------------------------------------------------------
(* The owner's deployment over SSH *)

(* The manifest and the ports read, the claim asked: a token's deployment   *)
(* at work is waited for.                                                   *)
SshReads(s, port, door) ==
    /\ ssh[s].pc = "idle" /\ Begins("ssh")
    /\ ~manifest[s].off
    /\ ~InstallerActive(s)
    /\ port \notin Taken(s)
    /\ s \in Deposited => port = manifest[s].port /\ door = manifest[s].portal
    /\ ssh' = [ssh EXCEPT ![s] = [pc |-> "prepare", port |-> port, door |-> door]]
    /\ UNCHANGED <<disk, running, loaded, backup, lock, token, life>>

(* prepareService, after a build that lasts minutes.                        *)
SshPrepares(s) ==
    /\ ssh[s].pc = "prepare"
    /\ account' = [account EXCEPT ![s] = TRUE]
    /\ tree' = [tree EXCEPT ![s] = TRUE]
    /\ unit' = [unit EXCEPT ![s] = TRUE]
    /\ SshTo(s, IF ssh[s].door THEN "lock" ELSE "push")
    /\ UNCHANGED <<manifest, public, running, block, loaded, backup, lock, token, life, done>>

\* rereadUnderLock: the door and the ports, and nothing else.
StillDeploys(s) ==
    /\ s \in Deposited => manifest[s].portal = ssh[s].door
    /\ ssh[s].port \notin Taken(s)

SshTakes(s) ==
    /\ ssh[s].pc = "lock"
    /\ IF lock = Nobody /\ StillDeploys(s)
       THEN lock' = <<"ssh", s>> /\ SshTo(s, IF ssh[s].door THEN "block" ELSE "deposit")
       ELSE UNCHANGED lock /\ ssh' = [ssh EXCEPT ![s] = NoShell]
    /\ UNCHANGED <<disk, running, loaded, backup, token, life, done>>

(* deploy-caddy.sh, which puts everything back when it fails: the run then  *)
(* stops (SshStops).                                                        *)
SshInstallsBlock(s) ==
    /\ ssh[s].pc = "block"
    /\ block' = [block EXCEPT ![s] = IF ssh[s].door THEN "closed" ELSE "open"]
    /\ loaded' = block'
    /\ IF ssh[s].door THEN SshTo(s, "push") /\ UNCHANGED lock
                      ELSE ssh' = [ssh EXCEPT ![s] = NoShell] /\ LetGo(<<"ssh", s>>)
    /\ UNCHANGED <<manifest, tree, public, account, unit, running, backup, token, life, done>>

\* The deployment takes for open a site that was restricted since it read it.
Outdated(s) == manifest[s].portal /\ ~ssh[s].door

(* rsync --delete: what was there is replaced, or what was aside joined.    *)
SshPushes(s) ==
    /\ ssh[s].pc = "push" /\ tree[s]
    /\ public' = [public EXCEPT ![s] =
           (@ \ {"stale"}) \cup IF Outdated(s) THEN {"shown", "stale"} ELSE {"shown"}]
    /\ SshTo(s, IF ssh[s].door THEN "deposit" ELSE "lock")
    /\ UNCHANGED <<manifest, tree, account, unit, running, block, loaded, backup, lock, token, life, done>>

SshDeposits(s) ==
    /\ ssh[s].pc = "deposit" /\ tree[s]
    /\ manifest' = [manifest EXCEPT ![s] = [port |-> ssh[s].port, portal |-> ssh[s].door, off |-> FALSE]]
    /\ SshTo(s, "restart")
    /\ IF ssh[s].door THEN LetGo(<<"ssh", s>>) ELSE UNCHANGED lock
    /\ UNCHANGED <<tree, public, account, unit, running, block, loaded, backup, token, life, done>>

SshRestarts(s) ==
    /\ ssh[s].pc = "restart" /\ unit[s]
    /\ running' = [running EXCEPT ![s] = TRUE]
    /\ IF ssh[s].door THEN ssh' = [ssh EXCEPT ![s] = NoShell] ELSE SshTo(s, "block")
    /\ UNCHANGED <<disk, loaded, backup, lock, token, life, done>>

(* A step that fails, or the connection cut, at any step.                   *)
SshStops(s) ==
    /\ ssh[s].pc # "idle"
    /\ ssh' = [ssh EXCEPT ![s] = NoShell]
    /\ LetGo(<<"ssh", s>>)
    /\ UNCHANGED <<disk, running, loaded, backup, token, life, done>>

Ssh(s) ==
    \/ \E port \in Ports, door \in BOOLEAN : SshReads(s, port, door)
    \/ SshPrepares(s) \/ SshTakes(s) \/ SshInstallsBlock(s) \/ SshPushes(s)
    \/ SshDeposits(s) \/ SshRestarts(s) \/ SshStops(s)

------------------------------------------------------------------------------
(* A project turned off, turned on, removed *)

(* lifecycleRefusal, asked by the steward, then by the run, under the lock. *)
MayDo(s, action) ==
    /\ s \in Deposited
    /\ action = "disable" => ~manifest[s].off
    /\ action = "enable" => manifest[s].off

(* The steward finds no installer at work, and starts the run.              *)
LifeAsked(s, action) ==
    /\ life[s].pc = "idle" /\ Begins("life")
    /\ MayDo(s, action) /\ ~InstallerActive(s)
    /\ life' = [life EXCEPT ![s] = [NoLife EXCEPT !.pc = "asked", !.action = action]]
    /\ UNCHANGED <<disk, running, loaded, backup, lock, token, ssh>>

FirstStep(action) == IF action = "remove" THEN "stop" ELSE "mark"

LifeTakes(s) ==
    /\ life[s].pc = "asked"
    /\ IF lock = Nobody /\ MayDo(s, life[s].action) /\ backup = {}
       THEN /\ lock' = <<"life", s>>
            /\ backup' = {s}
            /\ life' = [life EXCEPT ![s].pc = FirstStep(life[s].action), ![s].was = block[s]]
       ELSE UNCHANGED <<lock, backup>> /\ life' = [life EXCEPT ![s] = NoLife]
    /\ UNCHANGED <<disk, running, loaded, token, ssh, done>>

\* The next step, and how to undo this one pushed before it is done.
LifeDoes(s, undo, pc) == life' = [life EXCEPT ![s].pc = pc, ![s].undos = Append(@, undo)]

LifeMarks(s) ==
    /\ life[s].pc = "mark"
    /\ manifest' = [manifest EXCEPT ![s].off = (life[s].action = "disable")]
    /\ LifeDoes(s, "manifest", IF life[s].action = "disable" THEN "stop" ELSE "block")
    /\ UNCHANGED <<tree, public, account, unit, running, block, loaded, backup, lock, token, ssh, done>>

LifeStops(s) ==
    /\ life[s].pc = "stop"
    /\ running' = [running EXCEPT ![s] = FALSE]
    /\ LifeDoes(s, "start", IF life[s].action = "remove" THEN "aside" ELSE "block")
    /\ UNCHANGED <<disk, loaded, backup, lock, token, ssh, done>>

LifeSetsAside(s) ==
    /\ life[s].pc = "aside"
    /\ IF life[s].was # "none" /\ "shown" \in public[s]
       THEN public' = [public EXCEPT ![s] = {"aside"}] /\ LifeDoes(s, "public", "block")
       ELSE UNCHANGED public /\ LifeTo(s, "block")
    /\ UNCHANGED <<manifest, tree, account, unit, running, block, loaded, backup, lock, token, ssh, done>>

LifeBlocks(s) ==
    /\ life[s].pc = "block"
    /\ block' = [block EXCEPT ![s] = IF life[s].action = "remove" THEN "none" ELSE OwnBlock(manifest[s])]
    /\ LifeDoes(s, "block", "reload")
    /\ UNCHANGED <<manifest, tree, public, account, unit, running, loaded, backup, lock, token, ssh, done>>

LifeReloads(s) ==
    /\ life[s].pc = "reload"
    /\ loaded' = block
    /\ life' = [life EXCEPT ![s].pc = IF life[s].action = "enable" THEN "start" ELSE "verify", ![s].tried = TRUE]
    /\ UNCHANGED <<disk, running, backup, lock, token, ssh, done>>

LifeStarts(s) ==
    /\ life[s].pc = "start"
    /\ running' = [running EXCEPT ![s] = unit[s]]
    /\ LifeDoes(s, "stop", "verify")
    /\ UNCHANGED <<disk, loaded, backup, lock, token, ssh, done>>

(* Everything verified: done, but for a removal, which now deletes.         *)
LifeVerifies(s) ==
    /\ life[s].pc = "verify"
    /\ IF life[s].action = "remove"
       THEN life' = [life EXCEPT ![s].pc = "deleteUnits", ![s].undos = <<>>] /\ UNCHANGED <<backup, lock>>
       ELSE life' = [life EXCEPT ![s] = NoLife] /\ backup' = {} /\ LetGo(<<"life", s>>)
    /\ UNCHANGED <<disk, running, loaded, token, ssh, done>>

LifeDeletesUnits(s) ==
    /\ life[s].pc = "deleteUnits"
    /\ unit' = [unit EXCEPT ![s] = FALSE]
    /\ LifeTo(s, "deleteTree")
    /\ UNCHANGED <<manifest, tree, public, account, running, block, loaded, backup, lock, token, ssh, done>>

(* The folder and the account go, or one stays and the owner is told.       *)
LifeDeletesTree(s, treeStays, accountStays) ==
    /\ life[s].pc = "deleteTree"
    /\ IF treeStays THEN UNCHANGED <<manifest, tree, public>>
       ELSE /\ manifest' = [manifest EXCEPT ![s] = NoManifest]
            /\ tree' = [tree EXCEPT ![s] = FALSE]
            /\ public' = [public EXCEPT ![s] = {}]
    /\ account' = [account EXCEPT ![s] = @ /\ accountStays]
    /\ life' = [life EXCEPT ![s] = NoLife]
    /\ backup' = {}
    /\ LetGo(<<"life", s>>)
    /\ UNCHANGED <<unit, running, block, loaded, token, ssh, done>>

(* A step fails: what was pushed is undone, the last first.  A reload that  *)
(* fails may not have been attempted, or may have taken effect.             *)
LifeFails(s, tried) ==
    /\ life[s].pc \in {"mark", "stop", "aside", "block", "reload", "start", "verify"}
    /\ tried \in {life[s].tried, life[s].tried \/ life[s].pc = "reload"}
    /\ life' = [life EXCEPT ![s].pc = "undo", ![s].tried = tried]
    /\ loaded' \in {loaded, IF tried THEN block ELSE loaded}
    /\ UNCHANGED <<disk, running, backup, lock, token, ssh, done>>

Last(q) == q[Len(q)]
AllButLast(q) == SubSeq(q, 1, Len(q) - 1)

(* Slip: what was pushed is undone in the order it was done.                *)
UndoneInOrder(s, undo) ==
    /\ life[s].pc = "undo" /\ life[s].undos # <<>>
    /\ undo = Head(life[s].undos)
    /\ life' = [life EXCEPT ![s].undos = Tail(@)]

Undone(s, undo) ==
    /\ life[s].pc = "undo" /\ life[s].undos # <<>>
    /\ undo = Last(life[s].undos)
    /\ life' = [life EXCEPT ![s].undos = AllButLast(@)]

LifeUndoesBlock(s) ==
    /\ Undone(s, "block")
    /\ block' = [block EXCEPT ![s] = life[s].was]
    /\ UNCHANGED <<manifest, tree, public, account, unit, running, loaded, backup, lock, token, ssh, done>>

LifeUndoesPublic(s) ==
    /\ Undone(s, "public") /\ "shown" \notin public[s]
    /\ public' = [public EXCEPT ![s] = {"shown"}]
    /\ UNCHANGED <<manifest, tree, account, unit, running, block, loaded, backup, lock, token, ssh, done>>

LifeUndoesServices(s) ==
    /\ \/ Undone(s, "start") /\ running' = [running EXCEPT ![s] = unit[s]]
       \/ Undone(s, "stop") /\ running' = [running EXCEPT ![s] = FALSE]
    /\ UNCHANGED <<disk, loaded, backup, lock, token, ssh, done>>

LifeUndoesManifest(s) ==
    /\ Undone(s, "manifest")
    /\ manifest' = [manifest EXCEPT ![s].off = ~@]
    /\ UNCHANGED <<tree, public, account, unit, running, block, loaded, backup, lock, token, ssh, done>>

(* A way back that fails is passed over, and the backup then stays: that of *)
(* public/ does, when one is there again.                                   *)
LifeUndoFails(s) ==
    /\ life[s].pc = "undo" /\ life[s].undos # <<>>
    /\ IF Last(life[s].undos) = "public" /\ "shown" \in public[s] THEN UNCHANGED done ELSE Begins("undo")
    /\ life' = [life EXCEPT ![s].undos = AllButLast(@), ![s].failed = TRUE]
    /\ UNCHANGED <<disk, running, loaded, backup, lock, token, ssh>>

(* reloadRestored, which reloads only if a reload was attempted, then the   *)
(* end; when it fails the backup stays.                                     *)
LifeUndone(s) ==
    /\ life[s].pc = "undo" /\ life[s].undos = <<>>
    /\ loaded' = IF life[s].tried THEN block ELSE loaded
    /\ backup' = IF life[s].failed THEN backup ELSE {}
    /\ life' = [life EXCEPT ![s] = NoLife]
    /\ LetGo(<<"life", s>>)
    /\ UNCHANGED <<disk, running, token, ssh, done>>

LifeNotRestored(s) ==
    /\ life[s].pc = "undo" /\ life[s].undos = <<>> /\ Begins("fault")
    /\ loaded' \in {loaded, IF life[s].tried THEN block ELSE loaded}
    /\ life' = [life EXCEPT ![s] = NoLife]
    /\ LetGo(<<"life", s>>)
    /\ UNCHANGED <<disk, running, backup, token, ssh>>

Life(s) ==
    \/ \E action \in {"disable", "enable", "remove"} : LifeAsked(s, action)
    \/ LifeTakes(s) \/ LifeMarks(s) \/ LifeStops(s) \/ LifeSetsAside(s) \/ LifeBlocks(s)
    \/ LifeReloads(s) \/ LifeStarts(s) \/ LifeVerifies(s) \/ LifeDeletesUnits(s)
    \/ \E t, a \in BOOLEAN : LifeDeletesTree(s, t, a)
    \/ \E tried \in BOOLEAN : LifeFails(s, tried)
    \/ LifeUndoesBlock(s) \/ LifeUndoesPublic(s) \/ LifeUndoesServices(s)
    \/ LifeUndoesManifest(s) \/ LifeUndoFails(s) \/ LifeUndone(s) \/ LifeNotRestored(s)

------------------------------------------------------------------------------
(* The gatekeeper changes the door, under the lock: see Gatekeeper.         *)
SetDoor(s) ==
    /\ lock = Nobody /\ backup = {} /\ Begins("door")
    /\ s \in Deposited /\ ~manifest[s].off
    /\ manifest' = [manifest EXCEPT ![s].portal = ~@]
    /\ block' = [block EXCEPT ![s] = OwnBlock(manifest'[s])]
    /\ loaded' = block'
    /\ UNCHANGED <<tree, public, account, unit, running, backup, lock, token, ssh, life>>

(* A run killed by systemd, where it is: Caddy may have been reloaded, the  *)
(* backup stays, and the lock of a dead holder is taken over (CaddyLock).   *)
KillToken(s) ==
    /\ InstallerActive(s) /\ Begins("fault")
    /\ token' = [token EXCEPT ![s] = NoToken]
    /\ loaded' \in {loaded, IF token[s].pc = "reload" THEN block ELSE loaded}
    /\ LetGo(<<"token", s>>)
    /\ UNCHANGED <<disk, running, backup, ssh, life>>

KillLife(s) ==
    /\ LifecycleActive(s) /\ Begins("fault")
    /\ life' = [life EXCEPT ![s] = NoLife]
    /\ loaded' \in {loaded, IF life[s].pc = "reload" THEN block ELSE loaded}
    /\ LetGo(<<"life", s>>)
    /\ UNCHANGED <<disk, running, backup, token, ssh>>

Next == \E s \in Slugs : Token(s) \/ Ssh(s) \/ Life(s) \/ SetDoor(s) \/ KillToken(s) \/ KillLife(s)

Spec == Init /\ [][Next]_vars

------------------------------------------------------------------------------
(* Types: the state of the machine and of each run is one of those named,   *)
(* and who holds the lock is a run that believes it does.                   *)
TypeOK ==
    /\ manifest \in [Slugs -> {NoManifest} \cup [port : Ports, portal : BOOLEAN, off : BOOLEAN]]
    /\ public \in [Slugs -> SUBSET {"shown", "stale", "aside"}]
    /\ \A f \in {tree, account, unit, running} : f \in [Slugs -> BOOLEAN]
    /\ \A f \in {block, loaded} : f \in [Slugs -> Blocks]
    /\ backup \subseteq Slugs
    /\ \A s \in Slugs : s \in Deposited \/ public[s] # {} => tree[s]
    /\ \A s \in Slugs :
          /\ lock = <<"token", s>> => token[s].pc \in {"block", "reload", "place", "deposit", "restart", "verify"}
          /\ lock = <<"ssh", s>> => ssh[s].pc \in {"block", "push", "deposit", "restart"}
          /\ (lock = <<"life", s>>) = LifecycleActive(s)

(* Two projects never declare one port, however their deployments, from     *)
(* tokens and from workstations, chose theirs from the same reading: each   *)
(* compares again under the lock, where every manifest is deposited         *)
(* (pipeline.ts "The ports again, under the lock every deposit takes").     *)
PortsApart == \A s, t \in Deposited : s # t => manifest[s].port # manifest[t].port

(* The files of a site whose manifest says restricted are never served to   *)
(* anyone: not while it is created, turned on, removed, nor while a removal *)
(* that failed is put back (lifecycle.ts "public/ is set aside first").     *)
(* Two cases aside: a way back of the removal fails too, or the files are   *)
(* those the owner's deployment of the site, as it was before it was        *)
(* restricted, pushes under no lock while the removal is at work.           *)
NotServed(s) == manifest[s].portal => Served(s) \notin {"open", "files"}
NeverOpen == done["undo"] = 0 => \A s \in Deposited : "stale" \in public[s] \/ NotServed(s)

(* A project its owner turned off stays marked so, and answered as one that *)
(* is off, whatever deployment from a token or change of door is at work,   *)
(* however old its reading (pipeline.ts "going on would serve a project     *)
(* turned off again").  Only the owner's own runs change that.  Its         *)
(* services are another matter: a restricted site's deployment starts them  *)
(* after it let the lock go (TokenRestarts), without looking at the mark.   *)
TokenLeavesOff ==
    [][\A s \in Slugs : manifest[s].off /\ UNCHANGED <<ssh, life>> =>
          manifest'[s].off /\ block'[s] = block[s] /\ loaded'[s] = loaded[s]]_vars

=============================================================================
