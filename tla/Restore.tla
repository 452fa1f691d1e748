------------------------------- MODULE Restore -------------------------------
(***************************************************************************)
(* The restore of one project's data: the unit sitesolide-restore@, its    *)
(* ExecStopPost, the hourly run of the backups, and the lock they share.   *)
(*                                                                         *)
(* A restore extracts a snapshot beside the data, stops the services,      *)
(* saves the current data, swaps the folders by renames, starts and        *)
(* watches, then removes the previous data or puts it back. It may be      *)
(* killed between any two of these steps, and the machine restarted.       *)
(*                                                                         *)
(* A folder holds a version of the data, Torn when it is half extracted or *)
(* half removed. The services of the project are one: up when systemd has  *)
(* been asked to start them and their data folder was there. Creating the  *)
(* lock's directory and writing its holder are one step: a directory whose *)
(* holder cannot be read is judged a dead one's a minute later. What is    *)
(* written on the restored data before it is accepted is not counted.      *)
(***************************************************************************)
EXTENDS Integers, Sequences, SequencesExt, FiniteSets

CONSTANTS
    PreKeep,      \* BACKUP_KEEP_PRE_RESTORE: before-restore snapshots kept
    MaxVersion,   \* bound: versions of the data ever written
    MaxRestores,  \* bound: restores asked for
    MaxRuns,      \* bound: runs started
    MaxStops,     \* bound: processes killed, machine restarts included
    MaxDeploys,   \* bound: deployments, which restart the services, lock or not
    Deploying     \* the phases of a restore in which a deployment may do so

ASSUME BoundsAssumption ==
    /\ PreKeep \in Nat \ {0}
    /\ MaxVersion \in Nat \ {0}
    /\ {MaxRestores, MaxRuns, MaxStops, MaxDeploys} \subseteq Nat
    /\ Deploying \subseteq STRING

VARIABLES
    disk,     \* what each folder of the project holds
    on,       \* the project is turned on and has units
    serving,  \* its services run
    latest,   \* the data the project has: as last written, or last accepted
    fresh,    \* versions written so far
    pre,      \* the before-restore snapshots, oldest first
    sched,    \* the scheduled snapshots
    phase,    \* where the restore's unit is
    asked,    \* the snapshot it was asked for
    mark,     \* the mark of the services stopped
    outcome,  \* the state of the result file
    lock,     \* the holder named in the lock's directory
    judged,   \* takers about to set aside a lock they judged a dead process's
    run,      \* where the run is
    spent     \* how often each bounded event happened

swapVars == <<disk, latest, fresh, pre>>
lockVars == <<lock, judged>>
restoreVars == <<disk, on, serving, latest, fresh, pre, sched, phase, asked, mark, outcome,
               lock, judged, run, spent>>

Absent == 0
Torn == -1
Version == 1..MaxVersion
Folder == {"data", "incoming", "previous", "failed"}
Phase == {"idle", "begun", "waiting", "locked", "repaired", "extracting", "extracted",
          "marked", "stopping", "unstopped", "restarting", "stopped", "saved", "away", "placed",
          "watching", "cleared", "dropping", "undoing", "halted", "setaside", "back",
          "restarted", "sweeping", "ending", "post", "mending", "starting", "started"}
Takers == {"restore", "cleanup", "run"}

RestoreTypeOK ==
    /\ disk \in [Folder -> Version \cup {Absent, Torn}]
    /\ on \in BOOLEAN
    /\ serving \in BOOLEAN
    /\ latest \in Version
    /\ fresh \in Version
    /\ pre \in Seq(Version)
    /\ Len(pre) <= MaxRestores
    /\ sched \in SUBSET Version
    /\ phase \in Phase
    /\ asked \in Version
    /\ mark \in BOOLEAN
    /\ outcome \in {"none", "running", "ok", "failure", "rejects", "cut"}
    /\ lock \in Takers \cup {"free", "dead"}
    /\ judged \in SUBSET Takers
    /\ run \in {"idle", "waiting", "copying", "retaining"}
    /\ spent \in [restores : 0..MaxRestores, runs : 0..MaxRuns, kills : 0..MaxStops,
                  deploys : 0..MaxDeploys]

RestoreInit ==
    /\ disk = [f \in Folder |-> IF f = "data" THEN 1 ELSE Absent]
    /\ on \in BOOLEAN
    /\ serving = on
    /\ latest = 1
    /\ fresh = 1
    /\ pre = << >>
    /\ sched = {1}
    /\ phase = "idle"
    /\ asked = 1
    /\ mark = FALSE
    /\ outcome = "none"
    /\ lock = "free"
    /\ judged = {}
    /\ run = "idle"
    /\ spent = [restores |-> 0, runs |-> 0, kills |-> 0, deploys |-> 0]

To(from, to) == phase = from /\ phase' = to

-----------------------------------------------------------------------------
(* The folders, and what a restore cut short left of them.                 *)

Present(f) == disk[f] # Absent
LeftBehind == {f \in Folder \ {"data"} : Present(f)}

Removed(f) == [disk EXCEPT ![f] = Absent]
Renamed(from, to) == [disk EXCEPT ![to] = disk[from], ![from] = Absent]

(* Cut between two renames: the previous data goes back in.                *)
PutsBack ==
    /\ ~Present("data")
    /\ LeftBehind \in {{"incoming", "previous"}, {"previous", "failed"}}

(* Slip: whatever lies alone beside the data is a leftover to remove.      *)
SweepsAny(f) ==
    /\ Present("data")
    /\ LeftBehind = {f}

(* Cut before the swap, or after the previous data came back.              *)
Sweeps(f) ==
    /\ Present("data")
    /\ LeftBehind = {f}
    /\ f \in {"incoming", "failed"}

ToRepair == PutsBack \/ \E f \in Folder : Sweeps(f)
Certain == LeftBehind = {} \/ ToRepair

(* One step of a clean plan: what the plan's next step is, the folders say. *)
RepairStep ==
    \/ /\ PutsBack
       /\ disk' = Renamed("previous", "data")
    \/ \E f \in Folder :
       /\ Sweeps(f)
       /\ disk' = Removed(f)

-----------------------------------------------------------------------------
(* The lock: a directory, and the name of its holder.                      *)

Wants(who) ==
    \/ who = "restore" /\ phase = "waiting"
    \/ who = "cleanup" /\ phase = "post" /\ mark
    \/ who = "run" /\ run = "waiting"

Enters(who) ==
    /\ phase' = CASE who = "restore" -> "locked"
                  [] who = "cleanup" -> "mending"
                  [] OTHER -> phase
    /\ run' = IF who = "run" THEN "copying" ELSE run

takeLock(who) ==
    /\ Wants(who)
    /\ who \notin judged
    /\ lock = "free"
    /\ lock' = who
    /\ Enters(who)
    /\ UNCHANGED <<swapVars, on, serving, sched, asked, mark, outcome, judged, spent>>

JudgeDead(who) ==
    /\ Wants(who)
    /\ lock = "dead"
    /\ judged' = judged \cup {who}
    /\ UNCHANGED <<swapVars, on, serving, sched, phase, asked, mark, outcome, lock, run, spent>>

(* Whatever directory is in place by then is renamed away, and removed.    *)
RenameAside(who) ==
    /\ who \in judged
    /\ judged' = judged \ {who}
    /\ lock' = "free"
    /\ UNCHANGED <<swapVars, on, serving, sched, phase, asked, mark, outcome, run, spent>>

Released(who) == lock' = IF lock = who THEN "free" ELSE lock

-----------------------------------------------------------------------------
(* Before anything is stopped.                                             *)

Ask(v) ==
    /\ phase = "idle"
    /\ spent.restores < MaxRestores
    /\ v \in sched \cup ToSet(pre)
    /\ Present("data") \/ Present("previous")
    /\ Certain
    /\ phase' = "begun"
    /\ asked' = v
    /\ spent' = [spent EXCEPT !.restores = @ + 1]
    /\ UNCHANGED <<swapVars, on, serving, sched, mark, outcome, lockVars, run>>

consumeRequest ==
    /\ To("begun", "waiting")
    /\ outcome' = "running"
    /\ UNCHANGED <<swapVars, on, serving, sched, asked, mark, lockVars, run, spent>>

Rejects ==
    /\ phase' = "ending"
    /\ outcome' = "rejects"
    /\ UNCHANGED <<latest, fresh, pre, on, serving, sched, asked, mark, run, spent>>

(* The request does not read, or the lock was waited for in vain.          *)
RejectEarly ==
    /\ phase \in {"begun", "waiting"}
    /\ Rejects
    /\ judged' = judged \ {"restore"}
    /\ UNCHANGED <<disk, lock>>

repair ==
    /\ phase \in {"locked", "mending"}
    /\ RepairStep
    /\ UNCHANGED <<on, serving, latest, fresh, pre, sched, phase, asked, mark, outcome, lockVars,
                   run, spent>>

(* What is uncertain is refused: the page, which asks first, refused it.   *)
JudgeLeftovers ==
    /\ phase = "locked"
    /\ ~ToRepair
    /\ IF LeftBehind = {} /\ Present("data")
       THEN phase' = "repaired" /\ outcome' = outcome
       ELSE phase' = "ending" /\ outcome' = "rejects"
    /\ UNCHANGED <<swapVars, on, serving, sched, asked, mark, lockVars, run, spent>>

MakeIncoming ==
    /\ To("repaired", "extracting")
    /\ asked \in sched \cup ToSet(pre)
    /\ disk' = [disk EXCEPT !["incoming"] = Torn]
    /\ UNCHANGED <<on, serving, latest, fresh, pre, sched, asked, mark, outcome, lockVars, run, spent>>

(* No such snapshot any more, no room, an archive that does not read, or   *)
(* too little time left: the extraction goes, nothing was stopped.         *)
RejectExtraction ==
    /\ phase \in {"repaired", "extracting", "extracted"}
    /\ Rejects
    /\ disk' = Removed("incoming")
    /\ UNCHANGED lockVars

extract ==
    /\ To("extracting", "extracted")
    /\ asked \in sched \cup ToSet(pre)
    /\ disk' = [disk EXCEPT !["incoming"] = asked]
    /\ UNCHANGED <<on, serving, latest, fresh, pre, sched, asked, mark, outcome, lockVars, run, spent>>

-----------------------------------------------------------------------------
(* Stop, save, swap, start.                                                *)

(* A project turned off has nothing to stop, and leaves no mark.           *)
NothingToStop ==
    /\ ~on
    /\ To("extracted", "stopped")
    /\ UNCHANGED <<swapVars, on, serving, sched, asked, mark, outcome, lockVars, run, spent>>

markStopped ==
    /\ on
    /\ To("extracted", "marked")
    /\ mark' = TRUE
    /\ UNCHANGED <<swapVars, on, serving, sched, asked, outcome, lockVars, run, spent>>

(* systemctl stop may end with a service still running.                    *)
stopUnits ==
    /\ \/ To("marked", "stopping")
       \/ To("undoing", "halted")
    /\ serving' \in {FALSE, serving}
    /\ UNCHANGED <<swapVars, on, sched, asked, mark, outcome, lockVars, run, spent>>

(* Slip: whether the services stopped is not asked.                        *)
StoppedUnasked ==
    /\ To("stopping", "stopped")
    /\ UNCHANGED <<swapVars, on, serving, sched, asked, mark, outcome, lockVars, run, spent>>

StoppedAll ==
    /\ ~serving
    /\ To("stopping", "stopped")
    /\ UNCHANGED <<swapVars, on, serving, sched, asked, mark, outcome, lockVars, run, spent>>

DidNotStop ==
    /\ serving
    /\ To("stopping", "unstopped")
    /\ disk' = Removed("incoming")
    /\ UNCHANGED <<on, serving, latest, fresh, pre, sched, asked, mark, outcome, lockVars, run, spent>>

takeSnapshot ==
    /\ To("stopped", "saved")
    /\ pre' = Append(pre, disk["data"])
    /\ UNCHANGED <<disk, on, serving, latest, fresh, sched, asked, mark, outcome, lockVars, run, spent>>

SaveFails ==
    /\ To("stopped", "unstopped")
    /\ disk' = Removed("incoming")
    /\ UNCHANGED <<on, serving, latest, fresh, pre, sched, asked, mark, outcome, lockVars, run, spent>>

(* Started again on the data that never moved, the mark cleared, told.     *)
StartUnchanged ==
    /\ To("unstopped", "restarting")
    /\ serving' = on
    /\ UNCHANGED <<swapVars, on, sched, asked, mark, outcome, lockVars, run, spent>>

GiveUpUnchanged ==
    /\ To("restarting", "ending")
    /\ mark' = FALSE
    /\ outcome' = "failure"
    /\ UNCHANGED <<swapVars, on, serving, sched, asked, lockVars, run, spent>>

SetDataAside ==
    /\ To("saved", "away")
    /\ disk' = Renamed("data", "previous")
    /\ UNCHANGED <<on, serving, latest, fresh, pre, sched, asked, mark, outcome, lockVars, run, spent>>

PutIncoming ==
    /\ To("away", "placed")
    /\ disk' = Renamed("incoming", "data")
    /\ UNCHANGED <<on, serving, latest, fresh, pre, sched, asked, mark, outcome, lockVars, run, spent>>

(* A unit whose data folder is missing does not start.                     *)
Startable == on /\ Present("data")

startAndWatch ==
    /\ on
    /\ \/ To("placed", "watching")
       \/ To("back", "restarted")
    /\ serving' = Startable
    /\ UNCHANGED <<swapVars, on, sched, asked, mark, outcome, lockVars, run, spent>>

(* The services run on the restored data, or there are none to run.        *)
Accepted ==
    /\ \/ ~on /\ To("placed", "cleared")
       \/ on /\ To("watching", "cleared")
    /\ mark' = FALSE
    /\ UNCHANGED <<swapVars, on, serving, sched, asked, outcome, lockVars, run, spent>>

(* rmSync of a tree: from its first file on, the previous data is no more. *)
DropPrevious ==
    /\ To("cleared", "dropping")
    /\ disk' = [disk EXCEPT !["previous"] = Torn]
    /\ latest' = disk["data"]
    /\ UNCHANGED <<on, serving, fresh, pre, sched, asked, mark, outcome, lockVars, run, spent>>

RestoreOk ==
    /\ To("dropping", "ending")
    /\ disk' = Removed("previous")
    /\ outcome' = "ok"
    /\ UNCHANGED <<on, serving, latest, fresh, pre, sched, asked, mark, lockVars, run, spent>>

(* The services did not come back: the previous data does.                 *)
NotComeBack ==
    /\ To("watching", "undoing")
    /\ UNCHANGED <<swapVars, on, serving, sched, asked, mark, outcome, lockVars, run, spent>>

SetRestoredAside ==
    /\ To("halted", "setaside")
    /\ disk' = Renamed("data", "failed")
    /\ UNCHANGED <<on, serving, latest, fresh, pre, sched, asked, mark, outcome, lockVars, run, spent>>

PutPreviousBack ==
    /\ To("setaside", "back")
    /\ disk' = Renamed("previous", "data")
    /\ UNCHANGED <<on, serving, latest, fresh, pre, sched, asked, mark, outcome, lockVars, run, spent>>

ClearAfterRollback ==
    /\ To("restarted", "sweeping")
    /\ mark' = FALSE
    /\ UNCHANGED <<swapVars, on, serving, sched, asked, outcome, lockVars, run, spent>>

RolledBack ==
    /\ To("sweeping", "ending")
    /\ disk' = Removed("failed")
    /\ outcome' = "failure"
    /\ UNCHANGED <<on, serving, latest, fresh, pre, sched, asked, mark, lockVars, run, spent>>

(* A rename or a call to systemd that throws: told, nothing put back.      *)
Throws ==
    /\ phase \in {"saved", "away", "placed", "undoing", "halted", "setaside", "back"}
    /\ phase' = "ending"
    /\ outcome' = "failure"
    /\ UNCHANGED <<swapVars, on, serving, sched, asked, mark, lockVars, run, spent>>

Ends ==
    /\ To("ending", "post")
    /\ Released("restore")
    /\ UNCHANGED <<swapVars, on, serving, sched, asked, mark, outcome, judged, run, spent>>

-----------------------------------------------------------------------------
(* ExecStopPost, once the restore's process is gone, however it went.      *)

(* Slip: a result that is not running is taken for a restore that finished. *)
FinishedByResult ==
    /\ ~mark \/ outcome # "running"
    /\ To("post", "idle")
    /\ outcome' = IF outcome = "running" THEN "cut" ELSE outcome
    /\ UNCHANGED <<swapVars, on, serving, sched, asked, mark, lockVars, run, spent>>

(* The restore finished: told, and no mark left.                           *)
NothingToClean ==
    /\ ~mark
    /\ To("post", "idle")
    /\ outcome' = IF outcome = "running" THEN "cut" ELSE outcome
    /\ UNCHANGED <<swapVars, on, serving, sched, asked, mark, lockVars, run, spent>>

(* The lock is a living process's: the folders are left as they are.       *)
LockHeld ==
    /\ mark
    /\ To("post", "starting")
    /\ lock = "run"
    /\ judged' = judged \ {"cleanup"}
    /\ UNCHANGED <<swapVars, on, serving, sched, asked, mark, outcome, lock, run, spent>>

Mended ==
    /\ To("mending", "starting")
    /\ ~ToRepair
    /\ Released("cleanup")
    /\ UNCHANGED <<swapVars, on, serving, sched, asked, mark, outcome, judged, run, spent>>

CleanupStarts ==
    /\ To("starting", "started")
    /\ serving' = Startable
    /\ UNCHANGED <<swapVars, on, sched, asked, mark, outcome, lockVars, run, spent>>

CleanedUp ==
    /\ To("started", "idle")
    /\ mark' = FALSE
    /\ outcome' = "failure"
    /\ UNCHANGED <<swapVars, on, serving, sched, asked, lockVars, run, spent>>

-----------------------------------------------------------------------------
(* The hourly run, as far as it meets a restore.                           *)

RunStarts ==
    /\ run = "idle"
    /\ spent.runs < MaxRuns
    /\ run' = "waiting"
    /\ spent' = [spent EXCEPT !.runs = @ + 1]
    /\ UNCHANGED <<swapVars, on, serving, sched, phase, asked, mark, outcome, lockVars>>

RunGivesUp ==
    /\ run = "waiting"
    /\ lock \in {"restore", "cleanup"}
    /\ run' = "idle"
    /\ judged' = judged \ {"run"}
    /\ UNCHANGED <<swapVars, on, serving, sched, phase, asked, mark, outcome, lock, spent>>

(* A project without its data folder is left out, and said to be well.     *)
snapshotStep ==
    /\ run = "copying"
    /\ run' = "retaining"
    /\ sched' = sched \cup ({disk["data"]} \ {Absent})
    /\ UNCHANGED <<swapVars, on, serving, phase, asked, mark, outcome, lockVars, spent>>

(* The newest scheduled snapshot is kept, and the last PreKeep others.     *)
retain ==
    /\ run = "retaining"
    /\ run' = "idle"
    /\ pre' = IF Len(pre) > PreKeep THEN SubSeq(pre, Len(pre) - PreKeep + 1, Len(pre)) ELSE pre
    /\ sched' \in SUBSET sched \ {{}}
    /\ Released("run")
    /\ UNCHANGED <<disk, latest, fresh, on, serving, phase, asked, mark, outcome, judged, spent>>

-----------------------------------------------------------------------------
(* What happens around a restore.                                          *)

(* The services write their data, unless it is restored data on trial.     *)
Write ==
    /\ serving
    /\ Present("data")
    /\ disk["previous"] \in {Absent, Torn}
    /\ fresh < MaxVersion
    /\ fresh' = fresh + 1
    /\ latest' = fresh'
    /\ disk' = [disk EXCEPT !["data"] = fresh']
    /\ UNCHANGED <<on, serving, pre, sched, phase, asked, mark, outcome, lockVars, run, spent>>

(* A deployment restarts the services: it takes no lock of the backups.    *)
Deploy ==
    /\ on
    /\ phase \in Deploying
    /\ spent.deploys < MaxDeploys
    /\ spent' = [spent EXCEPT !.deploys = @ + 1]
    /\ serving' = Startable
    /\ UNCHANGED <<swapVars, on, sched, phase, asked, mark, outcome, lockVars, run>>

(* The operator decides where a restore refuses to: keeps the restored     *)
(* data, or sets it aside and puts back a previous one that is whole.      *)
OperatorKeeps ==
    /\ phase = "idle"
    /\ Present("data") /\ LeftBehind = {"previous"}
    /\ disk' = Removed("previous")
    /\ latest' = disk["data"]
    /\ UNCHANGED <<fresh, pre, on, serving, sched, phase, asked, mark, outcome, lockVars, run, spent>>

OperatorUndoes ==
    /\ phase = "idle"
    /\ Present("data") /\ LeftBehind = {"previous"}
    /\ disk["previous"] # Torn
    /\ disk' = Renamed("data", "failed")
    /\ serving' = FALSE
    /\ UNCHANGED <<latest, fresh, pre, on, sched, phase, asked, mark, outcome, lockVars, run, spent>>

OperatorPutsBack ==
    /\ phase = "idle"
    /\ PutsBack
    /\ disk' = Renamed("previous", "data")
    /\ serving' = on
    /\ UNCHANGED <<latest, fresh, pre, on, sched, phase, asked, mark, outcome, lockVars, run, spent>>

(* The timeout of the unit, the kernel out of memory, an operator.         *)
KillRestore ==
    /\ phase \notin {"idle", "post", "mending", "starting", "started"}
    /\ spent.kills < MaxStops
    /\ spent' = [spent EXCEPT !.kills = @ + 1]
    /\ phase' = "post"
    /\ judged' = judged \ {"restore"}
    /\ lock' = IF lock = "restore" THEN "dead" ELSE lock
    /\ UNCHANGED <<swapVars, on, serving, sched, asked, mark, outcome, run>>

KillRun ==
    /\ run # "idle"
    /\ spent.kills < MaxStops
    /\ spent' = [spent EXCEPT !.kills = @ + 1]
    /\ run' = "idle"
    /\ judged' = judged \ {"run"}
    /\ lock' = IF lock = "run" THEN "dead" ELSE lock
    /\ UNCHANGED <<swapVars, on, serving, sched, phase, asked, mark, outcome>>

(* The machine stops: what is under /run goes, no ExecStopPost runs, and   *)
(* the services turned on start again.                                     *)
Reboot ==
    /\ spent.kills < MaxStops
    /\ spent' = [spent EXCEPT !.kills = @ + 1]
    /\ phase' = "idle"
    /\ run' = "idle"
    /\ mark' = FALSE
    /\ outcome' = "none"
    /\ lock' = "free"
    /\ judged' = {}
    /\ serving' = Startable
    /\ UNCHANGED <<swapVars, on, sched, asked>>

-----------------------------------------------------------------------------
restore ==
    \/ consumeRequest \/ RejectEarly \/ JudgeLeftovers \/ MakeIncoming
    \/ RejectExtraction \/ extract \/ NothingToStop \/ markStopped \/ stopUnits
    \/ StoppedAll \/ DidNotStop \/ takeSnapshot \/ SaveFails \/ StartUnchanged
    \/ GiveUpUnchanged \/ SetDataAside \/ PutIncoming \/ startAndWatch \/ Accepted
    \/ DropPrevious \/ RestoreOk \/ NotComeBack \/ SetRestoredAside \/ PutPreviousBack
    \/ ClearAfterRollback \/ RolledBack \/ Throws \/ Ends

afterRestore == NothingToClean \/ LockHeld \/ Mended \/ CleanupStarts \/ CleanedUp

Locking(who) == takeLock(who) \/ JudgeDead(who) \/ RenameAside(who)

runBackups == RunStarts \/ RunGivesUp \/ snapshotStep \/ retain

Environment ==
    \/ Write \/ Deploy \/ OperatorKeeps \/ OperatorUndoes \/ OperatorPutsBack
    \/ KillRestore \/ KillRun \/ Reboot

RestoreNext ==
    \/ \E v \in Version : Ask(v)
    \/ restore \/ repair \/ afterRestore
    \/ \E who \in Takers : Locking(who)
    \/ runBackups
    \/ Environment

(* Each unit's process goes on; nobody asks, writes or decides in its place. *)
RestoreFairness ==
    /\ WF_restoreVars(restore)
    /\ WF_restoreVars(repair)
    /\ WF_restoreVars(afterRestore)
    /\ WF_restoreVars(Locking("cleanup"))

RestoreSpec == RestoreInit /\ [][RestoreNext]_restoreVars /\ RestoreFairness

-----------------------------------------------------------------------------
(* Whenever no leftover of a restore remains, the data in place is whole,  *)
(* and the data of the project: as it last wrote it, or as accepted. What  *)
(* the next restore and the cleanup call certain is (recovery.ts).         *)
SettledIsLatest == LeftBehind = {} => disk["data"] = latest

(* When the services run on the restored data, and the data they had is    *)
(* about to be removed, a before-restore snapshot holds exactly that data  *)
(* (restore.ts: stop, save, swap, start).                                  *)
ReplacedIsSaved == phase = "cleared" => disk["previous"] \in ToSet(pre)

(* The steps of a restore, of its cleanup and of the operator are those of *)
(* a swap that saves first and accepts or puts back: see DataSwap.         *)
Kept == IF disk["previous"] = Torn THEN Absent ELSE disk["previous"]
Swap == INSTANCE DataSwap WITH
            Content <- Version,
            data <- disk["data"],
            kept <- Kept,
            saved <- latest \in ToSet(pre)

SwapsSafely == Swap!Spec

(* Services a restore stopped, and marked so, are started again, however   *)
(* it is killed, unless their data folder is missing: only a next restore  *)
(* repairs that when a run held the lock (afterRestore).                   *)
NotLeftStopped == (on /\ mark /\ ~serving) ~> (serving \/ ~Present("data"))

=============================================================================
