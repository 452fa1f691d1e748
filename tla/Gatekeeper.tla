------------------------------ MODULE Gatekeeper ------------------------------
(***************************************************************************)
(* The transaction by which the gatekeeper changes a site's general        *)
(* access: dashboard/src/gatekeeper/transaction.ts over the machine of     *)
(* real.ts.  It plans, saves a backup, writes up to four files, validates, *)
(* reloads Caddy, probes the site, and puts everything back on a failure.  *)
(*                                                                         *)
(* Around it: systemd, which goes on with a reload whose client was        *)
(* killed; whoever ignores Caddy's lock while a change is being prepared;  *)
(* the operator, who lifts an interrupted change by hand; and, when the    *)
(* constants allow them, crashes of Caddy (its unit is Restart=always) and *)
(* power cuts.  One transaction at a time: that is CaddyLock's business.   *)
(***************************************************************************)
EXTENDS AccessPlan

CONSTANTS
  Crashes,    \* Caddy may die, and systemd starts it again
  PowerCuts   \* the machine may lose power: /run is empty at the next start

ASSUME EventAssumption == Crashes \in BOOLEAN /\ PowerCuts \in BOOLEAN

VARIABLES
  disk,      \* the files of every site, the codes file, the locks' fragment
  caddy,     \* is Caddy up, and the configuration it serves
  pages,     \* the sites whose door page is placed
  reloads,   \* systemd's jobs for Caddy: the one running, one queued behind
  backup,    \* the folder of backups: at most one, complete or being written
  pc, job, result

vars == <<disk, caddy, pages, reloads, backup, pc, job, result>>

-----------------------------------------------------------------------------
Disk == [manifest : [Site -> Manifest], block : [Site -> Block], codes : CodesFile, fragment : Entries]
Views == [block : [Site -> Block], fragment : Entries]
ViewOf(d) == [block |-> d.block, fragment |-> d.fragment]
Serving(v) == [up |-> TRUE, view |-> v]
Down == [caddy EXCEPT !.up = FALSE]

(* The files a transaction reads, and the disk once it has put others there. *)
readAll(s, d) ==
  [manifest |-> d.manifest[s], block |-> d.block[s], codes |-> d.codes, fragment |-> d.fragment,
   locks |-> [t \in Site |-> d.manifest[t].lock]]
PutManifest(d, f) == [d EXCEPT !.manifest[job.site] = f.manifest]
PutCodes(d, f) == [d EXCEPT !.codes = f.codes]
PutBlock(d, f) == [d EXCEPT !.block[job.site] = f.block]
PutFragment(d, f) == [d EXCEPT !.fragment = f.fragment]
Tear(d) == [d EXCEPT !.codes = Torn]

Jobs == [site : Site, action : Action, first : Deployed, drawn : Code \cup {NoCode}, tried : BOOLEAN]
target == targetOf(job.action)
goal == Goal(job.site, job.action, job.first, job.drawn)
locksAtStake == involved(job.site, job.action, job.first)
previous == inService(job.site, job.first)
leavingCode == target # "code" /\ (job.first.manifest.lock \/ previous # NoCode)

Settling == {"restoreManifest", "restoreBlock", "restoreCodes", "restoreTorn", "restoreFragment",
             "revalidate", "rereload", "rewaiting", "cleanRestored"}
Writing == {"writeManifest", "writeCodes", "writeTorn", "writeBlock", "writeFragment", "validate",
            "reload", "waiting", "probe", "cleanOk"}
Preparing == {"interrupted", "read", "preconditions", "reread"}
PC == {"idle", "page", "save", "saving", "done"} \cup Preparing \cup Writing \cup Settling
Result == {"", "ok", "inPlace", "rejects", "failure", "restored", "stuck"}
Answer == {"none", "ok", "refused"}
NoReloads == [running |-> {}, queued |-> FALSE, answer |-> "none"]

(* A job of which nothing is known yet but the demand. *)
Asked(s, a) ==
  [site |-> s, action |-> a, drawn |-> NoCode, tried |-> FALSE,
   first |-> [manifest |-> targetManifest("public"), block |-> "open", codes |-> Holding(None),
              fragment |-> None, locks |-> [t \in Site |-> FALSE]]]
Idle == Asked(CHOOSE s \in Site : TRUE, "off")

Init ==
  /\ disk = [manifest |-> [s \in Site |-> targetManifest("public")], block |-> [s \in Site |-> "open"],
             codes |-> Absent, fragment |-> None]
  /\ caddy = Serving(ViewOf(disk))
  /\ pages = {}
  /\ reloads = NoReloads
  /\ backup = {}
  /\ pc = "idle"
  /\ job = Idle
  /\ result = ""

Goto(step) == pc' = step /\ UNCHANGED result
Finish(r) == pc' = "done" /\ result' = r
world == <<disk, caddy, pages, reloads, backup>>

-----------------------------------------------------------------------------
(* run: the lock is taken; a backup that remained refuses everything. *)
Start(s, a) ==
  /\ pc = "idle"
  /\ job' = Asked(s, a)
  /\ Goto("interrupted")
  /\ UNCHANGED world

(* Slip: the entry that remained among the backups is not looked for. *)
InterruptedForgotten ==
  /\ pc = "interrupted"
  /\ Goto("read")
  /\ UNCHANGED <<world, job>>

Interrupted ==
  /\ pc = "interrupted"
  /\ IF backup = {} THEN Goto("read") ELSE Finish("rejects")
  /\ UNCHANGED <<world, job>>

(* The plan on the first reading, the code drawn included.  A site already
   closed by its code still gets its door page from the template. *)
Draws(s, a, d) == IF CodeAfter(s, a, d, NoCode) = NoCode /\ targetOf(a) = "code" THEN DrawnFrom(s, d) ELSE {NoCode}
PlanFirst ==
  /\ pc = "read"
  /\ \E drawn \in Draws(job.site, job.action, readAll(job.site, disk)) :
       LET d == readAll(job.site, disk)
           kind == Kind(job.site, job.action, d, drawn)
       IN /\ job' = [site |-> job.site, action |-> job.action, first |-> d, drawn |-> drawn, tried |-> FALSE]
          /\ \/ kind = "rejects" /\ Finish("rejects")
             \/ kind = "nothing" /\ Finish("inPlace")
             \/ kind = "change" /\ Goto("preconditions")
          /\ pages' = IF kind = "nothing" /\ target = "code" THEN pages \cup {job.site} ELSE pages
  /\ UNCHANGED <<disk, caddy, reloads, backup>>

(* Caddy active, its configuration valid, the portal ready: or nothing is changed. *)
Preconditions ==
  /\ pc = "preconditions"
  /\ caddy.up
  /\ Goto("reread")
  /\ UNCHANGED <<world, job>>

(* A step before the writes that throws, or a check that refuses. *)
GiveUp ==
  /\ pc \in Preparing \cup {"page", "save"}
  /\ Finish("failure")
  /\ UNCHANGED <<world, job>>

(* Slip: the plan goes ahead on its first reading. *)
RereadForgotten ==
  /\ pc = "reread"
  /\ IF target = "code" THEN Goto("page") ELSE Goto("save")
  /\ UNCHANGED <<world, job>>

(* Read again just before writing: planned anew if it changed, never written. *)
Reread ==
  /\ pc = "reread"
  /\ IF readAll(job.site, disk) = job.first
       THEN IF target = "code" THEN Goto("page") ELSE Goto("save")
       ELSE \E drawn \in Draws(job.site, job.action, readAll(job.site, disk)) :
              Finish(IF Kind(job.site, job.action, readAll(job.site, disk), drawn) = "nothing"
                       THEN "inPlace" ELSE "rejects")
  /\ UNCHANGED <<world, job>>

PlacePage ==
  /\ pc = "page"
  /\ pages' = pages \cup {job.site}
  /\ Goto("save")
  /\ UNCHANGED <<disk, caddy, reloads, backup, job>>

(* The backup is several files: begun, then complete, or taken away again
   when one of them fails, if that works. *)
SaveBackup ==
  /\ pc = "save"
  /\ backup' = {[site |-> job.site, whole |-> FALSE, files |-> job.first, locks |-> locksAtStake]}
  /\ Goto("saving")
  /\ UNCHANGED <<disk, caddy, pages, reloads, job>>

BackupSaved ==
  /\ pc = "saving"
  /\ backup' = {[b EXCEPT !.whole = TRUE] : b \in backup}
  /\ Goto("writeManifest")
  /\ UNCHANGED <<disk, caddy, pages, reloads, job>>

BackupFailed ==
  /\ pc = "saving"
  /\ backup' \in {{}, backup}
  /\ Finish("failure")
  /\ UNCHANGED <<disk, caddy, pages, reloads, job>>

-----------------------------------------------------------------------------
(* A file written goes on to the next; a write that throws, its effect there
   or not, goes to `otherwise`. *)
Write(step, changed, after, next, otherwise) ==
  /\ pc = step
  /\ \/ disk' = (IF changed THEN after ELSE disk) /\ Goto(next)
     \/ changed /\ disk' \in {disk, after} /\ otherwise
  /\ UNCHANGED <<caddy, pages, reloads, backup, job>>

Restoring == Goto("restoreManifest")
Stuck == Finish("stuck")

(* write: the manifest, the codes, the block, the fragment, each only when it
   changes.  The codes file is written in place: torn until the last byte. *)
WriteManifest ==
  Write("writeManifest", goal.manifest # job.first.manifest, PutManifest(disk, goal), "writeCodes", Restoring)
(* Slip: the codes file is only written for a site that gets a code. *)
WriteCodesToSet ==
  IF goal.codes # job.first.codes /\ target = "code" /\ disk.codes # Absent
    THEN Write("writeCodes", TRUE, Tear(disk), "writeTorn", Restoring)
    ELSE Write("writeCodes", goal.codes # job.first.codes /\ target = "code", PutCodes(disk, goal), "writeBlock", Restoring)
WriteCodes ==
  IF goal.codes # job.first.codes /\ disk.codes # Absent
    THEN Write("writeCodes", TRUE, Tear(disk), "writeTorn", Restoring)
    ELSE Write("writeCodes", goal.codes # job.first.codes, PutCodes(disk, goal), "writeBlock", Restoring)
WriteTorn == Write("writeTorn", TRUE, PutCodes(disk, goal), "writeBlock", Restoring)
WriteBlock ==
  Write("writeBlock", goal.block # job.first.block, PutBlock(disk, goal), "writeFragment", Restoring)
(* Slip: a block that was written is taken for the whole change. *)
FragmentForgotten ==
  Write("writeFragment", goal.fragment # job.first.fragment /\ goal.block = job.first.block,
        PutFragment(disk, goal), "validate", Restoring)
WriteFragment ==
  Write("writeFragment", goal.fragment # job.first.fragment, PutFragment(disk, goal), "validate", Restoring)

Validate ==
  /\ pc = "validate"
  /\ Goto("reload") \/ Restoring
  /\ UNCHANGED <<world, job>>

(* systemctl: the job reads the files as it starts; behind one still running
   it waits. *)
Ask(kind) ==
  reloads' = IF reloads.running = {}
               THEN [running |-> {[kind |-> kind, view |-> ViewOf(disk)]}, queued |-> FALSE, answer |-> "none"]
               ELSE [running |-> reloads.running, queued |-> TRUE, answer |-> "none"]

Reload ==
  /\ pc = "reload"
  /\ Ask("reload")
  /\ job' = [job EXCEPT !.tried = TRUE]
  /\ Goto("waiting")
  /\ UNCHANGED <<disk, caddy, pages, backup>>

(* The answer, or the delay: the client is killed, the job carries on.  Caddy
   must be active afterwards. *)
ReloadAnswered ==
  /\ pc = "waiting"
  /\ (reloads.answer = "ok" /\ caddy.up /\ Goto("probe")) \/ Restoring
  /\ UNCHANGED <<world, job>>

(* judgeHost: what a visitor without a code, with it, and with the previous
   one gets. *)
judgeHost ==
  /\ caddy.up
  /\ (caddy.view.block[job.site] = "guard") <=> (target = "restricted")
  /\ target = "public" /\ leavingCode => caddy.view.fragment[job.site] = NoCode
  /\ target = "code" => caddy.view.fragment[job.site] = goal.fragment[job.site]

(* probeAfter: the site as it must be, and no other site lost on the way. *)
Probe ==
  /\ pc = "probe"
  /\ (judgeHost /\ Goto("cleanOk")) \/ Restoring
  /\ UNCHANGED <<world, job>>

-----------------------------------------------------------------------------
(* restore: each file that differs from the backup, or does not read.  A codes
   file that did not exist is written back empty. *)
wantedCodes == IF job.first.codes = Absent THEN Holding(None) ELSE job.first.codes
RestoreManifest ==
  Write("restoreManifest", disk.manifest[job.site] # job.first.manifest, PutManifest(disk, job.first), "restoreBlock", Stuck)
RestoreBlock ==
  Write("restoreBlock", disk.block[job.site] # job.first.block, PutBlock(disk, job.first),
        IF locksAtStake THEN "restoreCodes" ELSE "revalidate", Stuck)
RestoreCodes ==
  Write("restoreCodes", disk.codes # job.first.codes, Tear(disk),
        IF disk.codes # job.first.codes THEN "restoreTorn" ELSE "restoreFragment", Stuck)
RestoreTorn == Write("restoreTorn", TRUE, [disk EXCEPT !.codes = wantedCodes], "restoreFragment", Stuck)
RestoreFragment ==
  Write("restoreFragment", disk.fragment # job.first.fragment, PutFragment(disk, job.first), "revalidate", Stuck)

(* Slip: the files put back are taken for the configuration in service. *)
RevalidateForgetsReload ==
  /\ pc = "revalidate"
  /\ Stuck \/ Goto("cleanRestored")
  /\ UNCHANGED <<world, job>>

(* reloadRestored: validated, then reloaded if the way out reached the reload. *)
Revalidate ==
  /\ pc = "revalidate"
  /\ \/ Stuck
     \/ IF job.tried THEN Goto("rereload") ELSE Goto("cleanRestored")
  /\ UNCHANGED <<world, job>>

Rereload ==
  /\ pc = "rereload"
  /\ Ask(IF caddy.up THEN "reload" ELSE "start")
  /\ Goto("rewaiting")
  /\ UNCHANGED <<disk, caddy, pages, backup, job>>

(* Slip: a restore's reload past its delay is taken for done. *)
RereloadAssumed ==
  /\ pc = "rewaiting"
  /\ (caddy.up /\ Goto("cleanRestored")) \/ Stuck
  /\ UNCHANGED <<world, job>>

RereloadAnswered ==
  /\ pc = "rewaiting"
  /\ (reloads.answer = "ok" /\ caddy.up /\ Goto("cleanRestored")) \/ Stuck
  /\ UNCHANGED <<world, job>>

(* cleanUp: a backup that will not go blocks the next action. *)
CleanUp ==
  /\ pc \in {"cleanOk", "cleanRestored"}
  /\ backup' \in {{}, backup}
  /\ Finish(IF pc = "cleanOk" THEN "ok" ELSE "restored")
  /\ UNCHANGED <<disk, caddy, pages, reloads, job>>

(* The result is written and the lock given back. *)
Return ==
  /\ pc = "done"
  /\ pc' = "idle" /\ job' = Idle /\ result' = ""
  /\ UNCHANGED world

-----------------------------------------------------------------------------
(* The gatekeeper killed at any step (the unit's delay, MemoryMax). *)
Kill ==
  /\ pc # "idle"
  /\ pc' = "idle" /\ job' = Idle /\ result' = ""
  /\ UNCHANGED world

(* systemd ends the running job: the configuration it read is in service, or
   was refused; the queued one then reads the files. *)
ReloadEnds ==
  \E run \in reloads.running, ok \in BOOLEAN :
    /\ ok => caddy.up \/ run.kind = "start"
    /\ caddy' = IF ok THEN Serving(run.view) ELSE caddy
    /\ reloads' = IF reloads.queued
                    THEN [running |-> {[kind |-> run.kind, view |-> ViewOf(disk)]}, queued |-> FALSE, answer |-> "none"]
                    ELSE [running |-> {}, queued |-> FALSE, answer |-> IF ok THEN "ok" ELSE "refused"]
    /\ UNCHANGED <<disk, pages, backup, pc, job, result>>

CaddyDies ==
  /\ Crashes
  /\ caddy.up
  /\ caddy' = Down
  /\ reloads' = [NoReloads EXCEPT !.answer = IF reloads.running = {} THEN reloads.answer ELSE "refused"]
  /\ UNCHANGED <<disk, pages, backup, pc, job, result>>

(* Restart=always: Caddy comes back with the files as they are. *)
CaddyRestarts ==
  /\ Crashes
  /\ ~caddy.up
  /\ caddy' = Serving(ViewOf(disk))
  /\ UNCHANGED <<disk, pages, reloads, backup, pc, job, result>>

(* The whole of /run, tmpfs, is gone at the next start; the files are not. *)
PowerCut ==
  /\ PowerCuts
  /\ backup' = {} /\ reloads' = NoReloads
  /\ pc' = "idle" /\ job' = Idle /\ result' = ""
  /\ caddy' = Serving(ViewOf(disk))
  /\ UNCHANGED <<disk, pages>>

(* A deployment that ignores the lock, or a touch-up by hand, reloaded. *)
Outsider(t) ==
  /\ pc \in {"idle"} \cup Preparing
  /\ backup = {} /\ reloads.running = {} /\ caddy.up
  /\ \E m \in Manifest, c \in Code \cup {NoCode}, hand \in BOOLEAN :
       /\ Valid(t, m)
       /\ m.lock <=> c # NoCode
       /\ disk' = [manifest |-> [disk.manifest EXCEPT ![t] = m],
                   block |-> [disk.block EXCEPT ![t] = IF hand THEN "hand" ELSE generateFragment(m)],
                   codes |-> Holding([disk.codes.entries EXCEPT ![t] = c]),
                   fragment |-> [disk.fragment EXCEPT ![t] = c]]
       /\ pages' = IF m.lock THEN pages \cup {t} ELSE pages
  /\ caddy' = Serving(ViewOf(disk'))
  /\ UNCHANGED <<reloads, backup, pc, job, result>>

(* interruptedMessage, followed: the saved files put back where they differ,
   Caddy reloaded, the backup removed.  A backup left half-saved precedes any
   write: nothing differs. *)
PutBack(d, b) ==
  IF ~b.whole THEN d
  ELSE LET one == [d EXCEPT !.manifest[b.site] = b.files.manifest, !.block[b.site] = b.files.block]
       IN IF b.locks THEN [one EXCEPT !.codes = b.files.codes, !.fragment = b.files.fragment] ELSE one
Operator ==
  /\ pc = "idle" /\ reloads.running = {}
  /\ \E b \in backup :
       /\ disk' = PutBack(disk, b)
       /\ caddy' = Serving(ViewOf(disk'))
  /\ backup' = {}
  /\ UNCHANGED <<pages, reloads, pc, job, result>>

-----------------------------------------------------------------------------
Gatekeeper ==
  \/ \E s \in Site, a \in Action : Start(s, a)
  \/ Interrupted \/ PlanFirst \/ Preconditions \/ GiveUp \/ Reread \/ PlacePage
  \/ SaveBackup \/ BackupSaved \/ BackupFailed
  \/ WriteManifest \/ WriteCodes \/ WriteTorn \/ WriteBlock \/ WriteFragment
  \/ Validate \/ Reload \/ ReloadAnswered \/ Probe
  \/ RestoreManifest \/ RestoreBlock \/ RestoreCodes \/ RestoreTorn \/ RestoreFragment
  \/ Revalidate \/ Rereload \/ RereloadAnswered \/ CleanUp \/ Return
Others ==
  \/ Kill \/ ReloadEnds \/ CaddyDies \/ CaddyRestarts \/ PowerCut \/ Operator
  \/ \E t \in Site : Outsider(t)
Next == Gatekeeper \/ Others
Spec == Init /\ [][Next]_vars

-----------------------------------------------------------------------------
Reads == [kind : {"reload", "start"}, view : Views]
TypeOK ==
  /\ disk \in Disk
  /\ caddy \in [up : BOOLEAN, view : Views]
  /\ pages \subseteq Site
  /\ reloads \in [running : SUBSET Reads, queued : BOOLEAN, answer : Answer]
  /\ backup \subseteq [site : Site, whole : BOOLEAN, files : Deployed, locks : BOOLEAN]
  /\ pc \in PC
  /\ job \in Jobs
  /\ result \in Result

(* The four files say the same of every site, a block touched up by hand aside. *)
Coherent(d) ==
  /\ Readable(d.codes)
  /\ d.fragment = d.codes.entries
  /\ \A s \in Site : /\ Valid(s, d.manifest[s])
                     /\ d.manifest[s].lock <=> d.fragment[s] # NoCode
                     /\ d.block[s] \in {generateFragment(d.manifest[s]), "hand"}
Served == caddy.up => caddy.view = ViewOf(disk)
Closed(v, s) == v.block[s] = "guard" \/ v.fragment[s] # NoCode

(* Once no change is under way and no backup remains, the files agree and
   Caddy serves them: whatever failed, was killed or was late left nothing. *)
Settled == pc = "idle" /\ backup = {} => Coherent(disk) /\ Served /\ reloads.running = {}

(* A half-written change always has its complete backup, and following the
   message puts coherent files back. *)
Recoverable == ~Coherent(disk) => \E b \in backup : b.whole /\ Coherent(PutBack(disk, b))

(* "ok": this site's files say what was asked and Caddy serves them, the page
   it sends visitors to is there, and the code it replaced opens nothing. *)
OkServed ==
  pc = "done" /\ result = "ok" =>
    /\ disk.manifest[job.site] = targetManifest(target)
    /\ disk.block[job.site] = generateFragment(targetManifest(target))
    /\ disk.codes = goal.codes
    /\ disk.fragment[job.site] # NoCode <=> target = "code"
    /\ target = "code" => job.site \in pages
    /\ job.action = "renew" => disk.fragment[job.site] # currentCode(job.site, job.first)
    /\ Served

(* "previous configuration restored": the files are those read before, a codes
   file that was missing now there and empty, and Caddy serves them. *)
RestoredServed ==
  pc = "done" /\ result = "restored" =>
    /\ readAll(job.site, disk) \in {job.first, [job.first EXCEPT !.codes = wantedCodes]}
    /\ Served

(* What a step leaves of the sites other than the one being changed. *)
OthersUntouched ==
  \A t \in Site \ {job.site} :
    /\ disk'.manifest[t] = disk.manifest[t]
    /\ disk'.block[t] = disk.block[t]
    /\ disk'.fragment[t] = disk.fragment[t]
    /\ caddy'.view.block[t] = caddy.view.block[t]
    /\ caddy'.view.fragment[t] = caddy.view.fragment[t]

(* From its first write on, a transaction changes no other site's files, nor
   what Caddy serves of them: nothing written meanwhile is overwritten. *)
Changing == pc \in Writing \cup Settling
OthersKept == [][Changing => OthersUntouched]_vars

(* A site closed before and after, by the portal or by a code, is served
   closed all along, whatever fails on the way. *)
ClosedStaysClosed ==
  /\ Changing
  /\ target # "public"
  /\ job.first.block = "guard" \/ previous # NoCode
  /\ caddy.up
  => Closed(caddy.view, job.site)

=============================================================================
