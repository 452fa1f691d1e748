--------------------------- MODULE GatekeeperProofs ---------------------------
(***************************************************************************)
(* Proofs about Gatekeeper, for every set of sites and of codes, with or   *)
(* without crashes of Caddy and power cuts.                                *)
(***************************************************************************)
EXTENDS Gatekeeper, TLAPS

-----------------------------------------------------------------------------
(* The values the plan computes are of their types. *)
LEMMA TargetType == ASSUME NEW a \in Action PROVE targetOf(a) \in Access
BY DEF Action, Access, targetOf

LEMMA ManifestType == ASSUME NEW x PROVE targetManifest(x) \in Manifest
<1>1. (x = "restricted") \in BOOLEAN /\ (x = "code") \in BOOLEAN OBVIOUS
<1> QED BY <1>1 DEF targetManifest, Manifest

LEMMA FragmentType == ASSUME NEW m PROVE generateFragment(m) \in Block
BY DEF generateFragment, Block

LEMMA NoneType == None \in Entries
BY DEF None, Entries

LEMMA CodesFileType ==
  ASSUME NEW e \in Entries
  PROVE Holding(e) \in CodesFile
BY DEF Holding, CodesFile

LEMMA CodesEntries ==
  ASSUME NEW c \in CodesFile
  PROVE c.entries \in Entries /\ c.kind \in {"read", "absent", "torn"}
BY NoneType DEF CodesFile, Absent, Torn

LEMMA CodeAfterType ==
  ASSUME NEW s \in Site, NEW a \in Action, NEW d \in Deployed, NEW drawn \in Code \cup {NoCode}
  PROVE CodeAfter(s, a, d, drawn) \in Code \cup {NoCode}
<1>1. d.codes.entries \in Entries BY CodesEntries DEF Deployed
<1>2. d.codes.entries[s] \in Code \cup {NoCode} BY <1>1 DEF Entries
<1> QED BY <1>2 DEF CodeAfter, currentCode

LEMMA GoalType ==
  ASSUME NEW s \in Site, NEW a \in Action, NEW d \in Deployed, NEW drawn \in Code \cup {NoCode}
  PROVE /\ Goal(s, a, d, drawn).manifest \in Manifest
        /\ Goal(s, a, d, drawn).block \in Block
        /\ Goal(s, a, d, drawn).codes \in CodesFile
        /\ Goal(s, a, d, drawn).fragment \in Entries
<1> DEFINE new == NewCodes(s, a, d, drawn)
<1>1. d.codes \in CodesFile /\ d.fragment \in Entries BY DEF Deployed
<1>2. d.codes.entries \in Entries BY <1>1, CodesEntries
<1>3. new \in Entries BY <1>2, CodeAfterType DEF NewCodes, Entries
<1>4. Holding(new) \in CodesFile BY <1>3, CodesFileType
<1> QED BY <1>1, <1>3, <1>4, ManifestType, FragmentType DEF Goal

LEMMA ReadAllType ==
  ASSUME NEW s \in Site, NEW d \in Disk
  PROVE readAll(s, d) \in Deployed
<1>1. d.manifest \in [Site -> Manifest] /\ d.block \in [Site -> Block]
      /\ d.codes \in CodesFile /\ d.fragment \in Entries BY DEF Disk
<1>2. \A t \in Site : d.manifest[t] \in Manifest BY <1>1
<1>3. \A t \in Site : d.manifest[t].lock \in BOOLEAN BY <1>2 DEF Manifest
<1>4. [t \in Site |-> d.manifest[t].lock] \in [Site -> BOOLEAN] BY <1>3
<1> QED BY <1>1, <1>2, <1>4 DEF readAll, Deployed

LEMMA ViewType == ASSUME NEW d \in Disk PROVE ViewOf(d) \in Views /\ Serving(ViewOf(d)) \in [up : BOOLEAN, view : Views]
BY DEF Disk, ViewOf, Views, Serving

LEMMA WriteType ==
  ASSUME TypeOK, NEW changed \in BOOLEAN, NEW after \in Disk, NEW step, NEW next \in PC,
         NEW otherwise \in BOOLEAN, otherwise => pc' \in PC /\ result' \in Result,
         Write(step, changed, after, next, otherwise)
  PROVE TypeOK'
<1> USE DEF TypeOK
<1>1. disk' \in Disk BY DEF Write
<1>2. pc' \in PC /\ result' \in Result BY DEF Write, Goto
<1>3. UNCHANGED <<caddy, pages, reloads, backup, job>> BY DEF Write
<1> QED BY <1>1, <1>2, <1>3 DEF Write

LEMMA JobType ==
  ASSUME TypeOK
  PROVE /\ job.site \in Site /\ job.action \in Action /\ job.first \in Deployed
        /\ job.drawn \in Code \cup {NoCode} /\ job.tried \in BOOLEAN
        /\ job.first.manifest \in Manifest /\ job.first.block \in Block
        /\ job.first.codes \in CodesFile /\ job.first.fragment \in Entries
<1>1. job \in Jobs BY DEF TypeOK
<1>2. job.first \in Deployed BY <1>1 DEF Jobs
<1>3. job.site \in Site /\ job.action \in Action /\ job.drawn \in Code \cup {NoCode} /\ job.tried \in BOOLEAN
  BY <1>1 DEF Jobs
<1> QED BY <1>2, <1>3 DEF Deployed

LEMMA PutType ==
  ASSUME TypeOK, NEW f, f.manifest \in Manifest, f.block \in Block, f.codes \in CodesFile, f.fragment \in Entries
  PROVE /\ PutManifest(disk, f) \in Disk /\ PutCodes(disk, f) \in Disk
        /\ PutBlock(disk, f) \in Disk /\ PutFragment(disk, f) \in Disk
<1>1. disk \in Disk BY DEF TypeOK
<1>2. PutManifest(disk, f) \in Disk BY <1>1 DEF Disk, PutManifest
<1>3. PutCodes(disk, f) \in Disk BY <1>1 DEF Disk, PutCodes
<1>4. PutBlock(disk, f) \in Disk BY <1>1 DEF Disk, PutBlock
<1>5. PutFragment(disk, f) \in Disk BY <1>1 DEF Disk, PutFragment
<1> QED BY <1>2, <1>3, <1>4, <1>5

LEMMA TornType == ASSUME NEW d \in Disk PROVE Tear(d) \in Disk
<1>1. Torn \in CodesFile BY DEF CodesFile
<1> QED BY <1>1 DEF Tear, Disk

LEMMA AskedType == ASSUME NEW s \in Site, NEW a \in Action PROVE Asked(s, a) \in Jobs
<1>1. Holding(None) \in CodesFile BY NoneType, CodesFileType
<1>2. [t \in Site |-> FALSE] \in [Site -> BOOLEAN] OBVIOUS
<1>3. Asked(s, a).first \in Deployed BY <1>1, <1>2, NoneType, ManifestType DEF Asked, Deployed, Block
<1> QED BY <1>3 DEF Asked, Jobs

LEMMA IdleType == Idle \in Jobs
<1>1. (CHOOSE s \in Site : TRUE) \in Site BY PlanAssumption
<1> QED BY <1>1, AskedType DEF Idle, Action

-----------------------------------------------------------------------------
(* A step that leaves the world alone only has to stay among the steps. *)
LEMMA StillType ==
  ASSUME TypeOK, UNCHANGED world, job' \in Jobs, pc' \in PC, result' \in Result
  PROVE TypeOK'
BY DEF TypeOK, world

LEMMA InitType == ASSUME Init PROVE TypeOK
<1> USE DEF Init
<1>1. disk \in Disk
  <2>1. Absent \in CodesFile BY DEF CodesFile
  <2>2. "open" \in Block BY DEF Block
  <2> QED BY <2>1, <2>2, NoneType, ManifestType DEF Disk
<1>2. caddy \in [up : BOOLEAN, view : Views] BY <1>1, ViewType
<1>3. reloads \in [running : SUBSET Reads, queued : BOOLEAN, answer : Answer] BY DEF NoReloads, Answer
<1>4. pc \in PC /\ result \in Result BY DEF PC, Result
<1> QED BY <1>1, <1>2, <1>3, <1>4, IdleType DEF TypeOK

LEMMA AskType ==
  ASSUME TypeOK, NEW kind \in {"reload", "start"}, Ask(kind)
  PROVE reloads' \in [running : SUBSET Reads, queued : BOOLEAN, answer : Answer]
<1>1. [kind |-> kind, view |-> ViewOf(disk)] \in Reads BY ViewType DEF TypeOK, Reads
<1> QED BY <1>1 DEF TypeOK, Ask, Answer

(* Before the writes: only the job, the door pages and the backup move. *)
LEMMA PreparesType ==
  ASSUME TypeOK,
         \/ \E s \in Site, a \in Action : Start(s, a)
         \/ Interrupted \/ PlanFirst \/ Preconditions \/ GiveUp \/ Reread \/ PlacePage
         \/ SaveBackup \/ BackupSaved \/ BackupFailed
  PROVE TypeOK'
<1> USE DEF Goto, Finish, PC, Result, Preparing, world
<1>1. ASSUME NEW s \in Site, NEW a \in Action, Start(s, a) PROVE TypeOK'
  <2>1. job' \in Jobs BY <1>1, AskedType DEF Start
  <2> QED BY <1>1, <2>1, StillType DEF Start, TypeOK
<1>2. CASE Interrupted BY <1>2, StillType DEF Interrupted, TypeOK
<1>3. CASE PlanFirst
  <2> DEFINE d == readAll(job.site, disk)
  <2>1. PICK drawn \in Draws(job.site, job.action, d) :
          /\ job' = [site |-> job.site, action |-> job.action, first |-> d, drawn |-> drawn, tried |-> FALSE]
          /\ pages' = IF Kind(job.site, job.action, d, drawn) = "nothing" /\ target = "code" THEN pages \cup {job.site} ELSE pages
          /\ pc' \in PC /\ result' \in Result
    BY <1>3 DEF PlanFirst, TypeOK
  <2>2. d \in Deployed BY JobType, ReadAllType DEF TypeOK
  <2>3. drawn \in Code \cup {NoCode} BY <2>1 DEF Draws, DrawnFrom
  <2>4. job' \in Jobs BY <2>1, <2>2, <2>3, JobType DEF Jobs
  <2>5. pages' \subseteq Site BY <2>1, JobType DEF TypeOK
  <2> QED BY <1>3, <2>1, <2>4, <2>5 DEF PlanFirst, TypeOK
<1>4. CASE Preconditions BY <1>4, StillType DEF Preconditions, TypeOK
<1>5. CASE GiveUp BY <1>5, StillType DEF GiveUp, TypeOK
<1>6. CASE Reread BY <1>6, StillType DEF Reread, TypeOK
<1>7. CASE PlacePage BY <1>7, JobType DEF PlacePage, TypeOK
<1>8. CASE SaveBackup
  <2>1. locksAtStake \in BOOLEAN BY DEF locksAtStake, involved
  <2>2. [site |-> job.site, whole |-> FALSE, files |-> job.first, locks |-> locksAtStake]
          \in [site : Site, whole : BOOLEAN, files : Deployed, locks : BOOLEAN] BY <2>1, JobType
  <2> QED BY <1>8, <2>2 DEF SaveBackup, TypeOK
<1>9. CASE BackupSaved
  <2>1. \A b \in backup : [b EXCEPT !.whole = TRUE] \in [site : Site, whole : BOOLEAN, files : Deployed, locks : BOOLEAN]
    BY DEF TypeOK
  <2>2. backup' \subseteq [site : Site, whole : BOOLEAN, files : Deployed, locks : BOOLEAN] BY <1>9, <2>1 DEF BackupSaved
  <2>3. pc' \in PC BY <1>9 DEF BackupSaved, Writing
  <2> QED BY <1>9, <2>2, <2>3 DEF BackupSaved, TypeOK
<1>10. CASE BackupFailed BY <1>10 DEF BackupFailed, TypeOK
<1> QED BY <1>1, <1>2, <1>3, <1>4, <1>5, <1>6, <1>7, <1>8, <1>9, <1>10

(* From the first write to the cleaning up. *)
LEMMA WritesType ==
  ASSUME TypeOK,
         \/ WriteManifest \/ WriteCodes \/ WriteTorn \/ WriteBlock \/ WriteFragment
         \/ Validate \/ Reload \/ ReloadAnswered \/ Probe
  PROVE TypeOK'
<1> DEFINE there == Restoring => pc' \in PC /\ result' \in Result
<1>1. there BY DEF TypeOK, Restoring, Goto, PC, Settling
<1>2. goal.manifest \in Manifest /\ goal.block \in Block /\ goal.codes \in CodesFile /\ goal.fragment \in Entries
  BY JobType, GoalType DEF goal
<1>3. /\ PutManifest(disk, goal) \in Disk /\ PutCodes(disk, goal) \in Disk
      /\ PutBlock(disk, goal) \in Disk /\ PutFragment(disk, goal) \in Disk
  BY <1>2, PutType
<1>4. Tear(disk) \in Disk BY TornType DEF TypeOK
<1>5. {"writeCodes", "writeTorn", "writeBlock", "writeFragment", "validate", "waiting", "probe", "cleanOk", "reload"} \subseteq PC
  BY DEF PC, Writing
<1>6. Restoring \in BOOLEAN BY DEF Restoring, Goto
<1>7. CASE WriteManifest BY <1>1, <1>3, <1>5, <1>6, <1>7, WriteType DEF WriteManifest
<1>8. CASE WriteCodes
  <2>1. CASE goal.codes # job.first.codes /\ disk.codes # Absent
    BY <1>1, <1>4, <1>5, <1>6, <1>8, <2>1, WriteType DEF WriteCodes
  <2>2. CASE ~(goal.codes # job.first.codes /\ disk.codes # Absent)
    BY <1>1, <1>3, <1>5, <1>6, <1>8, <2>2, WriteType DEF WriteCodes
  <2> QED BY <2>1, <2>2
<1>9. CASE WriteTorn BY <1>1, <1>3, <1>5, <1>6, <1>9, WriteType DEF WriteTorn
<1>10. CASE WriteBlock BY <1>1, <1>3, <1>5, <1>6, <1>10, WriteType DEF WriteBlock
<1>11. CASE WriteFragment BY <1>1, <1>3, <1>5, <1>6, <1>11, WriteType DEF WriteFragment
<1>12. CASE Validate
  <2>1. pc' \in PC /\ result' \in Result BY <1>1, <1>5, <1>12 DEF Validate, Goto, TypeOK
  <2> QED BY <1>12, <2>1, StillType DEF Validate, TypeOK
<1>13. CASE Reload
  <2>1. reloads' \in [running : SUBSET Reads, queued : BOOLEAN, answer : Answer] BY <1>13, AskType DEF Reload
  <2>2. job' \in Jobs BY <1>13 DEF Reload, TypeOK, Jobs
  <2> QED BY <1>5, <1>13, <2>1, <2>2 DEF Reload, Goto, TypeOK
<1>14. CASE ReloadAnswered
  <2>1. pc' \in PC /\ result' \in Result BY <1>1, <1>5, <1>14 DEF ReloadAnswered, Goto, TypeOK
  <2> QED BY <1>14, <2>1, StillType DEF ReloadAnswered, TypeOK
<1>15. CASE Probe
  <2>1. pc' \in PC /\ result' \in Result BY <1>1, <1>5, <1>15 DEF Probe, Goto, TypeOK
  <2> QED BY <1>15, <2>1, StillType DEF Probe, TypeOK
<1> QED BY <1>7, <1>8, <1>9, <1>10, <1>11, <1>12, <1>13, <1>14, <1>15

LEMMA RestoresType ==
  ASSUME TypeOK,
         \/ RestoreManifest \/ RestoreBlock \/ RestoreCodes \/ RestoreTorn \/ RestoreFragment
         \/ Revalidate \/ Rereload \/ RereloadAnswered \/ CleanUp \/ Return
  PROVE TypeOK'
<1> DEFINE there == Stuck => pc' \in PC /\ result' \in Result
<1>1. there BY DEF Stuck, Finish, PC, Result
<1>2. Stuck \in BOOLEAN BY DEF Stuck, Finish
<1>3. /\ PutManifest(disk, job.first) \in Disk /\ PutBlock(disk, job.first) \in Disk
      /\ PutFragment(disk, job.first) \in Disk
  BY JobType, PutType
<1>4. Tear(disk) \in Disk BY TornType DEF TypeOK
<1>5. [disk EXCEPT !.codes = wantedCodes] \in Disk
  <2>1. wantedCodes \in CodesFile BY JobType, NoneType, CodesFileType DEF wantedCodes
  <2> QED BY <2>1 DEF TypeOK, Disk
<1>6. Settling \subseteq PC /\ {"done", "idle"} \subseteq PC BY DEF PC
<1>7. CASE RestoreManifest BY <1>1, <1>2, <1>3, <1>6, <1>7, WriteType DEF RestoreManifest, Settling
<1>8. CASE RestoreBlock BY <1>1, <1>2, <1>3, <1>6, <1>8, WriteType DEF RestoreBlock, Settling
<1>9. CASE RestoreCodes BY <1>1, <1>2, <1>4, <1>6, <1>9, WriteType DEF RestoreCodes, Settling
<1>10. CASE RestoreTorn BY <1>1, <1>2, <1>5, <1>6, <1>10, WriteType DEF RestoreTorn, Settling
<1>11. CASE RestoreFragment BY <1>1, <1>2, <1>3, <1>6, <1>11, WriteType DEF RestoreFragment, Settling
<1>12. CASE Revalidate
  <2>1. pc' \in PC /\ result' \in Result BY <1>1, <1>6, <1>12 DEF Revalidate, Goto, Settling, TypeOK
  <2> QED BY <1>12, <2>1, StillType DEF Revalidate, TypeOK
<1>13. CASE Rereload
  <2>1. reloads' \in [running : SUBSET Reads, queued : BOOLEAN, answer : Answer] BY <1>13, AskType DEF Rereload
  <2>2. pc' \in PC /\ result' \in Result BY <1>6, <1>13 DEF Rereload, Goto, Settling, TypeOK
  <2> QED BY <1>13, <2>1, <2>2 DEF Rereload, TypeOK
<1>14. CASE RereloadAnswered
  <2>1. pc' \in PC /\ result' \in Result BY <1>1, <1>6, <1>14 DEF RereloadAnswered, Goto, Settling, TypeOK
  <2> QED BY <1>14, <2>1, StillType DEF RereloadAnswered, TypeOK
<1>15. CASE CleanUp
  <2>1. pc' \in PC /\ result' \in Result BY <1>6, <1>15 DEF CleanUp, Finish, Result
  <2> QED BY <1>15, <2>1 DEF CleanUp, TypeOK
<1>16. CASE Return
  <2>1. job' \in Jobs /\ pc' \in PC /\ result' \in Result BY <1>6, <1>16, IdleType DEF Return, Result
  <2> QED BY <1>16, <2>1, StillType DEF Return
<1> QED BY <1>7, <1>8, <1>9, <1>10, <1>11, <1>12, <1>13, <1>14, <1>15, <1>16

LEMMA PutBackType ==
  ASSUME TypeOK, NEW b \in backup
  PROVE PutBack(disk, b) \in Disk
<1> DEFINE one == [[disk EXCEPT !.manifest[b.site] = b.files.manifest] EXCEPT !.block[b.site] = b.files.block]
<1>1. b.site \in Site /\ b.files \in Deployed BY DEF TypeOK
<1>2. b.files.manifest \in Manifest /\ b.files.block \in Block /\ b.files.codes \in CodesFile /\ b.files.fragment \in Entries
  BY <1>1 DEF Deployed
<1>3. disk \in Disk BY DEF TypeOK
<1>4. one \in Disk
  <2>1. [disk EXCEPT !.manifest[b.site] = b.files.manifest] \in Disk BY <1>1, <1>2, <1>3 DEF Disk
  <2> QED BY <1>1, <1>2, <2>1 DEF Disk
<1>5. [[one EXCEPT !.codes = b.files.codes] EXCEPT !.fragment = b.files.fragment] \in Disk
  <2>1. [one EXCEPT !.codes = b.files.codes] \in Disk BY <1>2, <1>4 DEF Disk
  <2> QED BY <1>2, <2>1 DEF Disk
<1> QED BY <1>3, <1>4, <1>5 DEF PutBack

(* What happens around the transaction. *)
LEMMA OthersType == ASSUME TypeOK, Others PROVE TypeOK'
<1>1. {"idle"} \subseteq PC /\ {""} \subseteq Result BY DEF PC, Result
<1>2. CASE Kill BY <1>1, <1>2, IdleType, StillType DEF Kill
<1>3. CASE ReloadEnds
  <2>1. PICK run \in reloads.running, ok \in BOOLEAN :
          /\ caddy' = IF ok THEN Serving(run.view) ELSE caddy
          /\ reloads' = IF reloads.queued
                          THEN [running |-> {[kind |-> run.kind, view |-> ViewOf(disk)]}, queued |-> FALSE, answer |-> "none"]
                          ELSE [running |-> {}, queued |-> FALSE, answer |-> IF ok THEN "ok" ELSE "refused"]
    BY <1>3 DEF ReloadEnds
  <2>2. run \in Reads BY DEF TypeOK
  <2>3. caddy' \in [up : BOOLEAN, view : Views] BY <2>1, <2>2 DEF TypeOK, Reads, Serving
  <2>4. [kind |-> run.kind, view |-> ViewOf(disk)] \in Reads BY <2>2, ViewType DEF TypeOK, Reads
  <2>5. reloads' \in [running : SUBSET Reads, queued : BOOLEAN, answer : Answer] BY <2>1, <2>4 DEF Answer
  <2> QED BY <1>3, <2>3, <2>5 DEF ReloadEnds, TypeOK
<1>4. CASE CaddyDies
  <2>1. caddy' \in [up : BOOLEAN, view : Views] BY <1>4 DEF CaddyDies, Down, TypeOK
  <2>2. reloads' \in [running : SUBSET Reads, queued : BOOLEAN, answer : Answer]
    BY <1>4 DEF CaddyDies, NoReloads, TypeOK, Answer
  <2> QED BY <1>4, <2>1, <2>2 DEF CaddyDies, TypeOK
<1>5. CASE CaddyRestarts BY <1>5, ViewType DEF CaddyRestarts, TypeOK
<1>6. CASE PowerCut
  <2>1. NoReloads \in [running : SUBSET Reads, queued : BOOLEAN, answer : Answer] BY DEF NoReloads, Answer
  <2> QED BY <1>1, <1>6, <2>1, ViewType, IdleType DEF PowerCut, TypeOK
<1>7. CASE Operator
  <2>1. PICK b \in backup : disk' = PutBack(disk, b) /\ caddy' = Serving(ViewOf(disk')) BY <1>7 DEF Operator
  <2>2. disk' \in Disk BY <2>1, PutBackType
  <2> QED BY <1>7, <2>1, <2>2, ViewType DEF Operator, TypeOK
<1>8. ASSUME NEW s \in Site, Outsider(s) PROVE TypeOK'
  <2>1. PICK m \in Manifest, c \in Code \cup {NoCode}, hand \in BOOLEAN :
          /\ disk' = [manifest |-> [disk.manifest EXCEPT ![s] = m],
                      block |-> [disk.block EXCEPT ![s] = IF hand THEN "hand" ELSE generateFragment(m)],
                      codes |-> Holding([disk.codes.entries EXCEPT ![s] = c]),
                      fragment |-> [disk.fragment EXCEPT ![s] = c]]
          /\ pages' = IF m.lock THEN pages \cup {s} ELSE pages
    BY <1>8 DEF Outsider
  <2>2. disk.codes.entries \in Entries /\ disk.fragment \in Entries BY CodesEntries DEF TypeOK, Disk
  <2>3. [disk.codes.entries EXCEPT ![s] = c] \in Entries /\ [disk.fragment EXCEPT ![s] = c] \in Entries
    BY <2>2 DEF Entries
  <2>4. "hand" \in Block /\ generateFragment(m) \in Block BY FragmentType DEF Block
  <2>5. disk' \in Disk
    <3>1. disk.manifest \in [Site -> Manifest] /\ disk.block \in [Site -> Block] BY DEF TypeOK, Disk
    <3>2. Holding([disk.codes.entries EXCEPT ![s] = c]) \in CodesFile BY <2>3, CodesFileType
    <3> QED BY <2>1, <2>3, <2>4, <3>1, <3>2 DEF Disk
  <2>6. pages' \subseteq Site BY <2>1 DEF TypeOK
  <2> QED BY <1>8, <2>5, <2>6, ViewType DEF Outsider, TypeOK
<1> QED BY <1>2, <1>3, <1>4, <1>5, <1>6, <1>7, <1>8 DEF Others

(* Every reachable state is of its type: files, views, backups and jobs are
   what the code's types say, whatever fails, dies or loses power. *)
THEOREM TypeCorrect == Spec => []TypeOK
<1>1. Init => TypeOK BY InitType
<1>2. TypeOK /\ [Next]_vars => TypeOK'
  <2> SUFFICES ASSUME TypeOK, [Next]_vars PROVE TypeOK' OBVIOUS
  <2>1. CASE Gatekeeper BY <2>1, PreparesType, WritesType, RestoresType DEF Gatekeeper
  <2>2. CASE Others BY <2>2, OthersType
  <2>3. CASE UNCHANGED vars BY <2>3 DEF vars, TypeOK
  <2> QED BY <2>1, <2>2, <2>3 DEF Next
<1> QED BY <1>1, <1>2, PTL DEF Spec
-----------------------------------------------------------------------------
(* The inductive invariant behind Recoverable: what each step of the
   transaction knows of the backup, of the plan and of the files. *)
SavedAs(whole) == [site |-> job.site, whole |-> whole, files |-> job.first, locks |-> locksAtStake]

BackupHeld ==
  /\ pc \in {"read", "preconditions", "reread", "page", "save"} => backup = {}
  /\ pc = "saving" => backup = {SavedAs(FALSE)}
  /\ Changing => backup = {SavedAs(TRUE)}

Planned ==
  pc \in {"preconditions", "reread", "page", "save", "saving"} \cup Writing =>
    Kind(job.site, job.action, job.first, job.drawn) = "change"

AsRead == pc \in {"page", "save", "saving"} => readAll(job.site, disk) = job.first

(* The files below are still as read, or already as planned. *)
Forward ==
  /\ pc \in Writing => \A t \in Site \ {job.site} : disk.manifest[t].lock = job.first.locks[t]
  /\ pc = "writeManifest" => disk.manifest[job.site] = job.first.manifest
  /\ pc \in Writing \ {"writeManifest"} => disk.manifest[job.site] = goal.manifest
  /\ pc \in {"writeManifest", "writeCodes"} => disk.codes = job.first.codes
  /\ pc \in Writing \ {"writeManifest", "writeCodes", "writeTorn"} => disk.codes = goal.codes
  /\ pc \in {"writeManifest", "writeCodes", "writeTorn", "writeBlock"} => disk.block[job.site] = job.first.block
  /\ pc \in Writing \ {"writeManifest", "writeCodes", "writeTorn", "writeBlock"} => disk.block[job.site] = goal.block
  /\ pc \in {"writeManifest", "writeCodes", "writeTorn", "writeBlock", "writeFragment"} => disk.fragment = job.first.fragment
  /\ pc \in {"validate", "reload", "waiting", "probe", "cleanOk"} => disk.fragment = goal.fragment

(* The files below are back as they were read. *)
Back ==
  /\ pc \in Settling \ {"restoreManifest"} => disk.manifest[job.site] = job.first.manifest
  /\ pc \in Settling \ {"restoreManifest", "restoreBlock"} => disk.block[job.site] = job.first.block
  /\ pc \in {"restoreFragment", "revalidate", "rereload", "rewaiting", "cleanRestored"} =>
       disk.codes \in {job.first.codes, wantedCodes}
  /\ pc \in {"revalidate", "rereload", "rewaiting", "cleanRestored"} => disk.fragment = job.first.fragment

(* Files of the locks only move when this site's lock is at stake. *)
LocksLeft ==
  /\ Changing /\ ~locksAtStake => disk.codes = job.first.codes /\ disk.fragment = job.first.fragment
  /\ pc \in {"writeTorn", "restoreCodes", "restoreTorn", "restoreFragment"} => locksAtStake

Sound ==
  /\ backup = {} => Coherent(disk)
  /\ \A b \in backup : Coherent(PutBack(disk, b))

Tracked == BackupHeld /\ Planned /\ AsRead /\ Forward /\ Back /\ LocksLeft
IInv == TypeOK /\ Tracked

-----------------------------------------------------------------------------
(* Coherence, and the putting back of a complete backup, file by file. *)
LEMMA CoherentAlike ==
  ASSUME NEW d, NEW e, Coherent(d), e.codes = d.codes, e.fragment = d.fragment,
         \A t \in Site : e.manifest[t] = d.manifest[t] /\ e.block[t] = d.block[t]
  PROVE Coherent(e)
BY DEF Coherent

LEMMA PutBackFields ==
  ASSUME NEW d \in Disk, NEW b, b.site \in Site, b.whole
  PROVE /\ \A t \in Site \ {b.site} : /\ PutBack(d, b).manifest[t] = d.manifest[t]
                                      /\ PutBack(d, b).block[t] = d.block[t]
        /\ PutBack(d, b).manifest[b.site] = b.files.manifest
        /\ PutBack(d, b).block[b.site] = b.files.block
        /\ b.locks => PutBack(d, b).codes = b.files.codes /\ PutBack(d, b).fragment = b.files.fragment
        /\ ~b.locks => PutBack(d, b).codes = d.codes /\ PutBack(d, b).fragment = d.fragment
<1> DEFINE one == [[d EXCEPT !.manifest[b.site] = b.files.manifest] EXCEPT !.block[b.site] = b.files.block]
<1>1. d.manifest \in [Site -> Manifest] /\ d.block \in [Site -> Block] BY DEF Disk
<1>2. /\ \A t \in Site \ {b.site} : one.manifest[t] = d.manifest[t] /\ one.block[t] = d.block[t]
      /\ one.manifest[b.site] = b.files.manifest /\ one.block[b.site] = b.files.block
      /\ one.codes = d.codes /\ one.fragment = d.fragment
  BY <1>1 DEF Disk
<1>3. DOMAIN one = {"manifest", "block", "codes", "fragment"} BY DEF Disk
<1> DEFINE two == [[one EXCEPT !.codes = b.files.codes] EXCEPT !.fragment = b.files.fragment]
<1> HIDE DEF one
<1>4. /\ two.manifest = one.manifest /\ two.block = one.block
      /\ two.codes = b.files.codes /\ two.fragment = b.files.fragment
  BY <1>3
<1>5. PutBack(d, b) = IF b.locks THEN two ELSE one BY DEF PutBack, one
<1> HIDE DEF two
<1> QED BY <1>2, <1>4, <1>5

(* A disk that is as the backup says is put back onto itself. *)
LEMMA PutBackSame ==
  ASSUME NEW d \in Disk, NEW b, b.site \in Site, b.whole, readAll(b.site, d) = b.files, Coherent(d)
  PROVE Coherent(PutBack(d, b))
<1>1. /\ d.manifest[b.site] = b.files.manifest /\ d.block[b.site] = b.files.block
      /\ d.codes = b.files.codes /\ d.fragment = b.files.fragment
  BY DEF readAll
<1>2. /\ PutBack(d, b).codes = d.codes /\ PutBack(d, b).fragment = d.fragment
      /\ \A t \in Site : PutBack(d, b).manifest[t] = d.manifest[t] /\ PutBack(d, b).block[t] = d.block[t]
  BY <1>1, PutBackFields
<1> QED BY <1>2, CoherentAlike

(* What is put back does not depend on the files a transaction writes. *)
LEMMA PutBackKeeps ==
  ASSUME NEW d \in Disk, NEW e \in Disk, NEW b, b.site \in Site, b.whole, b.locks \in BOOLEAN,
         \A t \in Site \ {b.site} : e.manifest[t] = d.manifest[t] /\ e.block[t] = d.block[t],
         ~b.locks => e.codes = d.codes /\ e.fragment = d.fragment,
         Coherent(PutBack(d, b))
  PROVE Coherent(PutBack(e, b))
<1>1. /\ PutBack(e, b).codes = PutBack(d, b).codes /\ PutBack(e, b).fragment = PutBack(d, b).fragment
      /\ \A t \in Site : /\ PutBack(e, b).manifest[t] = PutBack(d, b).manifest[t]
                         /\ PutBack(e, b).block[t] = PutBack(d, b).block[t]
  BY PutBackFields
<1> QED BY <1>1, CoherentAlike

LEMMA JobStill ==
  ASSUME job'.site = job.site, job'.action = job.action, job'.first = job.first, job'.drawn = job.drawn
  PROVE /\ goal' = goal /\ locksAtStake' = locksAtStake /\ wantedCodes' = wantedCodes /\ target' = target
        /\ SavedAs(TRUE)' = SavedAs(TRUE) /\ SavedAs(FALSE)' = SavedAs(FALSE)
BY DEF goal, locksAtStake, wantedCodes, target, SavedAs

(* The plan is coherent: everything written, the files say the same of every
   site.  The generator's own refusal, Buildable, is what makes it so. *)
LEMMA GoalCoherent ==
  ASSUME NEW d \in Disk, NEW s \in Site, NEW a \in Action, NEW first \in Deployed, NEW drawn \in Code \cup {NoCode},
         NEW b, b = [site |-> s, whole |-> TRUE, files |-> first, locks |-> involved(s, a, first)],
         Coherent(PutBack(d, b)), Kind(s, a, first, drawn) = "change",
         \A t \in Site \ {s} : d.manifest[t].lock = first.locks[t],
         d.manifest[s] = Goal(s, a, first, drawn).manifest, d.codes = Goal(s, a, first, drawn).codes,
         d.block[s] = Goal(s, a, first, drawn).block, d.fragment = Goal(s, a, first, drawn).fragment,
         ~involved(s, a, first) => d.codes = first.codes /\ d.fragment = first.fragment
  PROVE Coherent(d)
<1> DEFINE new == NewCodes(s, a, first, drawn)
           m == targetManifest(targetOf(a))
           e == PutBack(d, b)
<1>1. /\ \A t \in Site \ {s} : e.manifest[t] = d.manifest[t] /\ e.block[t] = d.block[t]
      /\ e.manifest[s] = first.manifest /\ e.block[s] = first.block
      /\ involved(s, a, first) => e.codes = first.codes /\ e.fragment = first.fragment
      /\ ~involved(s, a, first) => e.codes = d.codes /\ e.fragment = d.fragment
  <2>1. b.site = s /\ b.whole /\ b.files = first /\ b.locks = involved(s, a, first) OBVIOUS
  <2> QED BY <2>1, PutBackFields
<1>2. e.codes = first.codes /\ e.fragment = first.fragment BY <1>1
<1>3. Valid(s, m)
  <2>1. ~RefusedThen(s, a, first, drawn) BY DEF Kind
  <2> QED BY <2>1 DEF RefusedThen
<1>4. d.manifest[s] = m /\ d.block[s] = generateFragment(m) BY DEF Goal
<1>5. Readable(first.codes) /\ first.fragment = first.codes.entries BY <1>2 DEF Coherent
<1>0. Coherent(e) OBVIOUS
<1>10. \/ d.fragment = new /\ Buildable(NewLocks(s, a, first), new)
       \/ ~involved(s, a, first)
  BY DEF Goal, Kind, RefusedThen
<1>11. m.lock = (targetOf(a) = "code") BY DEF targetManifest
<1>12. involved(s, a, first) => Readable(d.codes) /\ d.codes.entries = new
  BY <1>5 DEF Goal, Holding, Readable
<1> HIDE DEF e, m, new
<1>6. \A t \in Site \ {s} : /\ Valid(t, d.manifest[t])
                            /\ d.manifest[t].lock <=> first.fragment[t] # NoCode
                            /\ d.block[t] \in {generateFragment(d.manifest[t]), "hand"}
  BY <1>0, <1>1, <1>2 DEF Coherent
<1>9. ASSUME Readable(d.codes), d.fragment = d.codes.entries,
             \A t \in Site : d.manifest[t].lock <=> d.fragment[t] # NoCode
      PROVE Coherent(d)
  <2>1. Valid(s, d.manifest[s]) /\ d.block[s] = generateFragment(d.manifest[s]) BY <1>3, <1>4
  <2>2. \A t \in Site : Valid(t, d.manifest[t]) /\ d.block[t] \in {generateFragment(d.manifest[t]), "hand"}
    <3>1. ASSUME NEW t \in Site, t = s PROVE Valid(t, d.manifest[t]) /\ d.block[t] \in {generateFragment(d.manifest[t]), "hand"}
      BY <2>1, <3>1
    <3>2. ASSUME NEW t \in Site \ {s} PROVE Valid(t, d.manifest[t]) /\ d.block[t] \in {generateFragment(d.manifest[t]), "hand"}
      BY <1>6
    <3> QED BY <3>1, <3>2
  <2> QED BY <1>9, <2>2 DEF Coherent
<1>7. CASE involved(s, a, first)
  <2>1. d.fragment = new /\ Buildable(NewLocks(s, a, first), new) BY <1>7, <1>10
  <2>2. Readable(d.codes) /\ d.codes.entries = new BY <1>7, <1>12
  <2>4. \A t \in Site : NewLocks(s, a, first)[t] <=> new[t] # NoCode BY <2>1 DEF Buildable
  <2>5. first.locks \in [Site -> BOOLEAN] BY DEF Deployed
  <2>6. \A t \in Site : d.manifest[t].lock <=> d.fragment[t] # NoCode
    <3>1. ASSUME NEW t \in Site \ {s} PROVE d.manifest[t].lock <=> d.fragment[t] # NoCode
      <4>1. NewLocks(s, a, first)[t] = first.locks[t] BY <2>5 DEF NewLocks
      <4> QED BY <2>1, <2>4, <4>1
    <3>2. d.manifest[s].lock <=> d.fragment[s] # NoCode
      <4>1. NewLocks(s, a, first)[s] = (targetOf(a) = "code") BY <2>5 DEF NewLocks
      <4> QED BY <1>4, <1>11, <2>1, <2>4, <4>1
    <3> QED BY <3>1, <3>2
  <2> QED BY <1>9, <2>1, <2>2, <2>6
<1>8. CASE ~involved(s, a, first)
  <2>1. d.codes = first.codes /\ d.fragment = first.fragment BY <1>8
  <2>2. targetOf(a) # "code" /\ first.fragment[s] = NoCode BY <1>8 DEF involved, inService
  <2>3. ~m.lock BY <1>11, <2>2
  <2>4. \A t \in Site : d.manifest[t].lock <=> d.fragment[t] # NoCode
    <3>1. ASSUME NEW t \in Site, t = s PROVE d.manifest[t].lock <=> d.fragment[t] # NoCode
      <4>1. d.manifest[t].lock = m.lock /\ d.fragment[t] = NoCode BY <1>4, <2>1, <2>2, <3>1
      <4> QED BY <2>3, <4>1
    <3>2. ASSUME NEW t \in Site \ {s} PROVE d.manifest[t].lock <=> d.fragment[t] # NoCode
      <4>1. d.fragment[t] = first.fragment[t] BY <2>1
      <4> QED BY <1>6, <4>1
    <3> QED BY <3>1, <3>2
  <2> QED BY <1>5, <1>9, <2>1, <2>4
<1> QED BY <1>7, <1>8

(* Everything put back, the files are those of the backup again; a codes file
   that was missing may now be there, and empty. *)
LEMMA BackCoherent ==
  ASSUME NEW d \in Disk, NEW s \in Site, NEW first \in Deployed, NEW stake \in BOOLEAN,
         NEW b, b = [site |-> s, whole |-> TRUE, files |-> first, locks |-> stake],
         Coherent(PutBack(d, b)),
         d.manifest[s] = first.manifest, d.block[s] = first.block, d.fragment = first.fragment,
         d.codes = first.codes \/ (first.codes = Absent /\ d.codes = Holding(None))
  PROVE Coherent(d)
<1> DEFINE e == PutBack(d, b)
<1>1. /\ \A t \in Site : e.manifest[t] = d.manifest[t] /\ e.block[t] = d.block[t]
      /\ e.fragment = d.fragment
      /\ e.codes \in {d.codes, first.codes}
  BY PutBackFields
<1>2. Readable(d.codes) /\ d.codes.entries = e.codes.entries
  BY <1>1 DEF Coherent, Readable, Holding, Absent
<1> QED BY ZenonT(40), <1>1, <1>2 DEF Coherent

-----------------------------------------------------------------------------
(* The invariant, one group of steps at a time. *)
LEMMA InitInv == ASSUME Init PROVE IInv /\ Sound
<1>1. TypeOK BY InitType
<1>2. pc = "idle" /\ backup = {} BY DEF Init
<1>3. Tracked BY <1>2 DEF Tracked, BackupHeld, Planned, AsRead, Forward, Back, LocksLeft, Changing, Writing, Settling
<1>4. Coherent(disk)
  <2>1. \A s \in Site : disk.manifest[s] = targetManifest("public") /\ disk.block[s] = "open" BY DEF Init
  <2>2. ~targetManifest("public").lock /\ ~targetManifest("public").portal BY DEF targetManifest
  <2>3. \A s \in Site : disk.fragment[s] = NoCode BY DEF Init, None
  <2>4. Readable(disk.codes) /\ disk.fragment = disk.codes.entries BY DEF Init, Absent, Readable
  <2>5. \A s \in Site : /\ Valid(s, disk.manifest[s])
                        /\ disk.manifest[s].lock <=> disk.fragment[s] # NoCode
                        /\ disk.block[s] \in {generateFragment(disk.manifest[s]), "hand"}
    <3> TAKE s \in Site
    <3>1. Valid(s, disk.manifest[s]) BY <2>1, <2>2 DEF Valid
    <3>2. ~disk.manifest[s].lock /\ disk.fragment[s] = NoCode BY <2>1, <2>2, <2>3
    <3>3. disk.block[s] = generateFragment(disk.manifest[s]) BY <2>1, <2>2 DEF generateFragment
    <3>4. disk.manifest[s].lock <=> disk.fragment[s] # NoCode BY <3>2
    <3> QED BY <3>1, <3>3, <3>4
  <2> QED BY <2>4, <2>5 DEF Coherent
<1> QED BY <1>1, <1>2, <1>3, <1>4 DEF IInv, Sound

LEMMA SoundStill ==
  ASSUME UNCHANGED <<disk, backup>>
  PROVE Sound => Sound'
BY DEF Sound

LEMMA Completed ==
  ASSUME NEW s, NEW f, NEW l
  PROVE [[site |-> s, whole |-> FALSE, files |-> f, locks |-> l] EXCEPT !.whole = TRUE]
          = [site |-> s, whole |-> TRUE, files |-> f, locks |-> l]
<1> DEFINE r == [site |-> s, whole |-> FALSE, files |-> f, locks |-> l]
<1>1. /\ r = [i \in {"site", "whole", "files", "locks"} |-> r[i]]
      /\ r.site = s /\ r.files = f /\ r.locks = l
  OBVIOUS
<1> HIDE DEF r
<1>2. [r EXCEPT !.whole = TRUE] \in [site : {s}, whole : {TRUE}, files : {f}, locks : {l}]
  BY <1>1
<1> DEFINE w == [site |-> s, whole |-> TRUE, files |-> f, locks |-> l]
<1>4. w = [i \in {"site", "whole", "files", "locks"} |-> w[i]] /\ w.site = s /\ w.whole /\ w.files = f /\ w.locks = l
  OBVIOUS
<1> HIDE DEF w
<1>3. \A e \in [site : {s}, whole : {TRUE}, files : {f}, locks : {l}] : e = w
  BY <1>4
<1> QED BY <1>2, <1>3 DEF r, w

(* Back to idle, or done: nothing is tracked any more. *)
LEMMA RestingTracked ==
  ASSUME pc' \in {"idle", "done", "interrupted"}
  PROVE Tracked'
BY DEF Tracked, BackupHeld, Planned, AsRead, Forward, Back, LocksLeft, Changing, Writing, Settling

LEMMA PreparesInv ==
  ASSUME IInv, TypeOK',
         \/ \E s \in Site, a \in Action : Start(s, a)
         \/ Interrupted \/ PlanFirst \/ Preconditions \/ GiveUp \/ Reread \/ PlacePage
         \/ SaveBackup \/ BackupSaved \/ BackupFailed
  PROVE Tracked' /\ (Sound => Sound')
<1> USE DEF IInv, Tracked
<1>1. ASSUME NEW s \in Site, NEW a \in Action, Start(s, a) PROVE Tracked' /\ (Sound => Sound')
  BY <1>1, SoundStill, RestingTracked DEF Start, Goto, world
<1>2. CASE Interrupted
  <2>1. CASE backup = {}
    <3>1. pc' = "read" /\ backup' = {} BY <1>2, <2>1 DEF Interrupted, Goto, world
    <3>2. Tracked' BY <3>1 DEF Tracked, BackupHeld, Planned, AsRead, Forward, Back, LocksLeft, Changing, Writing, Settling
    <3> QED BY <1>2, <3>2, SoundStill DEF Interrupted, world
  <2>2. CASE backup # {}
    <3>1. pc' = "done" BY <1>2, <2>2 DEF Interrupted, Finish
    <3> QED BY <1>2, <3>1, SoundStill, RestingTracked DEF Interrupted, world
  <2> QED BY <2>1, <2>2
<1>3. CASE PlanFirst
  <2>1. UNCHANGED <<disk, backup>> /\ backup = {} BY <1>3 DEF PlanFirst, BackupHeld
  <2>2. CASE pc' = "done" BY <2>1, <2>2, SoundStill, RestingTracked
  <2>3. CASE pc' # "done"
    <3>1. pc' = "preconditions" /\ Kind(job'.site, job'.action, job'.first, job'.drawn) = "change"
      BY <1>3, <2>3 DEF PlanFirst, Goto, Finish
    <3>2. Tracked' BY <2>1, <3>1 DEF Tracked, BackupHeld, Planned, AsRead, Forward, Back, LocksLeft, Changing, Writing, Settling
    <3> QED BY <2>1, <3>2, SoundStill
  <2> QED BY <2>2, <2>3
<1>4. CASE Preconditions
  <2>1. UNCHANGED <<disk, backup, job>> /\ pc = "preconditions" /\ pc' = "reread"
    BY <1>4 DEF Preconditions, Goto, world
  <2>2. Tracked' BY <2>1 DEF Tracked, BackupHeld, Planned, AsRead, Forward, Back, LocksLeft, Changing, Writing, Settling
  <2> QED BY <2>1, <2>2, SoundStill
<1>5. CASE GiveUp BY <1>5, SoundStill, RestingTracked DEF GiveUp, Finish, world
<1>6. CASE Reread
  <2>1. UNCHANGED <<disk, backup, job>> /\ pc = "reread" BY <1>6 DEF Reread, world
  <2>2. CASE readAll(job.site, disk) = job.first
    <3>1. pc' \in {"page", "save"} BY <1>6, <2>2 DEF Reread, Goto
    <3>2. Tracked' BY <2>1, <2>2, <3>1 DEF Tracked, BackupHeld, Planned, AsRead, Forward, Back, LocksLeft, Changing, Writing, Settling
    <3> QED BY <2>1, <3>2, SoundStill
  <2>3. CASE readAll(job.site, disk) # job.first
    <3>1. pc' = "done" BY <1>6, <2>3 DEF Reread, Finish
    <3> QED BY <2>1, <3>1, SoundStill, RestingTracked
  <2> QED BY <2>2, <2>3
<1>7. CASE PlacePage
  <2>1. UNCHANGED <<disk, backup, job>> /\ pc = "page" /\ pc' = "save" BY <1>7 DEF PlacePage, Goto
  <2>2. Tracked' BY <2>1 DEF Tracked, BackupHeld, Planned, AsRead, Forward, Back, LocksLeft, Changing, Writing, Settling
  <2> QED BY <2>1, <2>2, SoundStill
<1>8. CASE SaveBackup
  <2>1. UNCHANGED <<disk, job>> /\ pc = "save" /\ pc' = "saving" BY <1>8 DEF SaveBackup, Goto
  <2>2. backup = {} /\ backup' = {SavedAs(FALSE)} BY <1>8 DEF SaveBackup, BackupHeld, SavedAs
  <2>3. SavedAs(FALSE)' = SavedAs(FALSE) BY <2>1, JobStill
  <2>4. Tracked' BY <2>1, <2>2, <2>3 DEF Tracked, BackupHeld, Planned, AsRead, Forward, Back, LocksLeft, Changing, Writing, Settling
  <2>5. ASSUME Sound PROVE Coherent(disk) /\ PutBack(disk, SavedAs(FALSE)) = disk
    BY <2>2, <2>5 DEF Sound, PutBack, SavedAs
  <2> QED BY <2>1, <2>2, <2>4, <2>5 DEF Sound
<1>9. CASE BackupSaved
  <2>1. UNCHANGED <<disk, job>> /\ pc = "saving" /\ pc' = "writeManifest" BY <1>9 DEF BackupSaved, Goto
  <2>2. backup = {SavedAs(FALSE)} BY <2>1 DEF BackupHeld
  <2>3. [SavedAs(FALSE) EXCEPT !.whole = TRUE] = SavedAs(TRUE) BY Completed DEF SavedAs
  <2>4. backup' = {SavedAs(TRUE)} BY <1>9, <2>2, <2>3 DEF BackupSaved
  <2>5. readAll(job.site, disk) = job.first BY <2>1 DEF AsRead
  <2>6. ASSUME Sound PROVE Coherent(PutBack(disk, SavedAs(TRUE)))
    <3>1. Coherent(disk) BY <2>2, <2>6 DEF Sound, PutBack, SavedAs
    <3>2. disk \in Disk BY DEF TypeOK
    <3> QED BY <2>5, <3>1, <3>2, JobType, PutBackSame DEF SavedAs
  <2>7. /\ disk.manifest[job.site] = job.first.manifest /\ disk.block[job.site] = job.first.block
        /\ disk.codes = job.first.codes /\ disk.fragment = job.first.fragment
        /\ \A t \in Site : disk.manifest[t].lock = job.first.locks[t]
    BY <2>5 DEF readAll
  <2>8. Forward' BY <2>1, <2>7 DEF Forward, Writing
  <2>9. (BackupHeld /\ Planned /\ AsRead /\ Back /\ LocksLeft)'
    BY <2>1, <2>4, <2>7, JobStill DEF BackupHeld, Planned, AsRead, Back, LocksLeft, Changing, Writing, Settling
  <2> QED BY <2>1, <2>4, <2>6, <2>8, <2>9 DEF Sound, Tracked
<1>10. CASE BackupFailed
  <2>1. UNCHANGED disk /\ pc = "saving" /\ pc' = "done" /\ backup' \in {{}, backup} BY <1>10 DEF BackupFailed, Finish
  <2>2. backup = {SavedAs(FALSE)} BY <2>1 DEF BackupHeld
  <2>3. PutBack(disk, SavedAs(FALSE)) = disk BY DEF PutBack, SavedAs
  <2>4. ASSUME Sound PROVE Coherent(disk) BY <2>2, <2>3, <2>4 DEF Sound
  <2>5. Sound => Sound' BY <2>1, <2>2, <2>3, <2>4 DEF Sound
  <2> QED BY <2>1, <2>5, RestingTracked
<1> QED BY <1>1, <1>2, <1>3, <1>4, <1>5, <1>6, <1>7, <1>8, <1>9, <1>10

-----------------------------------------------------------------------------
(* Each write moves one file, of this site. *)
LEMMA PutFields ==
  ASSUME TypeOK, NEW f
  PROVE /\ PutManifest(disk, f).manifest[job.site] = f.manifest
        /\ \A t \in Site \ {job.site} : PutManifest(disk, f).manifest[t] = disk.manifest[t]
        /\ PutManifest(disk, f).block = disk.block
        /\ PutManifest(disk, f).codes = disk.codes
        /\ PutManifest(disk, f).fragment = disk.fragment
        /\ PutBlock(disk, f).block[job.site] = f.block
        /\ \A t \in Site \ {job.site} : PutBlock(disk, f).block[t] = disk.block[t]
        /\ PutBlock(disk, f).manifest = disk.manifest
        /\ PutBlock(disk, f).codes = disk.codes
        /\ PutBlock(disk, f).fragment = disk.fragment
        /\ PutCodes(disk, f).codes = f.codes
        /\ PutCodes(disk, f).manifest = disk.manifest
        /\ PutCodes(disk, f).block = disk.block
        /\ PutCodes(disk, f).fragment = disk.fragment
        /\ PutFragment(disk, f).fragment = f.fragment
        /\ PutFragment(disk, f).manifest = disk.manifest
        /\ PutFragment(disk, f).block = disk.block
        /\ PutFragment(disk, f).codes = disk.codes
<1>1. disk \in Disk /\ job.site \in Site BY JobType DEF TypeOK
<1>2. disk.manifest \in [Site -> Manifest] /\ disk.block \in [Site -> Block] BY <1>1 DEF Disk
<1> QED BY <1>1, <1>2 DEF Disk, PutManifest, PutBlock, PutCodes, PutFragment

(* A plan that does not involve the locks leaves their files alone. *)
LEMMA GoalLocks ==
  ~locksAtStake => goal.codes = job.first.codes /\ goal.fragment = job.first.fragment
BY DEF goal, locksAtStake, Goal

(* A step of a change that moves only this site's files, and the locks' only
   when this site's lock is at stake, leaves the same backup as good. *)
LEMMA ChangeSound ==
  ASSUME IInv, TypeOK', Changing, backup' = backup,
         \A t \in Site \ {job.site} : disk'.manifest[t] = disk.manifest[t] /\ disk'.block[t] = disk.block[t],
         ~locksAtStake => disk'.codes = disk.codes /\ disk'.fragment = disk.fragment
  PROVE (Sound => Sound') /\ backup' = {SavedAs(TRUE)}
<1>1. backup = {SavedAs(TRUE)} BY DEF IInv, Tracked, BackupHeld
<1>2. Sound => Coherent(PutBack(disk, SavedAs(TRUE))) BY <1>1 DEF Sound
<1>3. disk \in Disk /\ disk' \in Disk BY DEF IInv, TypeOK
<1>4. SavedAs(TRUE).site = job.site /\ SavedAs(TRUE).whole /\ SavedAs(TRUE).locks = locksAtStake BY DEF SavedAs
<1>5. job.site \in Site /\ locksAtStake \in BOOLEAN BY JobType DEF IInv, locksAtStake, involved
<1>6. Sound => Coherent(PutBack(disk', SavedAs(TRUE))) BY <1>2, <1>3, <1>4, <1>5, PutBackKeeps
<1> QED BY <1>1, <1>6 DEF Sound

(* The way out, and the way on. *)
LEMMA RestoringTracked ==
  ASSUME pc' = "restoreManifest", job'.site = job.site, job'.action = job.action,
         job'.first = job.first, job'.drawn = job.drawn, backup' = {SavedAs(TRUE)},
         ~locksAtStake => disk'.codes = job.first.codes /\ disk'.fragment = job.first.fragment
  PROVE Tracked'
BY JobStill DEF Tracked, BackupHeld, Planned, AsRead, Forward, Back, LocksLeft, Changing, Writing, Settling

LEMMA ForwardTracked ==
  ASSUME IInv, pc \in Writing, pc' \in Writing, job'.site = job.site, job'.action = job.action,
         job'.first = job.first, job'.drawn = job.drawn, backup' = {SavedAs(TRUE)}, Forward',
         ~locksAtStake => disk'.codes = job.first.codes /\ disk'.fragment = job.first.fragment,
         pc' = "writeTorn" => locksAtStake
  PROVE Tracked'
<1>1. Kind(job'.site, job'.action, job'.first, job'.drawn) = "change" BY DEF IInv, Tracked, Planned
<1> QED BY <1>1, JobStill DEF Tracked, BackupHeld, Planned, AsRead, Back, LocksLeft, Changing, Writing, Settling

LEMMA WritesInv ==
  ASSUME IInv, TypeOK',
         \/ WriteManifest \/ WriteCodes \/ WriteTorn \/ WriteBlock \/ WriteFragment
         \/ Validate \/ Reload \/ ReloadAnswered \/ Probe
  PROVE Tracked' /\ (Sound => Sound')
<1>1. TypeOK /\ Changing /\ pc \in Writing
  BY DEF IInv, WriteManifest, WriteCodes, WriteTorn, WriteBlock, WriteFragment, Write, Validate, Reload,
         ReloadAnswered, Probe, Changing, Writing
<1>2. Forward /\ (~locksAtStake => disk.codes = job.first.codes /\ disk.fragment = job.first.fragment)
  BY <1>1 DEF IInv, Tracked, LocksLeft
<1>3. CASE WriteManifest
  <2>1. /\ pc = "writeManifest" /\ UNCHANGED <<backup, job>>
        /\ disk' \in {disk, PutManifest(disk, goal)}
        /\ \/ pc' = "restoreManifest"
           \/ pc' = "writeCodes" /\ disk' = IF goal.manifest # job.first.manifest THEN PutManifest(disk, goal) ELSE disk
    BY <1>3 DEF WriteManifest, Write, Restoring, Goto
  <2>2. /\ disk'.block = disk.block /\ disk'.codes = disk.codes /\ disk'.fragment = disk.fragment
        /\ \A t \in Site \ {job.site} : disk'.manifest[t] = disk.manifest[t]
    BY <1>1, <2>1, PutFields
  <2>3. (Sound => Sound') /\ backup' = {SavedAs(TRUE)} BY <1>1, <2>1, <2>2, ChangeSound
  <2>4. CASE pc' = "restoreManifest" BY <1>2, <2>1, <2>2, <2>3, <2>4, RestoringTracked
  <2>5. CASE pc' # "restoreManifest"
    <3>1. disk'.manifest[job.site] = goal.manifest BY <1>1, <1>2, <2>1, <2>5, PutFields DEF Forward
    <3>2. Forward' BY <1>2, <2>1, <2>2, <2>5, <3>1, JobStill DEF Forward, Writing
    <3> QED BY <1>1, <1>2, <2>1, <2>2, <2>3, <2>5, <3>2, ForwardTracked DEF Writing
  <2> QED BY <2>3, <2>4, <2>5
<1>4. CASE WriteCodes
  <2>1. /\ pc = "writeCodes" /\ UNCHANGED <<backup, job>>
        /\ \/ pc' = "restoreManifest" /\ disk' \in {disk, Tear(disk), PutCodes(disk, goal)}
                /\ goal.codes # job.first.codes
           \/ pc' = "writeTorn" /\ disk' = Tear(disk) /\ goal.codes # job.first.codes
           \/ pc' = "writeBlock" /\ disk' = IF goal.codes # job.first.codes THEN PutCodes(disk, goal) ELSE disk
    BY <1>4 DEF WriteCodes, Write, Restoring, Goto
  <2>2. /\ disk'.block = disk.block /\ disk'.manifest = disk.manifest /\ disk'.fragment = disk.fragment
        /\ ~locksAtStake => disk'.codes = disk.codes
    BY <1>1, <2>1, PutFields, GoalLocks DEF Tear, TypeOK, Disk
  <2>3. (Sound => Sound') /\ backup' = {SavedAs(TRUE)} BY <1>1, <2>1, <2>2, ChangeSound
  <2>4. CASE pc' = "restoreManifest" BY <1>2, <2>1, <2>2, <2>3, <2>4, RestoringTracked
  <2>5. CASE pc' # "restoreManifest"
    <3>1. pc' = "writeBlock" => disk'.codes = goal.codes BY <1>1, <1>2, <2>1, PutFields DEF Forward
    <3>2. Forward' BY <1>2, <2>1, <2>2, <2>5, <3>1, JobStill DEF Forward, Writing
    <3>3. pc' = "writeTorn" => locksAtStake BY <2>1, GoalLocks
    <3> QED BY <1>1, <1>2, <2>1, <2>2, <2>3, <2>5, <3>2, <3>3, ForwardTracked DEF Writing
  <2> QED BY <2>3, <2>4, <2>5
<1>5. CASE WriteTorn
  <2>1. /\ pc = "writeTorn" /\ UNCHANGED <<backup, job>>
        /\ disk' \in {disk, PutCodes(disk, goal)}
        /\ \/ pc' = "restoreManifest"
           \/ pc' = "writeBlock" /\ disk' = PutCodes(disk, goal)
    BY <1>5 DEF WriteTorn, Write, Restoring, Goto
  <2>2. /\ disk'.block = disk.block /\ disk'.manifest = disk.manifest /\ disk'.fragment = disk.fragment
        /\ locksAtStake
    BY <1>1, <2>1, PutFields DEF IInv, Tracked, LocksLeft
  <2>3. (Sound => Sound') /\ backup' = {SavedAs(TRUE)} BY <1>1, <2>1, <2>2, ChangeSound
  <2>4. CASE pc' = "restoreManifest" BY <1>2, <2>1, <2>2, <2>3, <2>4, RestoringTracked
  <2>5. CASE pc' # "restoreManifest"
    <3>1. disk'.codes = goal.codes BY <1>1, <2>1, <2>5, PutFields
    <3>2. Forward' BY <1>2, <2>1, <2>2, <2>5, <3>1, JobStill DEF Forward, Writing
    <3> QED BY <1>1, <1>2, <2>1, <2>2, <2>3, <2>5, <3>2, ForwardTracked DEF Writing
  <2> QED BY <2>3, <2>4, <2>5
<1>6. CASE WriteBlock
  <2>1. /\ pc = "writeBlock" /\ UNCHANGED <<backup, job>>
        /\ disk' \in {disk, PutBlock(disk, goal)}
        /\ \/ pc' = "restoreManifest"
           \/ pc' = "writeFragment" /\ disk' = IF goal.block # job.first.block THEN PutBlock(disk, goal) ELSE disk
    BY <1>6 DEF WriteBlock, Write, Restoring, Goto
  <2>2. /\ disk'.manifest = disk.manifest /\ disk'.codes = disk.codes /\ disk'.fragment = disk.fragment
        /\ \A t \in Site \ {job.site} : disk'.block[t] = disk.block[t]
    BY <1>1, <2>1, PutFields
  <2>3. (Sound => Sound') /\ backup' = {SavedAs(TRUE)} BY <1>1, <2>1, <2>2, ChangeSound
  <2>4. CASE pc' = "restoreManifest" BY <1>2, <2>1, <2>2, <2>3, <2>4, RestoringTracked
  <2>5. CASE pc' # "restoreManifest"
    <3>1. disk'.block[job.site] = goal.block BY <1>1, <1>2, <2>1, <2>5, PutFields DEF Forward
    <3>2. Forward' BY <1>2, <2>1, <2>2, <2>5, <3>1, JobStill DEF Forward, Writing
    <3> QED BY <1>1, <1>2, <2>1, <2>2, <2>3, <2>5, <3>2, ForwardTracked DEF Writing
  <2> QED BY <2>3, <2>4, <2>5
<1>7. CASE WriteFragment
  <2>1. /\ pc = "writeFragment" /\ UNCHANGED <<backup, job>>
        /\ \/ pc' = "restoreManifest" /\ goal.fragment # job.first.fragment /\ disk' \in {disk, PutFragment(disk, goal)}
           \/ pc' = "validate" /\ disk' = IF goal.fragment # job.first.fragment THEN PutFragment(disk, goal) ELSE disk
    BY <1>7 DEF WriteFragment, Write, Restoring, Goto
  <2>2. /\ disk'.block = disk.block /\ disk'.manifest = disk.manifest /\ disk'.codes = disk.codes
        /\ ~locksAtStake => disk'.fragment = disk.fragment
    BY <1>1, <2>1, PutFields, GoalLocks
  <2>3. (Sound => Sound') /\ backup' = {SavedAs(TRUE)} BY <1>1, <2>1, <2>2, ChangeSound
  <2>4. CASE pc' = "restoreManifest" BY <1>2, <2>1, <2>2, <2>3, <2>4, RestoringTracked
  <2>5. CASE pc' # "restoreManifest"
    <3>1. disk'.fragment = goal.fragment BY <1>1, <1>2, <2>1, <2>5, PutFields DEF Forward
    <3>2. Forward' BY <1>2, <2>1, <2>2, <2>5, <3>1, JobStill DEF Forward, Writing
    <3> QED BY <1>1, <1>2, <2>1, <2>2, <2>3, <2>5, <3>2, ForwardTracked DEF Writing
  <2> QED BY <2>3, <2>4, <2>5
<1>8. CASE Validate \/ Reload \/ ReloadAnswered \/ Probe
  <2>1. /\ UNCHANGED <<disk, backup>>
        /\ job'.site = job.site /\ job'.action = job.action /\ job'.first = job.first /\ job'.drawn = job.drawn
    <3>1. CASE Reload BY <1>1, <3>1 DEF Reload, TypeOK, Jobs
    <3> QED BY <1>8, <3>1 DEF Validate, ReloadAnswered, Probe, world
  <2>2. pc \in {"validate", "reload", "waiting", "probe"} BY <1>8 DEF Validate, Reload, ReloadAnswered, Probe
  <2>3. pc' \in {"restoreManifest", "reload", "waiting", "probe", "cleanOk"}
    BY <1>8 DEF Validate, Reload, ReloadAnswered, Probe, Goto, Restoring
  <2>4. (Sound => Sound') /\ backup' = {SavedAs(TRUE)} BY <1>1, <2>1, ChangeSound
  <2>5. CASE pc' = "restoreManifest" BY <1>2, <2>1, <2>4, <2>5, RestoringTracked
  <2>6. CASE pc' # "restoreManifest"
    <3>1. Forward' BY <1>2, <2>1, <2>2, <2>3, <2>6, JobStill DEF Forward, Writing
    <3> QED BY <1>1, <1>2, <2>1, <2>3, <2>4, <2>6, <3>1, ForwardTracked DEF Writing
  <2> QED BY <2>4, <2>5, <2>6
<1> QED BY <1>3, <1>4, <1>5, <1>6, <1>7, <1>8

-----------------------------------------------------------------------------
LEMMA BackTracked ==
  ASSUME IInv, pc \in Settling, pc' \in Settling \ {"restoreManifest"}, job' = job, backup' = {SavedAs(TRUE)}, Back',
         ~locksAtStake => disk'.codes = job.first.codes /\ disk'.fragment = job.first.fragment,
         pc' \in {"restoreCodes", "restoreTorn", "restoreFragment"} => locksAtStake
  PROVE Tracked'
BY JobStill DEF Tracked, BackupHeld, Planned, AsRead, Forward, LocksLeft, Changing, Writing, Settling

LEMMA RestoresInv ==
  ASSUME IInv, TypeOK',
         \/ RestoreManifest \/ RestoreBlock \/ RestoreCodes \/ RestoreTorn \/ RestoreFragment
         \/ Revalidate \/ Rereload \/ RereloadAnswered
  PROVE Tracked' /\ (Sound => Sound')
<1>1. TypeOK /\ Changing /\ pc \in Settling
  BY DEF IInv, RestoreManifest, RestoreBlock, RestoreCodes, RestoreTorn, RestoreFragment, Write, Revalidate,
         Rereload, RereloadAnswered, Changing, Settling
<1>2. Back /\ (~locksAtStake => disk.codes = job.first.codes /\ disk.fragment = job.first.fragment)
  BY <1>1 DEF IInv, Tracked, LocksLeft
<1>3. CASE RestoreManifest
  <2>1. /\ pc = "restoreManifest" /\ UNCHANGED <<backup, job>>
        /\ disk' \in {disk, PutManifest(disk, job.first)}
        /\ \/ pc' = "done"
           \/ /\ pc' = "restoreBlock"
              /\ disk' = IF disk.manifest[job.site] # job.first.manifest THEN PutManifest(disk, job.first) ELSE disk
    BY <1>3 DEF RestoreManifest, Write, Stuck, Goto, Finish
  <2>2. /\ disk'.block = disk.block /\ disk'.codes = disk.codes /\ disk'.fragment = disk.fragment
        /\ \A t \in Site \ {job.site} : disk'.manifest[t] = disk.manifest[t]
    BY <1>1, <2>1, PutFields
  <2>3. (Sound => Sound') /\ backup' = {SavedAs(TRUE)} BY <1>1, <2>1, <2>2, ChangeSound
  <2>4. CASE pc' # "done"
    <3>1. disk'.manifest[job.site] = job.first.manifest BY <1>1, <2>1, <2>4, PutFields
    <3>2. Back' BY <2>1, <2>4, <3>1, JobStill DEF Back, Settling
    <3> QED BY <1>1, <1>2, <2>1, <2>2, <2>3, <2>4, <3>2, BackTracked DEF Settling
  <2> QED BY <2>3, <2>4, RestingTracked
<1>4. CASE RestoreBlock
  <2>1. /\ pc = "restoreBlock" /\ UNCHANGED <<backup, job>>
        /\ disk' \in {disk, PutBlock(disk, job.first)}
        /\ \/ pc' = "done"
           \/ /\ pc' = IF locksAtStake THEN "restoreCodes" ELSE "revalidate"
              /\ disk' = IF disk.block[job.site] # job.first.block THEN PutBlock(disk, job.first) ELSE disk
    BY <1>4 DEF RestoreBlock, Write, Stuck, Goto, Finish
  <2>2. /\ disk'.manifest = disk.manifest /\ disk'.codes = disk.codes /\ disk'.fragment = disk.fragment
        /\ \A t \in Site \ {job.site} : disk'.block[t] = disk.block[t]
    BY <1>1, <2>1, PutFields
  <2>3. (Sound => Sound') /\ backup' = {SavedAs(TRUE)} BY <1>1, <2>1, <2>2, ChangeSound
  <2>4. CASE pc' # "done"
    <3>1. disk'.block[job.site] = job.first.block BY <1>1, <2>1, <2>4, PutFields
    <3>2. disk'.manifest[job.site] = job.first.manifest BY <1>2, <2>1, <2>2 DEF Back, Settling
    <3>3. Back' BY <1>2, <2>1, <2>2, <2>4, <3>1, <3>2, JobStill DEF Back, Settling
    <3> QED BY <1>1, <1>2, <2>1, <2>2, <2>3, <2>4, <3>3, BackTracked DEF Settling
  <2> QED BY <2>3, <2>4, RestingTracked
<1>5. CASE RestoreCodes
  <2>1. /\ pc = "restoreCodes" /\ UNCHANGED <<backup, job>>
        /\ disk' \in {disk, Tear(disk)}
        /\ \/ pc' = "done"
           \/ pc' = "restoreTorn"
           \/ pc' = "restoreFragment" /\ disk' = disk /\ disk.codes = job.first.codes
    BY <1>5 DEF RestoreCodes, Write, Stuck, Goto, Finish
  <2>2. disk'.manifest = disk.manifest /\ disk'.block = disk.block /\ disk'.fragment = disk.fragment /\ locksAtStake
    BY <1>1, <2>1 DEF Tear, TypeOK, Disk, IInv, Tracked, LocksLeft
  <2>3. (Sound => Sound') /\ backup' = {SavedAs(TRUE)} BY <1>1, <2>1, <2>2, ChangeSound
  <2>4. CASE pc' # "done"
    <3>1. disk'.manifest[job.site] = job.first.manifest /\ disk'.block[job.site] = job.first.block
      BY <1>2, <2>1, <2>2 DEF Back, Settling
    <3>2. Back' BY <2>1, <2>4, <3>1, JobStill DEF Back, Settling
    <3> QED BY <1>1, <2>1, <2>2, <2>3, <2>4, <3>2, BackTracked DEF Settling
  <2> QED BY <2>3, <2>4, RestingTracked
<1>6. CASE RestoreTorn
  <2>1. /\ pc = "restoreTorn" /\ UNCHANGED <<backup, job>>
        /\ disk' \in {disk, [disk EXCEPT !.codes = wantedCodes]}
        /\ \/ pc' = "done"
           \/ pc' = "restoreFragment" /\ disk' = [disk EXCEPT !.codes = wantedCodes]
    BY <1>6 DEF RestoreTorn, Write, Stuck, Goto, Finish
  <2>2. disk'.manifest = disk.manifest /\ disk'.block = disk.block /\ disk'.fragment = disk.fragment /\ locksAtStake
    BY <1>1, <2>1 DEF TypeOK, Disk, IInv, Tracked, LocksLeft
  <2>3. (Sound => Sound') /\ backup' = {SavedAs(TRUE)} BY <1>1, <2>1, <2>2, ChangeSound
  <2>4. CASE pc' # "done"
    <3>1. disk'.codes = wantedCodes BY <1>1, <2>1, <2>4 DEF TypeOK, Disk
    <3>2. disk'.manifest[job.site] = job.first.manifest /\ disk'.block[job.site] = job.first.block
      BY <1>2, <2>1, <2>2 DEF Back, Settling
    <3>3. Back' BY <2>1, <2>4, <3>1, <3>2, JobStill DEF Back, Settling
    <3> QED BY <1>1, <2>1, <2>2, <2>3, <2>4, <3>3, BackTracked DEF Settling
  <2> QED BY <2>3, <2>4, RestingTracked
<1>7. CASE RestoreFragment
  <2>1. /\ pc = "restoreFragment" /\ UNCHANGED <<backup, job>>
        /\ disk' \in {disk, PutFragment(disk, job.first)}
        /\ \/ pc' = "done"
           \/ /\ pc' = "revalidate"
              /\ disk' = IF disk.fragment # job.first.fragment THEN PutFragment(disk, job.first) ELSE disk
    BY <1>7 DEF RestoreFragment, Write, Stuck, Goto, Finish
  <2>2. disk'.manifest = disk.manifest /\ disk'.block = disk.block /\ disk'.codes = disk.codes /\ locksAtStake
    BY <1>1, <2>1, PutFields DEF IInv, Tracked, LocksLeft
  <2>3. (Sound => Sound') /\ backup' = {SavedAs(TRUE)} BY <1>1, <2>1, <2>2, ChangeSound
  <2>4. CASE pc' # "done"
    <3>1. disk'.fragment = job.first.fragment BY <1>1, <2>1, <2>4, PutFields
    <3>2. /\ disk'.manifest[job.site] = job.first.manifest /\ disk'.block[job.site] = job.first.block
          /\ disk'.codes \in {job.first.codes, wantedCodes}
      BY <1>2, <2>1, <2>2 DEF Back, Settling
    <3>3. Back' BY <2>1, <2>4, <3>1, <3>2, JobStill DEF Back, Settling
    <3> QED BY <1>1, <2>1, <2>2, <2>3, <2>4, <3>3, BackTracked DEF Settling
  <2> QED BY <2>3, <2>4, RestingTracked
<1>8. CASE Revalidate \/ Rereload \/ RereloadAnswered
  <2>1. UNCHANGED <<disk, backup, job>> /\ pc \in {"revalidate", "rereload", "rewaiting"}
    BY <1>8 DEF Revalidate, Rereload, RereloadAnswered, world
  <2>2. pc' \in {"done", "rereload", "rewaiting", "cleanRestored"}
    BY <1>8 DEF Revalidate, Rereload, RereloadAnswered, Goto, Finish, Stuck
  <2>3. (Sound => Sound') /\ backup' = {SavedAs(TRUE)} BY <1>1, <2>1, ChangeSound
  <2>4. CASE pc' # "done"
    <3>1. Back' BY <1>2, <2>1, <2>2, <2>4, JobStill DEF Back, Settling
    <3> QED BY <1>1, <1>2, <2>1, <2>2, <2>3, <2>4, <3>1, BackTracked DEF Settling
  <2> QED BY <2>3, <2>4, RestingTracked
<1> QED BY <1>3, <1>4, <1>5, <1>6, <1>7, <1>8

(* The backup goes away on coherent files only. *)
LEMMA EndsInv ==
  ASSUME IInv, TypeOK', CleanUp \/ Return
  PROVE Tracked' /\ (Sound => Sound')
<1>1. CASE Return BY <1>1, SoundStill, RestingTracked DEF IInv, Return, world
<1>2. CASE CleanUp
  <2>1. UNCHANGED disk /\ pc \in {"cleanOk", "cleanRestored"} /\ pc' = "done" /\ backup' \in {{}, backup}
    BY <1>2 DEF CleanUp, Finish
  <2> DEFINE b == SavedAs(TRUE)
  <2>2. backup = {b} BY <2>1 DEF IInv, Tracked, BackupHeld, Changing, Writing, Settling
  <2>3. /\ job.site \in Site /\ job.action \in Action /\ job.first \in Deployed /\ job.drawn \in Code \cup {NoCode}
        /\ disk \in Disk /\ locksAtStake \in BOOLEAN
    BY JobType DEF IInv, TypeOK, locksAtStake, involved
  <2>4. b = [site |-> job.site, whole |-> TRUE, files |-> job.first, locks |-> locksAtStake] BY DEF SavedAs
  <2> HIDE DEF b
  <2>0. Sound => Coherent(PutBack(disk, b)) BY <2>2 DEF Sound
  <2>5. ASSUME Sound, pc = "cleanOk" PROVE Coherent(disk)
    <3>1. Kind(job.site, job.action, job.first, job.drawn) = "change" BY <2>5 DEF IInv, Tracked, Planned, Writing
    <3>2. /\ \A t \in Site \ {job.site} : disk.manifest[t].lock = job.first.locks[t]
          /\ disk.manifest[job.site] = goal.manifest /\ disk.codes = goal.codes
          /\ disk.block[job.site] = goal.block /\ disk.fragment = goal.fragment
      BY <2>5 DEF IInv, Tracked, Forward, Writing
    <3>3. ~locksAtStake => disk.codes = job.first.codes /\ disk.fragment = job.first.fragment
      BY <2>5 DEF IInv, Tracked, LocksLeft, Changing, Writing
    <3> QED BY <2>0, <2>3, <2>4, <2>5, <3>1, <3>2, <3>3, GoalCoherent DEF goal, locksAtStake
  <2>6. ASSUME Sound, pc = "cleanRestored" PROVE Coherent(disk)
    <3>1. /\ disk.manifest[job.site] = job.first.manifest /\ disk.block[job.site] = job.first.block
          /\ disk.codes \in {job.first.codes, wantedCodes} /\ disk.fragment = job.first.fragment
      BY <2>6 DEF IInv, Tracked, Back, Settling
    <3>2. disk.codes = job.first.codes \/ (job.first.codes = Absent /\ disk.codes = Holding(None))
      BY <3>1 DEF wantedCodes
    <3> QED BY <2>0, <2>3, <2>4, <2>6, <3>1, <3>2, BackCoherent
  <2>7. Sound => Coherent(disk) BY <2>1, <2>5, <2>6
  <2>8. Sound => Sound' BY <2>0, <2>1, <2>2, <2>7 DEF Sound
  <2> QED BY <2>1, <2>8, RestingTracked
<1> QED BY <1>1, <1>2

-----------------------------------------------------------------------------
(* What happens around: a transaction killed, Caddy, the outsider, the
   operator.  A power cut takes the backup away, with what it says of the files. *)
LEMMA TrackedStill ==
  ASSUME Tracked, UNCHANGED <<disk, backup, pc, job>>
  PROVE Tracked'
<1>1. /\ goal' = goal /\ locksAtStake' = locksAtStake /\ wantedCodes' = wantedCodes
      /\ SavedAs(TRUE)' = SavedAs(TRUE) /\ SavedAs(FALSE)' = SavedAs(FALSE)
  BY JobStill
<1>2. BackupHeld' BY <1>1 DEF Tracked, BackupHeld, Changing
<1>3. Planned' /\ AsRead' BY DEF Tracked, Planned, AsRead
<1>4. Forward' BY <1>1 DEF Tracked, Forward
<1>5. Back' BY <1>1 DEF Tracked, Back
<1>6. LocksLeft' BY <1>1 DEF Tracked, LocksLeft, Changing
<1> QED BY <1>2, <1>3, <1>4, <1>5, <1>6 DEF Tracked

LEMMA OthersInv ==
  ASSUME IInv, TypeOK', Others
  PROVE Tracked' /\ (PowerCuts = FALSE /\ Sound => Sound')
<1>1. TypeOK /\ Tracked BY DEF IInv
<1>2. CASE Kill BY <1>1, <1>2, SoundStill, RestingTracked DEF Kill, world
<1>3. CASE ReloadEnds \/ CaddyDies \/ CaddyRestarts
  BY <1>1, <1>3, SoundStill, TrackedStill DEF ReloadEnds, CaddyDies, CaddyRestarts
<1>4. CASE Operator
  <2>1. PICK b \in backup : disk' = PutBack(disk, b) BY <1>4 DEF Operator
  <2>2. (Sound => Coherent(disk')) /\ backup' = {} /\ pc' = "idle" BY <1>4, <2>1 DEF Sound, Operator
  <2> QED BY <2>2, RestingTracked DEF Sound
<1>5. ASSUME NEW s \in Site, Outsider(s) PROVE Tracked' /\ (Sound => Sound')
  <2>1. PICK m \in Manifest, c \in Code \cup {NoCode}, hand \in BOOLEAN :
          /\ Valid(s, m)
          /\ m.lock <=> c # NoCode
          /\ disk' = [manifest |-> [disk.manifest EXCEPT ![s] = m],
                      block |-> [disk.block EXCEPT ![s] = IF hand THEN "hand" ELSE generateFragment(m)],
                      codes |-> Holding([disk.codes.entries EXCEPT ![s] = c]),
                      fragment |-> [disk.fragment EXCEPT ![s] = c]]
    BY <1>5 DEF Outsider
  <2>2. backup = {} /\ UNCHANGED <<backup, pc, job>> /\ pc \in {"idle"} \cup Preparing BY <1>5 DEF Outsider
  <2>3. ASSUME Sound PROVE Sound'
    <3>1. Coherent(disk) BY <2>2, <2>3 DEF Sound
    <3>2. /\ disk.manifest \in [Site -> Manifest] /\ disk.block \in [Site -> Block]
          /\ disk.fragment \in Entries /\ disk.codes.entries = disk.fragment
      BY <1>1, <3>1 DEF TypeOK, Disk, Coherent
    <3>3. disk'.fragment = disk'.codes.entries /\ Readable(disk'.codes) BY <2>1, <3>2 DEF Holding, Readable
    <3>4. /\ disk'.manifest[s] = m /\ disk'.fragment[s] = c
          /\ disk'.block[s] \in {generateFragment(m), "hand"}
      BY <2>1, <3>2 DEF Entries
    <3>5. \A t \in Site \ {s} : /\ disk'.manifest[t] = disk.manifest[t]
                                /\ disk'.fragment[t] = disk.fragment[t]
                                /\ disk'.block[t] = disk.block[t]
      BY <2>1, <3>2 DEF Entries
    <3>6. ASSUME NEW t \in Site
          PROVE /\ Valid(t, disk'.manifest[t])
                /\ disk'.manifest[t].lock <=> disk'.fragment[t] # NoCode
                /\ disk'.block[t] \in {generateFragment(disk'.manifest[t]), "hand"}
      <4>1. CASE t = s BY <2>1, <3>4, <4>1
      <4>2. CASE t # s BY <3>1, <3>5, <4>2 DEF Coherent
      <4> QED BY <4>1, <4>2
    <3>7. Coherent(disk') BY <3>3, <3>6 DEF Coherent
    <3> QED BY <2>2, <3>7 DEF Sound
  <2>11. Tracked'
    BY <1>1, <2>2, JobStill DEF Tracked, BackupHeld, Planned, AsRead, Forward, Back, LocksLeft, Changing, Preparing,
                                Writing, Settling
  <2> QED BY <2>3, <2>11
<1>6. CASE PowerCut BY <1>6, RestingTracked DEF PowerCut
<1> QED BY <1>2, <1>3, <1>4, <1>5, <1>6 DEF Others

-----------------------------------------------------------------------------
LEMMA StepInv ==
  ASSUME IInv, [Next]_vars
  PROVE IInv' /\ (PowerCuts = FALSE /\ Sound => Sound')
<1>1. TypeOK /\ Tracked BY DEF IInv
<1>2. CASE UNCHANGED vars
  BY <1>1, <1>2, SoundStill, TrackedStill DEF vars, TypeOK, IInv
<1>3. CASE Next
  <2>1. TypeOK' BY <1>1, <1>3, PreparesType, WritesType, RestoresType, OthersType DEF Next, Gatekeeper
  <2>2. CASE Gatekeeper BY <2>1, <2>2, PreparesInv, WritesInv, RestoresInv, EndsInv DEF Gatekeeper, IInv
  <2>3. CASE Others BY <2>1, <2>3, OthersInv DEF IInv
  <2> QED BY <1>3, <2>2, <2>3 DEF Next
<1> QED BY <1>2, <1>3

(* With the backups kept (no power cut), whatever throws, is killed, times out
   or crashes and whoever writes beside: files that disagree always have a
   complete backup that makes them agree again. *)
THEOREM HalfDoneHasBackup == ASSUME PowerCuts = FALSE PROVE Spec => []Recoverable
<1>1. Init => IInv /\ Sound BY InitInv
<1>2. IInv /\ Sound /\ [Next]_vars => IInv' /\ Sound' BY StepInv
<1>3. Sound => Recoverable
  <2> SUFFICES ASSUME Sound, ~Coherent(disk) PROVE \E b \in backup : b.whole /\ Coherent(PutBack(disk, b))
    BY DEF Recoverable
  <2>1. PICK b \in backup : Coherent(PutBack(disk, b)) BY DEF Sound
  <2>2. b.whole BY <2>1 DEF PutBack
  <2> QED BY <2>1, <2>2
<1> QED BY <1>1, <1>2, <1>3, PTL DEF Spec

-----------------------------------------------------------------------------
(* What the transaction knows of systemd's jobs and of Caddy: whatever the
   crashes and the power cuts, a reload it waits for read the files as they
   are, and none is left running where it believes there is none. *)
Unasked == Preparing \cup {"page", "save", "saving", "writeManifest", "writeCodes", "writeTorn", "writeBlock",
                           "writeFragment", "validate", "reload"}

Queue ==
  /\ reloads.queued => reloads.running # {}
  /\ reloads.answer = "ok" => reloads.running = {}

Quiet ==
  /\ backup = {} => reloads.running = {}
  /\ pc \in {"saving", "probe", "cleanOk", "cleanRestored"} => reloads.running = {}
  /\ Changing /\ ~job.tried => reloads.running = {}

Tries ==
  /\ pc \in Unasked => ~job.tried
  /\ pc \in {"rereload", "rewaiting"} => job.tried

Awaited ==
  pc = "waiting" =>
    /\ ~reloads.queued
    /\ \A r \in reloads.running : r.view = ViewOf(disk)
    /\ reloads.answer = "ok" => Served

InPlaceServed == pc \in {"probe", "cleanOk"} => Served

Told == pc = "done" /\ result = "ok" => Served /\ reloads.running = {}

Reloading == Queue /\ Quiet /\ Tries /\ Awaited /\ InPlaceServed /\ Told

LEMMA InitReloading == ASSUME Init PROVE Reloading
BY DEF Init, Reloading, Queue, Quiet, Tries, Awaited, InPlaceServed, Told, NoReloads, Changing, Writing, Settling,
       Unasked, Preparing

(* The parts that say nothing of a transaction at rest. *)
LEMMA RestingReloading ==
  ASSUME pc' \in {"idle", "done"}, pc' = "done" => result' # "ok", Queue', backup' = {} => reloads'.running = {}
  PROVE Reloading'
BY DEF Reloading, Quiet, Tries, Awaited, InPlaceServed, Told, Changing, Writing, Settling, Unasked, Preparing

LEMMA PreparesReloading ==
  ASSUME IInv, Reloading,
         \/ \E s \in Site, a \in Action : Start(s, a)
         \/ Interrupted \/ PlanFirst \/ Preconditions \/ GiveUp \/ Reread \/ PlacePage
         \/ SaveBackup \/ BackupSaved \/ BackupFailed
  PROVE Reloading'
<1> USE DEF Reloading, Goto, Finish, world
<1>0. /\ pc \in {"read", "preconditions", "reread", "page", "save"} => backup = {}
      /\ pc = "saving" => backup = {SavedAs(FALSE)}
  BY DEF IInv, Tracked, BackupHeld
<1>1. UNCHANGED reloads /\ Queue'
  BY DEF Start, Interrupted, PlanFirst, Preconditions, GiveUp, Reread, PlacePage, SaveBackup, BackupSaved,
         BackupFailed, Queue
<1>2. CASE pc' \in {"idle", "done"}
  <2>1. result' # "ok" /\ (backup' = {} => reloads'.running = {})
    BY <1>0, <1>1, <1>2 DEF Start, Interrupted, PlanFirst, Preconditions, GiveUp, Reread, PlacePage, SaveBackup,
                            BackupSaved, BackupFailed, Quiet
  <2> QED BY <1>1, <1>2, <2>1, RestingReloading
<1>3. CASE pc' \notin {"idle", "done"}
  <2>1. /\ pc' \in {"interrupted", "read", "preconditions", "reread", "page", "save", "saving", "writeManifest"}
        /\ pc \in {"idle", "interrupted", "read", "preconditions", "reread", "page", "save", "saving"}
        /\ ~job'.tried
    BY <1>3 DEF Start, Interrupted, PlanFirst, Preconditions, GiveUp, Reread, PlacePage, SaveBackup,
                BackupSaved, BackupFailed, Tries, Unasked, Preparing, Asked
  <2>2. Quiet'
    BY <1>0, <1>1, <1>3, <2>1
       DEF Start, Interrupted, PlanFirst, Preconditions, GiveUp, Reread, PlacePage, SaveBackup,
           BackupSaved, BackupFailed, Quiet, Changing, Writing, Settling
  <2>3. Tries' BY <2>1 DEF Tries
  <2>4. Awaited' /\ InPlaceServed' /\ Told' BY <2>1 DEF Awaited, InPlaceServed, Told
  <2> QED BY <1>1, <2>2, <2>3, <2>4
<1> QED BY <1>2, <1>3

LEMMA WritesReloading ==
  ASSUME IInv, Reloading,
         \/ WriteManifest \/ WriteCodes \/ WriteTorn \/ WriteBlock \/ WriteFragment
         \/ Validate \/ Reload \/ ReloadAnswered \/ Probe
  PROVE Reloading'
<1> USE DEF Reloading, Goto, Finish, Restoring, world
<1>1. backup # {} /\ pc \in Writing \ {"cleanOk"}
  BY DEF IInv, Tracked, BackupHeld, WriteManifest, WriteCodes, WriteTorn, WriteBlock, WriteFragment, Write,
         Validate, Reload, ReloadAnswered, Probe, Changing, Writing
<1>2. CASE Reload
  <2>1. pc = "reload" /\ pc' = "waiting" /\ UNCHANGED <<disk, backup, caddy>> BY <1>2 DEF Reload
  <2>2. reloads.running = {} BY <2>1 DEF Tries, Quiet, Unasked, Changing, Writing
  <2>3. reloads' = [running |-> {[kind |-> "reload", view |-> ViewOf(disk)]}, queued |-> FALSE, answer |-> "none"]
    BY <1>2, <2>2 DEF Reload, Ask
  <2>4. job'.tried BY <1>2 DEF Reload, IInv, TypeOK, Jobs
  <2>5. Queue' /\ Awaited' BY <2>1, <2>3 DEF Queue, Awaited
  <2> QED BY <1>1, <2>1, <2>4, <2>5 DEF Quiet, Tries, InPlaceServed, Told, Unasked, Preparing, Changing
<1>3. CASE ~Reload
  <2>1. UNCHANGED <<reloads, caddy, backup, job>> /\ Queue'
    BY <1>3 DEF WriteManifest, WriteCodes, WriteTorn, WriteBlock, WriteFragment, Write, Validate, Reload,
                ReloadAnswered, Probe, Queue
  <2>2. CASE pc' = "restoreManifest"
    BY <1>1, <2>1, <2>2 DEF Quiet, Tries, Awaited, InPlaceServed, Told, Unasked, Preparing, Changing
  <2>3. CASE pc' # "restoreManifest"
    <3>1. CASE pc' \in Unasked
      <4>1. pc \in Unasked /\ pc' \notin {"saving", "probe", "cleanOk", "cleanRestored", "waiting", "done",
                                            "rereload", "rewaiting"}
        BY <1>3, <3>1 DEF WriteManifest, WriteCodes, WriteTorn, WriteBlock, WriteFragment, Write, Validate,
                ReloadAnswered, Probe, Unasked, Preparing
      <4> QED BY <1>1, <2>1, <3>1, <4>1 DEF Quiet, Tries, Awaited, InPlaceServed, Told, Changing
    <3>2. CASE pc' \notin Unasked
      <4>1. UNCHANGED disk /\ \/ ReloadAnswered /\ pc' = "probe"
                              \/ Probe /\ pc' = "cleanOk"
        BY <1>3, <2>3, <3>2
           DEF WriteManifest, WriteCodes, WriteTorn, WriteBlock, WriteFragment, Write, Validate, ReloadAnswered,
               Probe, Unasked
      <4>2. Served /\ reloads.running = {}
        BY <4>1 DEF ReloadAnswered, Probe, Awaited, InPlaceServed, Queue, Quiet
      <4>3. Served' BY <2>1, <4>1, <4>2 DEF Served
      <4> QED BY <1>1, <2>1, <3>2, <4>1, <4>2, <4>3 DEF Quiet, Tries, Awaited, InPlaceServed, Told
    <3> QED BY <3>1, <3>2
  <2> QED BY <2>2, <2>3
<1> QED BY <1>2, <1>3

LEMMA RestoresReloading ==
  ASSUME IInv, Reloading,
         \/ RestoreManifest \/ RestoreBlock \/ RestoreCodes \/ RestoreTorn \/ RestoreFragment
         \/ Revalidate \/ Rereload \/ RereloadAnswered
  PROVE Reloading'
<1> USE DEF Reloading, Goto, Finish, Stuck, world
<1>1. backup # {} /\ pc \in Settling /\ backup' = backup /\ job' = job
  BY DEF IInv, Tracked, BackupHeld, RestoreManifest, RestoreBlock, RestoreCodes, RestoreTorn, RestoreFragment,
         Write, Revalidate, Rereload, RereloadAnswered, Changing, Settling
<1>2. CASE Rereload
  <2>1. pc = "rereload" /\ pc' = "rewaiting" BY <1>2 DEF Rereload
  <2>2. reloads'.running # {} /\ reloads'.answer = "none" BY <1>2 DEF Rereload, Ask
  <2>3. job'.tried BY <1>1, <2>1 DEF Tries
  <2> QED BY <1>1, <2>1, <2>2, <2>3
          DEF Queue, Quiet, Tries, Awaited, InPlaceServed, Told, Unasked, Preparing, Changing
<1>3. CASE ~Rereload
  <2>1. UNCHANGED <<reloads, caddy>> /\ Queue'
    BY <1>3 DEF RestoreManifest, RestoreBlock, RestoreCodes, RestoreTorn, RestoreFragment, Write, Revalidate,
                RereloadAnswered, Queue
  <2>2. CASE pc' = "done"
    <3>1. result' # "ok"
      BY <1>3, <2>2 DEF RestoreManifest, RestoreBlock, RestoreCodes, RestoreTorn, RestoreFragment, Write,
                        Revalidate, RereloadAnswered
    <3> QED BY <1>1, <2>1, <2>2, <3>1, RestingReloading
  <2>3. CASE pc' # "done"
    <3>1. /\ pc' \in {"restoreBlock", "restoreCodes", "restoreTorn", "restoreFragment", "revalidate", "rereload",
                     "cleanRestored"}
          /\ pc' = "rereload" => job.tried
          /\ pc' = "cleanRestored" => ~job.tried \/ reloads.answer = "ok"
      BY <1>3, <2>3 DEF RestoreManifest, RestoreBlock, RestoreCodes, RestoreTorn, RestoreFragment, Write,
                        Revalidate, RereloadAnswered
    <3>2. pc' = "cleanRestored" => reloads.running = {} BY <1>1, <3>1 DEF Queue, Quiet, Changing
    <3> QED BY <1>1, <2>1, <3>1, <3>2
            DEF Quiet, Tries, Awaited, InPlaceServed, Told, Unasked, Preparing, Changing
  <2> QED BY <2>2, <2>3
<1> QED BY <1>2, <1>3

LEMMA EndsReloading ==
  ASSUME Reloading, CleanUp \/ Return
  PROVE Reloading'
<1> USE DEF Reloading
<1>1. CASE Return
  <2>1. pc' = "idle" /\ UNCHANGED <<reloads, backup>> BY <1>1 DEF Return, world
  <2> QED BY <2>1, RestingReloading DEF Queue, Quiet
<1>2. CASE CleanUp
  <2>1. pc' = "done" /\ UNCHANGED <<reloads, disk, caddy>> /\ reloads.running = {}
    BY <1>2 DEF CleanUp, Finish, Quiet
  <2>2. CASE pc = "cleanOk"
    <3>1. Served' BY <2>1, <2>2 DEF InPlaceServed, Served
    <3> QED BY <2>1, <3>1 DEF Queue, Quiet, Tries, Awaited, InPlaceServed, Told, Unasked, Preparing, Changing,
                              Writing, Settling
  <2>3. CASE pc = "cleanRestored"
    <3>1. result' # "ok" BY <1>2, <2>3 DEF CleanUp, Finish
    <3> QED BY <2>1, <3>1, RestingReloading DEF Queue
  <2> QED BY <1>2, <2>2, <2>3 DEF CleanUp
<1> QED BY <1>1, <1>2

LEMMA OthersReloading ==
  ASSUME TypeOK, Reloading, Others
  PROVE Reloading'
<1> USE DEF Reloading
<1>1. CASE Kill
  <2>1. pc' = "idle" /\ UNCHANGED <<reloads, backup>> BY <1>1 DEF Kill, world
  <2> QED BY <2>1, RestingReloading DEF Queue, Quiet
<1>2. CASE ReloadEnds
  <2>1. PICK run \in reloads.running, ok \in BOOLEAN :
          /\ caddy' = IF ok THEN Serving(run.view) ELSE caddy
          /\ reloads' = IF reloads.queued
                          THEN [running |-> {[kind |-> run.kind, view |-> ViewOf(disk)]}, queued |-> FALSE, answer |-> "none"]
                          ELSE [running |-> {}, queued |-> FALSE, answer |-> IF ok THEN "ok" ELSE "refused"]
          /\ UNCHANGED <<disk, pages, backup, pc, job, result>>
    BY <1>2 DEF ReloadEnds
  <2>2. Queue' BY <2>1 DEF Queue
  <2>3. Quiet' BY <2>1 DEF Quiet, Changing
  <2>4. Awaited'
    <3>1. SUFFICES ASSUME pc = "waiting" PROVE ~reloads'.queued /\ reloads'.running = {} /\ (reloads'.answer = "ok" => Served')
      BY <2>1 DEF Awaited
    <3>2. ~reloads.queued /\ run.view = ViewOf(disk) BY <2>1, <3>1 DEF Awaited
    <3>3. ok => Served' BY <2>1, <3>2 DEF Served, Serving
    <3> QED BY <2>1, <3>2, <3>3
  <2>5. Tries' BY <2>1 DEF Tries
  <2>6. InPlaceServed' /\ Told' BY <2>1 DEF Quiet, InPlaceServed, Told
  <2> QED BY <2>2, <2>3, <2>4, <2>5, <2>6
<1>3. CASE CaddyDies
  <2>1. /\ UNCHANGED <<disk, backup, pc, job, result>> /\ ~caddy'.up
        /\ reloads'.running = {} /\ ~reloads'.queued
    BY <1>3 DEF CaddyDies, Down, TypeOK, NoReloads
  <2>2. Served' BY <2>1 DEF Served
  <2> QED BY <2>1, <2>2 DEF Queue, Quiet, Tries, Awaited, InPlaceServed, Told, Changing
<1>4. CASE CaddyRestarts
  <2>1. UNCHANGED <<disk, reloads, backup, pc, job, result>> /\ Served'
    BY <1>4 DEF CaddyRestarts, Served, Serving
  <2> QED BY <2>1 DEF Queue, Quiet, Tries, Awaited, InPlaceServed, Told, Changing
<1>5. CASE PowerCut
  <2>1. pc' = "idle" /\ reloads'.running = {} /\ Queue' BY <1>5 DEF PowerCut, NoReloads, Queue
  <2> QED BY <2>1, RestingReloading
<1>6. CASE Operator
  <2>1. pc' = "idle" /\ reloads' = reloads /\ reloads.running = {} BY <1>6 DEF Operator
  <2> QED BY <2>1, RestingReloading DEF Queue
<1>7. ASSUME NEW s \in Site, Outsider(s) PROVE Reloading'
  <2>1. UNCHANGED <<reloads, backup, pc, job, result>> /\ pc \in {"idle"} \cup Preparing BY <1>7 DEF Outsider
  <2> QED BY <2>1 DEF Queue, Quiet, Tries, Awaited, InPlaceServed, Told, Preparing, Changing, Writing, Settling
<1> QED BY <1>1, <1>2, <1>3, <1>4, <1>5, <1>6, <1>7 DEF Others

-----------------------------------------------------------------------------
(* The code in force once done, the door page, and what "ok" found on the
   disk. *)
Known == {"preconditions", "reread", "page", "save", "saving"} \cup Writing \cup Settling

Drawn ==
  pc \in Known =>
    /\ target = "code" => CodeAfter(job.site, job.action, job.first, job.drawn) # NoCode
    /\ job.action = "renew" => job.drawn # currentCode(job.site, job.first)

Paged == pc \in {"save", "saving"} \cup Writing /\ target = "code" => job.site \in pages

OkWritten ==
  pc = "done" /\ result = "ok" =>
    /\ disk.manifest[job.site] = targetManifest(target)
    /\ disk.block[job.site] = generateFragment(targetManifest(target))
    /\ disk.codes = goal.codes
    /\ disk.fragment[job.site] # NoCode <=> target = "code"
    /\ target = "code" => job.site \in pages
    /\ job.action = "renew" => disk.fragment[job.site] # currentCode(job.site, job.first)

Chosen == Drawn /\ Paged /\ OkWritten

LEMMA DrawsWell ==
  ASSUME NEW s \in Site, NEW a \in Action, NEW d \in Deployed, NEW drawn \in Draws(s, a, d)
  PROVE /\ targetOf(a) = "code" => CodeAfter(s, a, d, drawn) # NoCode
        /\ a = "renew" => drawn # currentCode(s, d)
<1>1. a = "renew" => targetOf(a) = "code" BY DEF targetOf
<1>2. CASE CodeAfter(s, a, d, NoCode) = NoCode /\ targetOf(a) = "code"
  <2>1. drawn \in DrawnFrom(s, d) BY <1>2 DEF Draws
  <2>2. drawn # NoCode /\ drawn # currentCode(s, d) BY <2>1, PlanAssumption DEF DrawnFrom
  <2>3. a = "renew" \/ currentCode(s, d) = NoCode BY <1>2 DEF CodeAfter
  <2> QED BY <1>2, <2>2, <2>3 DEF CodeAfter
<1>3. CASE ~(CodeAfter(s, a, d, NoCode) = NoCode /\ targetOf(a) = "code")
  <2>1. targetOf(a) = "code" => a # "renew" /\ currentCode(s, d) # NoCode BY <1>3 DEF CodeAfter
  <2> QED BY <1>1, <2>1 DEF CodeAfter
<1> QED BY <1>2, <1>3

(* The fragment as planned: a code for this site, the one in force once done,
   exactly when it is to be closed by one; the other sites' as read. *)
LEMMA GoalFragment ==
  ASSUME TypeOK, target = "code" => CodeAfter(job.site, job.action, job.first, job.drawn) # NoCode
  PROVE /\ goal.fragment[job.site] # NoCode <=> target = "code"
        /\ target = "code" => goal.fragment[job.site] = CodeAfter(job.site, job.action, job.first, job.drawn)
        /\ locksAtStake => \A t \in Site \ {job.site} : goal.fragment[t] = job.first.codes.entries[t]
<1> DEFINE new == NewCodes(job.site, job.action, job.first, job.drawn)
           code == CodeAfter(job.site, job.action, job.first, job.drawn)
<1>1. job.first.codes.entries \in Entries /\ job.site \in Site BY JobType, CodesEntries
<1>2. /\ new[job.site] = code
      /\ \A t \in Site \ {job.site} : new[t] = job.first.codes.entries[t]
  BY <1>1 DEF NewCodes, Entries
<1>3. locksAtStake => goal.fragment = new BY DEF goal, Goal, locksAtStake
<1>4. ~locksAtStake => goal.fragment[job.site] = NoCode /\ target # "code"
  BY DEF goal, Goal, locksAtStake, involved, inService, target
<1>5. target # "code" => code = NoCode BY DEF CodeAfter, target
<1> QED BY <1>2, <1>3, <1>4, <1>5

LEMMA RestingChosen ==
  ASSUME pc' \in {"idle", "done", "interrupted", "read"}, pc' = "done" => result' # "ok"
  PROVE Chosen'
BY DEF Chosen, Drawn, Paged, OkWritten, Known, Writing, Settling

LEMMA StepChosen ==
  ASSUME TypeOK, Chosen, pc' # "done", pc' \in Known => pc \in Known,
         pc' \in {"save", "saving"} \cup Writing /\ target = "code" =>
           pc \in {"save", "saving"} \cup Writing \/ job.site \in pages',
         pages \subseteq pages',
         job'.site = job.site, job'.action = job.action, job'.first = job.first, job'.drawn = job.drawn
  PROVE Chosen'
<1>1. target' = target BY JobStill
<1> QED BY <1>1 DEF Chosen, Drawn, Paged, OkWritten

LEMMA ReloadJob ==
  ASSUME TypeOK, Reload
  PROVE job'.site = job.site /\ job'.action = job.action /\ job'.first = job.first /\ job'.drawn = job.drawn
BY DEF Reload, TypeOK, Jobs

LEMMA NextChosen ==
  ASSUME IInv, Chosen, Next
  PROVE Chosen'
<1> USE DEF Goto, Finish, world
<1>0. TypeOK BY DEF IInv
<1>1. ASSUME NEW s \in Site, NEW a \in Action, Start(s, a) PROVE Chosen'
  BY <1>1, RestingChosen DEF Start
<1>2. CASE PlanFirst
  <2>1. PICK drawn \in Draws(job.site, job.action, readAll(job.site, disk)) :
          job' = [site |-> job.site, action |-> job.action, first |-> readAll(job.site, disk), drawn |-> drawn, tried |-> FALSE]
    BY <1>2 DEF PlanFirst
  <2>2. readAll(job.site, disk) \in Deployed BY <1>0, JobType, ReadAllType DEF TypeOK
  <2>3. Drawn' BY <1>0, <2>1, <2>2, JobType, DrawsWell DEF Drawn, target
  <2>4. pc' = "preconditions" \/ (pc' = "done" /\ result' # "ok") BY <1>2 DEF PlanFirst
  <2> QED BY <2>3, <2>4 DEF Chosen, Paged, OkWritten, Writing
<1>3. CASE Interrupted \/ GiveUp \/ BackupFailed \/ Return \/ Kill \/ PowerCut
  BY <1>3, RestingChosen DEF Interrupted, GiveUp, BackupFailed, Return, Kill, PowerCut
<1>4. CASE Preconditions \/ Reread \/ PlacePage \/ SaveBackup \/ BackupSaved
  <2>1. CASE pc' = "done" BY <1>4, <2>1, RestingChosen DEF Preconditions, Reread, PlacePage, SaveBackup, BackupSaved
  <2>2. CASE pc' # "done"
    BY <1>0, <1>4, <2>2, StepChosen
       DEF Preconditions, Reread, PlacePage, SaveBackup, BackupSaved, Known, Writing
  <2> QED BY <2>1, <2>2
<1>5. CASE \/ WriteManifest \/ WriteCodes \/ WriteTorn \/ WriteBlock \/ WriteFragment
           \/ Validate \/ Reload \/ ReloadAnswered \/ Probe
  <2>1. pc' \in (Writing \cup {"restoreManifest"}) /\ pc \in Writing
    BY <1>5 DEF WriteManifest, WriteCodes, WriteTorn, WriteBlock, WriteFragment, Write, Validate, Reload,
                ReloadAnswered, Probe, Restoring, Writing
  <2>2. /\ job'.site = job.site /\ job'.action = job.action /\ job'.first = job.first /\ job'.drawn = job.drawn
        /\ UNCHANGED pages
    BY <1>0, <1>5, ReloadJob DEF WriteManifest, WriteCodes, WriteTorn, WriteBlock, WriteFragment, Write, Validate, Reload,
                ReloadAnswered, Probe
  <2> QED BY <1>0, <2>1, <2>2, StepChosen DEF Known, Writing, Settling
<1>6. CASE \/ RestoreManifest \/ RestoreBlock \/ RestoreCodes \/ RestoreTorn \/ RestoreFragment
           \/ Revalidate \/ Rereload \/ RereloadAnswered
  <2>1. pc' \in Settling \/ (pc' = "done" /\ result' # "ok")
    BY <1>6 DEF RestoreManifest, RestoreBlock, RestoreCodes, RestoreTorn, RestoreFragment, Write, Revalidate, Rereload,
                RereloadAnswered, Stuck, Settling
  <2>2. UNCHANGED <<job, pages>> /\ pc \in Settling
    BY <1>6 DEF RestoreManifest, RestoreBlock, RestoreCodes, RestoreTorn, RestoreFragment, Write, Revalidate, Rereload,
                RereloadAnswered, Settling
  <2>3. CASE pc' = "done" BY <2>1, <2>3, RestingChosen DEF Settling
  <2>4. CASE pc' # "done" BY <1>0, <2>1, <2>2, <2>4, StepChosen DEF Known, Writing, Settling
  <2> QED BY <2>3, <2>4
<1>7. CASE CleanUp
  <2>1. pc' = "done" /\ UNCHANGED <<disk, pages, job>> BY <1>7 DEF CleanUp
  <2>2. CASE pc = "cleanRestored" BY <1>7, <2>1, <2>2, RestingChosen DEF CleanUp
  <2>3. CASE pc = "cleanOk"
    <3>1. /\ disk.manifest[job.site] = goal.manifest /\ disk.block[job.site] = goal.block
          /\ disk.codes = goal.codes /\ disk.fragment = goal.fragment
      BY <2>3 DEF IInv, Tracked, Forward, Writing
    <3>2. goal.manifest = targetManifest(target) /\ goal.block = generateFragment(targetManifest(target))
      BY DEF goal, Goal, target
    <3>3. /\ target = "code" => CodeAfter(job.site, job.action, job.first, job.drawn) # NoCode /\ job.site \in pages
          /\ job.action = "renew" => job.drawn # currentCode(job.site, job.first)
      BY <2>3 DEF Chosen, Drawn, Paged, Known, Writing
    <3>4. /\ goal.fragment[job.site] # NoCode <=> target = "code"
          /\ target = "code" => goal.fragment[job.site] = CodeAfter(job.site, job.action, job.first, job.drawn)
      BY <1>0, <3>3, GoalFragment
    <3>5. job.action = "renew" => goal.fragment[job.site] = job.drawn
      BY <3>4 DEF CodeAfter, target, targetOf
    <3>6. target' = target /\ goal' = goal BY <2>1, JobStill
    <3>7. OkWritten' BY <2>1, <3>1, <3>2, <3>3, <3>4, <3>5, <3>6 DEF OkWritten
    <3> QED BY <2>1, <3>7 DEF Chosen, Drawn, Paged, Known, Writing, Settling
  <2> QED BY <1>7, <2>2, <2>3 DEF CleanUp
<1>8. CASE ReloadEnds \/ CaddyDies \/ CaddyRestarts
  <2>1. UNCHANGED <<disk, pages, pc, job, result>> BY <1>8 DEF ReloadEnds, CaddyDies, CaddyRestarts
  <2>2. target' = target /\ goal' = goal BY <2>1, JobStill
  <2> QED BY <2>1, <2>2 DEF Chosen, Drawn, Paged, OkWritten
<1>9. CASE Operator BY <1>9, RestingChosen DEF Operator
<1>10. ASSUME NEW s \in Site, Outsider(s) PROVE Chosen'
  <2>1. UNCHANGED <<pc, job>> /\ pc \in {"idle"} \cup Preparing BY <1>10 DEF Outsider
  <2>2. pages \subseteq pages'
    <3>1. PICK m \in Manifest : pages' = IF m.lock THEN pages \cup {s} ELSE pages BY <1>10 DEF Outsider
    <3> QED BY <3>1
  <2> QED BY <1>0, <2>1, <2>2, StepChosen DEF Preparing, Writing
<1> QED BY <1>1, <1>2, <1>3, <1>4, <1>5, <1>6, <1>7, <1>8, <1>9, <1>10 DEF Next, Gatekeeper, Others

LEMMA InitChosen == ASSUME Init PROVE Chosen
BY DEF Init, Chosen, Drawn, Paged, OkWritten, Known, Writing, Settling

(* Together, step by step. *)
LEMMA ServingStep ==
  ASSUME IInv, Reloading, Chosen, [Next]_vars
  PROVE IInv' /\ Reloading' /\ Chosen'
<1>1. IInv' BY StepInv
<1>2. CASE UNCHANGED vars
  <2>1. target' = target /\ goal' = goal BY <1>2, JobStill DEF vars
  <2>2. Reloading'
    BY <1>2 DEF vars, Reloading, Queue, Quiet, Tries, Awaited, InPlaceServed, Told, Served, Changing
  <2>3. Chosen' BY <1>2, <2>1 DEF vars, Chosen, Drawn, Paged, OkWritten
  <2> QED BY <1>1, <2>2, <2>3
<1>3. CASE Next
  <2>1. Chosen' BY <1>3, NextChosen
  <2>2. Reloading'
    BY <1>3, PreparesReloading, WritesReloading, RestoresReloading, EndsReloading, OthersReloading
       DEF Next, Gatekeeper, IInv
  <2> QED BY <1>1, <2>1, <2>2
<1> QED BY <1>2, <1>3

(* "ok" is only ever told of a change that is written and served, its door
   page placed, the replaced code gone: whatever crashed, lost power, was
   killed before or reloads late. *)
THEOREM OkMeansServed == Spec => []OkServed
<1>1. Init => IInv /\ Reloading /\ Chosen BY InitInv, InitReloading, InitChosen
<1>2. IInv /\ Reloading /\ Chosen /\ [Next]_vars => IInv' /\ Reloading' /\ Chosen' BY ServingStep
<1>3. IInv /\ Reloading /\ Chosen => OkServed
  BY DEF OkServed, Reloading, Told, Chosen, OkWritten
<1> QED BY <1>1, <1>2, <1>3, PTL DEF Spec

-----------------------------------------------------------------------------
(* With Caddy up and the backups kept: from the first write on, Caddy serves,
   or is about to serve, this site as read or as planned, and the other sites
   as their files are. *)
FirstView == [block |-> [disk.block EXCEPT ![job.site] = job.first.block], fragment |-> job.first.fragment]
GoalView == [block |-> [disk.block EXCEPT ![job.site] = goal.block], fragment |-> goal.fragment]

(* What was read before the first write, and how far the files are from it. *)
AsFound ==
  Changing =>
    /\ job.first.fragment = job.first.codes.entries
    /\ job.first.locks[job.site] = job.first.manifest.lock
    /\ \A t \in Site \ {job.site} : disk.manifest[t].lock = job.first.locks[t]
    /\ disk.fragment \in {job.first.fragment, goal.fragment}

Before == backup = {} \/ pc = "saving" => caddy.view = ViewOf(disk)

Between ==
  Changing =>
    /\ caddy.view \in {FirstView, GoalView}
    /\ \A r \in reloads.running : r.view \in {FirstView, GoalView}
    /\ ~job.tried => caddy.view = FirstView
    /\ pc # "rewaiting" => ~reloads.queued

Again ==
  pc = "rewaiting" =>
    /\ ~reloads.queued => \A r \in reloads.running : r.view = ViewOf(disk)
    /\ reloads.answer = "ok" => caddy.view = ViewOf(disk)

Restored ==
  /\ pc = "cleanRestored" => caddy.view = ViewOf(disk)
  /\ pc = "done" /\ result = "restored" =>
       /\ caddy.view = ViewOf(disk) /\ reloads.running = {}
       /\ readAll(job.site, disk) \in {job.first, [job.first EXCEPT !.codes = wantedCodes]}

Serves == caddy.up /\ AsFound /\ Before /\ Between /\ Again /\ Restored
SInv == IInv /\ Reloading /\ Chosen /\ Sound /\ Serves

(* The file a step of a change moves. *)
Moved ==
  disk' \in {disk, Tear(disk), [disk EXCEPT !.codes = wantedCodes], PutCodes(disk, goal)}
            \cup {PutManifest(disk, f) : f \in {goal, job.first}}
            \cup {PutBlock(disk, f) : f \in {goal, job.first}}
            \cup {PutFragment(disk, f) : f \in {goal, job.first}}

LEMMA MovedFields ==
  ASSUME TypeOK, Moved
  PROVE /\ \A t \in Site \ {job.site} : disk'.manifest[t] = disk.manifest[t] /\ disk'.block[t] = disk.block[t]
        /\ disk'.fragment \in {disk.fragment, job.first.fragment, goal.fragment}
<1>1. \A f : /\ \A t \in Site \ {job.site} : PutManifest(disk, f).manifest[t] = disk.manifest[t]
             /\ PutManifest(disk, f).block = disk.block /\ PutManifest(disk, f).fragment = disk.fragment
             /\ \A t \in Site \ {job.site} : PutBlock(disk, f).block[t] = disk.block[t]
             /\ PutBlock(disk, f).manifest = disk.manifest /\ PutBlock(disk, f).fragment = disk.fragment
             /\ PutCodes(disk, f).manifest = disk.manifest /\ PutCodes(disk, f).block = disk.block
             /\ PutCodes(disk, f).fragment = disk.fragment
             /\ PutFragment(disk, f).fragment = f.fragment
             /\ PutFragment(disk, f).manifest = disk.manifest /\ PutFragment(disk, f).block = disk.block
  BY PutFields
<1>2. \A c : LET d == [disk EXCEPT !.codes = c]
             IN d.manifest = disk.manifest /\ d.block = disk.block /\ d.fragment = disk.fragment
  BY DEF TypeOK, Disk
<1>3. CASE disk' \in {disk, Tear(disk), [disk EXCEPT !.codes = wantedCodes]} BY <1>2, <1>3 DEF Tear
<1>4. CASE disk' = PutCodes(disk, goal) BY <1>1, <1>4
<1>5. ASSUME NEW f \in {goal, job.first}, disk' \in {PutManifest(disk, f), PutBlock(disk, f), PutFragment(disk, f)}
      PROVE /\ \A t \in Site \ {job.site} : disk'.manifest[t] = disk.manifest[t] /\ disk'.block[t] = disk.block[t]
            /\ disk'.fragment \in {disk.fragment, job.first.fragment, goal.fragment}
  BY <1>1, <1>5
<1> QED BY <1>3, <1>4, <1>5 DEF Moved

LEMMA ChangeMoves ==
  ASSUME TypeOK, Changing, Next
  PROVE Moved
<1>1. CASE \/ WriteManifest \/ WriteCodes \/ WriteTorn \/ WriteBlock \/ WriteFragment
           \/ RestoreManifest \/ RestoreBlock \/ RestoreCodes \/ RestoreTorn \/ RestoreFragment
  BY <1>1 DEF WriteManifest, WriteCodes, WriteTorn, WriteBlock, WriteFragment, RestoreManifest, RestoreBlock,
              RestoreCodes, RestoreTorn, RestoreFragment, Write, Moved
<1>2. CASE disk' = disk BY <1>2 DEF Moved
<1>3. CASE Operator \/ \E t \in Site : Outsider(t)
  BY <1>3 DEF Operator, Outsider, Changing, Writing, Settling, Preparing
<1> QED BY <1>1, <1>2, <1>3
        DEF Next, Gatekeeper, Others, Start, Interrupted, PlanFirst, Preconditions, GiveUp, Reread, PlacePage,
            SaveBackup, BackupSaved, BackupFailed, Validate, Reload, ReloadAnswered, Probe, Revalidate, Rereload,
            RereloadAnswered, CleanUp, Return, Kill, ReloadEnds, CaddyDies, CaddyRestarts, PowerCut, world

(* The views do not depend on the files of this site. *)
LEMMA ViewsStay ==
  ASSUME TypeOK, TypeOK', job'.site = job.site, job'.action = job.action, job'.first = job.first,
         job'.drawn = job.drawn, \A t \in Site \ {job.site} : disk'.block[t] = disk.block[t]
  PROVE FirstView' = FirstView /\ GoalView' = GoalView
<1>1. goal' = goal BY JobStill
<1>2. disk.block \in [Site -> Block] /\ disk'.block \in [Site -> Block] BY DEF TypeOK, Disk
<1>3. \A x : [disk'.block EXCEPT ![job.site] = x] = [disk.block EXCEPT ![job.site] = x]
  <2> TAKE x
  <2> DEFINE a == [disk'.block EXCEPT ![job.site] = x]
             b == [disk.block EXCEPT ![job.site] = x]
  <2>1. /\ a = [t \in Site |-> IF t = job.site THEN x ELSE disk'.block[t]]
        /\ b = [t \in Site |-> IF t = job.site THEN x ELSE disk.block[t]]
    BY <1>2
  <2> QED BY <2>1
<1> QED BY <1>1, <1>3 DEF FirstView, GoalView

LEMMA ViewIs ==
  ASSUME TypeOK
  PROVE /\ disk.block[job.site] = job.first.block /\ disk.fragment = job.first.fragment => ViewOf(disk) = FirstView
        /\ disk.block[job.site] = goal.block /\ disk.fragment = goal.fragment => ViewOf(disk) = GoalView
<1>1. disk.block \in [Site -> Block] BY DEF TypeOK, Disk
<1>2. \A x : disk.block[job.site] = x => [disk.block EXCEPT ![job.site] = x] = disk.block BY <1>1
<1> QED BY <1>2 DEF ViewOf, FirstView, GoalView

(* The other sites are the same in either view, and in the files. *)
LEMMA ViewsAgree ==
  ASSUME TypeOK, Chosen, AsFound, Changing
  PROVE /\ \A t \in Site \ {job.site} : goal.fragment[t] = job.first.fragment[t]
        /\ \A t \in Site \ {job.site}, v \in {FirstView, GoalView} :
             v.block[t] = disk.block[t] /\ v.fragment[t] = disk.fragment[t]
<1>1. target = "code" => CodeAfter(job.site, job.action, job.first, job.drawn) # NoCode
  BY DEF Chosen, Drawn, Known, Changing
<1>2. \A t \in Site \ {job.site} : goal.fragment[t] = job.first.fragment[t]
  <2>1. CASE locksAtStake BY <1>1, <2>1, GoalFragment DEF AsFound
  <2>2. CASE ~locksAtStake BY <2>2, GoalLocks
  <2> QED BY <2>1, <2>2
<1>3. \A t \in Site \ {job.site} : disk.fragment[t] = job.first.fragment[t] BY <1>2 DEF AsFound
<1>4. disk.block \in [Site -> Block] BY DEF TypeOK, Disk
<1>5. \A x : \A t \in Site \ {job.site} : [disk.block EXCEPT ![job.site] = x][t] = disk.block[t] BY <1>4
<1> QED BY <1>2, <1>3, <1>5 DEF FirstView, GoalView

LEMMA InitServes == ASSUME Init PROVE Serves
BY DEF Init, Serves, AsFound, Before, Between, Again, Restored, Serving, Changing, Writing, Settling

(* A transaction at rest, or preparing: only what precedes the writes counts. *)
LEMMA RestingServes ==
  ASSUME caddy'.up, Before', pc' \notin Writing \cup Settling, pc' = "done" => result' # "restored"
  PROVE Serves'
BY DEF Serves, AsFound, Between, Again, Restored, Changing, Settling

LEMMA PreparesServes ==
  ASSUME SInv, TypeOK',
         \/ \E s \in Site, a \in Action : Start(s, a)
         \/ Interrupted \/ PlanFirst \/ Preconditions \/ GiveUp \/ Reread \/ PlacePage
         \/ SaveBackup \/ BackupSaved \/ BackupFailed
  PROVE Serves'
<1> USE DEF Goto, Finish, world
<1>0. /\ TypeOK /\ Serves /\ caddy.up /\ Before
      /\ pc \in {"read", "preconditions", "reread", "page", "save"} => backup = {}
      /\ pc = "saving" => backup = {SavedAs(FALSE)}
  BY DEF SInv, Serves, IInv, Tracked, BackupHeld
<1>1. UNCHANGED <<disk, caddy, reloads>>
  BY DEF Start, Interrupted, PlanFirst, Preconditions, GiveUp, Reread, PlacePage, SaveBackup, BackupSaved, BackupFailed
<1>2. CASE BackupSaved
  <2>1. pc = "saving" /\ pc' = "writeManifest" /\ job' = job /\ ~job.tried /\ reloads.running = {}
    BY <1>2 DEF BackupSaved, SInv, Reloading, Tries, Unasked, Quiet
  <2>2. readAll(job.site, disk) = job.first BY <2>1 DEF SInv, IInv, Tracked, AsRead
  <2>3. /\ disk.manifest[job.site] = job.first.manifest /\ disk.block[job.site] = job.first.block
        /\ disk.codes = job.first.codes /\ disk.fragment = job.first.fragment
        /\ \A t \in Site : disk.manifest[t].lock = job.first.locks[t]
    BY <2>2 DEF readAll
  <2>4. Coherent(disk)
    <3>1. PutBack(disk, SavedAs(FALSE)) = disk BY DEF PutBack, SavedAs
    <3> QED BY <1>0, <2>1, <3>1 DEF SInv, Sound
  <2>5. job.site \in Site BY <1>0, JobType
  <2>6. AsFound' BY <1>1, <2>1, <2>3, <2>4, <2>5, JobStill DEF AsFound, Coherent
  <2>7. caddy.view = FirstView BY <1>0, <2>1, <2>3, ViewIs DEF Before
  <2>8. FirstView' = FirstView BY <1>0, <1>1, <2>1, ViewsStay
  <2>9. ~reloads.queued BY <2>1 DEF SInv, Reloading, Queue
  <2>10. Between' BY <1>1, <2>1, <2>7, <2>8, <2>9 DEF Between
  <2>11. backup' # {} BY <1>0, <1>2, <2>1 DEF BackupSaved
  <2> QED BY <1>0, <1>1, <2>1, <2>6, <2>10, <2>11 DEF Serves, Before, Again, Restored
<1>3. CASE ~BackupSaved
  <2>1. /\ pc' \notin Writing \cup Settling /\ (pc' = "done" => result' # "restored")
        /\ pc' = "saving" => backup = {}
        /\ backup' = {} => backup = {} \/ pc = "saving"
    BY <1>0, <1>3 DEF Start, Interrupted, PlanFirst, Preconditions, GiveUp, Reread, PlacePage, SaveBackup, BackupFailed, Writing, Settling
  <2>2. Before' BY <1>0, <1>1, <2>1 DEF Before, ViewOf
  <2> QED BY <1>0, <1>1, <2>1, <2>2, RestingServes
<1> QED BY <1>2, <1>3

(* From one step of a change to the next, the files moved as they may be. *)
LEMMA ChangeAsFound ==
  ASSUME SInv, TypeOK', Changing, Moved,
         job'.site = job.site, job'.action = job.action, job'.first = job.first, job'.drawn = job.drawn
  PROVE AsFound' /\ FirstView' = FirstView /\ GoalView' = GoalView
<1>1. TypeOK /\ AsFound BY DEF SInv, IInv, Serves
<1>2. goal' = goal BY JobStill
<1> QED BY <1>1, <1>2, MovedFields, ViewsStay DEF AsFound

LEMMA WritesServes ==
  ASSUME SInv, TypeOK', Moved,
         \/ WriteManifest \/ WriteCodes \/ WriteTorn \/ WriteBlock \/ WriteFragment
         \/ Validate \/ Reload \/ ReloadAnswered \/ Probe
  PROVE Serves'
<1> USE DEF Goto, Finish, Restoring, world
<1>0. TypeOK /\ caddy.up /\ Between BY DEF SInv, IInv, Serves
<1>1. /\ pc \in Writing \ {"cleanOk"} /\ pc' \in Writing \cup {"restoreManifest"}
      /\ UNCHANGED <<backup, caddy>>
  BY DEF WriteManifest, WriteCodes, WriteTorn, WriteBlock, WriteFragment, Write, Validate, Reload, ReloadAnswered, Probe,
         Writing
<1>2. Changing /\ backup # {} BY <1>1 DEF SInv, IInv, Tracked, BackupHeld, Changing
<1>3. job'.site = job.site /\ job'.action = job.action /\ job'.first = job.first /\ job'.drawn = job.drawn
  BY <1>0, ReloadJob DEF WriteManifest, WriteCodes, WriteTorn, WriteBlock, WriteFragment, Write, Validate, ReloadAnswered, Probe
<1>4. AsFound' /\ FirstView' = FirstView /\ GoalView' = GoalView BY <1>2, <1>3, ChangeAsFound
<1>5. Before' /\ Again' /\ Restored' BY <1>1, <1>2 DEF Before, Again, Restored, Writing
<1>6. CASE Reload
  <2>1. pc = "reload" /\ UNCHANGED <<disk, caddy>> BY <1>6 DEF Reload
  <2>2. reloads.running = {} BY <2>1 DEF SInv, Reloading, Tries, Quiet, Unasked, Changing, Writing
  <2>3. reloads' = [running |-> {[kind |-> "reload", view |-> ViewOf(disk)]}, queued |-> FALSE, answer |-> "none"]
    BY <1>6, <2>2 DEF Reload, Ask
  <2>4. ViewOf(disk) = GoalView
    <3>1. disk.block[job.site] = goal.block /\ disk.fragment = goal.fragment
      BY <2>1 DEF SInv, IInv, Tracked, Forward, Writing
    <3> QED BY <1>0, <3>1, ViewIs
  <2>5. job'.tried BY <1>0, <1>6 DEF Reload, TypeOK, Jobs
  <2>6. Between' BY <1>0, <1>2, <1>4, <2>1, <2>3, <2>4, <2>5 DEF Between
  <2> QED BY <1>0, <1>1, <1>4, <1>5, <2>6 DEF Serves
<1>7. CASE ~Reload
  <2>1. UNCHANGED <<reloads, job>>
    BY <1>7 DEF WriteManifest, WriteCodes, WriteTorn, WriteBlock, WriteFragment, Write, Validate, Reload, ReloadAnswered, Probe
  <2>2. Between' BY <1>0, <1>1, <1>2, <1>4, <2>1 DEF Between, Writing
  <2> QED BY <1>0, <1>1, <1>4, <1>5, <2>2 DEF Serves
<1> QED BY <1>6, <1>7

(* Everything put back, the files show this site as it was read. *)
LEMMA BackIsFirst ==
  ASSUME IInv, pc \in {"revalidate", "rereload", "rewaiting", "cleanRestored"}
  PROVE ViewOf(disk) = FirstView
<1>1. TypeOK BY DEF IInv
<1>2. disk.block[job.site] = job.first.block /\ disk.fragment = job.first.fragment
  BY DEF IInv, Tracked, Back, Settling
<1> QED BY <1>1, <1>2, ViewIs

LEMMA RestoresServes ==
  ASSUME SInv, TypeOK', Moved,
         \/ RestoreManifest \/ RestoreBlock \/ RestoreCodes \/ RestoreTorn \/ RestoreFragment
         \/ Revalidate \/ Rereload \/ RereloadAnswered
  PROVE Serves'
<1> USE DEF Goto, Finish, Stuck, world
<1>0. TypeOK /\ caddy.up /\ Between /\ Again BY DEF SInv, IInv, Serves
<1>1. pc \in Settling \ {"cleanRestored"} /\ UNCHANGED <<backup, caddy, job>>
  BY DEF RestoreManifest, RestoreBlock, RestoreCodes, RestoreTorn, RestoreFragment, Write, Revalidate, Rereload,
         RereloadAnswered, Settling
<1>2. Changing /\ backup # {} BY <1>1 DEF SInv, IInv, Tracked, BackupHeld, Changing
<1>3. AsFound' /\ FirstView' = FirstView /\ GoalView' = GoalView BY <1>1, <1>2, ChangeAsFound
<1>4. CASE pc' = "done"
  <2>1. result' # "restored"
    BY <1>4 DEF RestoreManifest, RestoreBlock, RestoreCodes, RestoreTorn, RestoreFragment, Write, Revalidate, Rereload,
                RereloadAnswered
  <2> QED BY <1>0, <1>1, <1>2, <1>4, <2>1, RestingServes DEF Before, Writing, Settling
<1>5. CASE Rereload
  <2>1. pc = "rereload" /\ pc' = "rewaiting" /\ UNCHANGED disk BY <1>5 DEF Rereload
  <2>2. ViewOf(disk) = FirstView /\ ViewOf(disk)' = ViewOf(disk) BY <2>1, BackIsFirst DEF SInv, ViewOf
  <2>3. job.tried BY <2>1 DEF SInv, Reloading, Tries
  <2>4. reloads'.answer = "none"
        /\ \/ /\ reloads.running = {} /\ ~reloads'.queued
              /\ \A r \in reloads'.running : r.view = ViewOf(disk)
           \/ reloads'.running = reloads.running /\ reloads'.queued
    BY <1>5 DEF Rereload, Ask
  <2>5. Between' BY <1>0, <1>1, <1>2, <1>3, <2>1, <2>2, <2>3, <2>4 DEF Between
  <2>6. Again' BY <2>2, <2>4 DEF Again
  <2> QED BY <1>0, <1>1, <1>2, <1>3, <2>1, <2>5, <2>6 DEF Serves, Before, Restored
<1>6. CASE ~Rereload /\ pc' # "done"
  <2>1. /\ UNCHANGED reloads
        /\ pc' \in {"restoreBlock", "restoreCodes", "restoreTorn", "restoreFragment", "revalidate", "rereload",
                   "cleanRestored"}
        /\ pc' = "cleanRestored" => disk' = disk /\ \/ pc = "revalidate" /\ ~job.tried
                                                    \/ pc = "rewaiting" /\ reloads.answer = "ok"
        /\ pc = "rewaiting" => reloads.answer = "ok"
    BY <1>6 DEF RestoreManifest, RestoreBlock, RestoreCodes, RestoreTorn, RestoreFragment, Write, Revalidate,
                RereloadAnswered
  <2>2. ~reloads.queued BY <1>0, <1>2, <2>1 DEF Between, SInv, Reloading, Queue
  <2>3. Between' BY <1>0, <1>1, <1>2, <1>3, <2>1, <2>2 DEF Between
  <2>4. Restored'
    <3>1. pc' = "cleanRestored" => caddy.view = ViewOf(disk)
      BY <1>0, <1>2, <2>1, BackIsFirst DEF SInv, Between, Again
    <3> QED BY <1>1, <2>1, <3>1 DEF Restored, ViewOf
  <2> QED BY <1>0, <1>1, <1>2, <1>3, <2>1, <2>3, <2>4 DEF Serves, Before, Again
<1> QED BY <1>4, <1>5, <1>6

(* Given back, the files are those that were read: a codes file that was
   missing may now be there, and empty. *)
LEMMA GivenBack ==
  ASSUME TypeOK, IInv, AsFound, pc = "cleanRestored"
  PROVE readAll(job.site, disk) \in {job.first, [job.first EXCEPT !.codes = wantedCodes]}
<1>1. /\ disk.manifest[job.site] = job.first.manifest /\ disk.block[job.site] = job.first.block
      /\ disk.codes \in {job.first.codes, wantedCodes} /\ disk.fragment = job.first.fragment
  BY DEF IInv, Tracked, Back, Settling
<1>2. job.first \in Deployed BY JobType
<1>3. [t \in Site |-> disk.manifest[t].lock] = job.first.locks
  <2>1. job.first.locks \in [Site -> BOOLEAN] BY <1>2 DEF Deployed
  <2>2. \A t \in Site : disk.manifest[t].lock = job.first.locks[t] BY <1>1 DEF AsFound, Changing, Settling
  <2>3. job.first.locks = [t \in Site |-> job.first.locks[t]] BY <2>1
  <2> QED BY <2>2, <2>3
<1>4. readAll(job.site, disk) = [manifest |-> job.first.manifest, block |-> job.first.block, codes |-> disk.codes,
                                 fragment |-> job.first.fragment, locks |-> job.first.locks]
  BY <1>1, <1>3 DEF readAll
<1>5. job.first = [manifest |-> job.first.manifest, block |-> job.first.block, codes |-> job.first.codes,
                   fragment |-> job.first.fragment, locks |-> job.first.locks]
  BY <1>2 DEF Deployed
<1>6. [job.first EXCEPT !.codes = wantedCodes]
        = [manifest |-> job.first.manifest, block |-> job.first.block, codes |-> wantedCodes,
           fragment |-> job.first.fragment, locks |-> job.first.locks]
  BY <1>5
<1> QED BY <1>1, <1>4, <1>5, <1>6

LEMMA EndsServes ==
  ASSUME SInv, CleanUp \/ Return
  PROVE Serves'
<1>0. TypeOK /\ IInv /\ caddy.up /\ AsFound /\ Before /\ Restored BY DEF SInv, IInv, Serves
<1>1. CASE Return
  <2>1. pc' = "idle" /\ UNCHANGED <<disk, caddy, backup>> BY <1>1 DEF Return, world
  <2>2. Before' BY <1>0, <2>1 DEF Before, ViewOf
  <2> QED BY <1>0, <2>1, <2>2, RestingServes DEF Writing, Settling
<1>2. CASE CleanUp
  <2>1. pc' = "done" /\ UNCHANGED <<disk, caddy, reloads, job>> BY <1>2 DEF CleanUp, Finish
  <2>2. caddy.view = ViewOf(disk) /\ reloads.running = {}
    BY <1>0, <1>2 DEF CleanUp, Restored, SInv, Reloading, InPlaceServed, Served, Quiet
  <2>3. Before' BY <2>1, <2>2 DEF Before, ViewOf
  <2>4. CASE pc = "cleanOk"
    <3>1. result' # "restored" BY <1>2, <2>4 DEF CleanUp, Finish
    <3> QED BY <1>0, <2>1, <2>3, <3>1, RestingServes DEF Writing, Settling
  <2>5. CASE pc = "cleanRestored"
    <3>1. readAll(job.site, disk) \in {job.first, [job.first EXCEPT !.codes = wantedCodes]} BY <1>0, <2>5, GivenBack
    <3>2. readAll(job'.site, disk') = readAll(job.site, disk) /\ wantedCodes' = wantedCodes /\ ViewOf(disk') = ViewOf(disk)
      BY <2>1, JobStill
    <3>3. Restored' BY <2>1, <2>2, <3>1, <3>2 DEF Restored
    <3> QED BY <1>0, <2>1, <2>3, <3>3 DEF Serves, AsFound, Between, Again, Changing, Writing, Settling
  <2> QED BY <1>2, <2>4, <2>5 DEF CleanUp
<1> QED BY <1>1, <1>2

LEMMA OthersServes ==
  ASSUME Crashes = FALSE, PowerCuts = FALSE, SInv, TypeOK', Others
  PROVE Serves'
<1>0. TypeOK /\ IInv /\ Serves /\ caddy.up /\ Before BY DEF SInv, IInv, Serves
<1>1. CASE Kill
  <2>1. pc' = "idle" /\ UNCHANGED <<disk, caddy, backup>> BY <1>1 DEF Kill, world
  <2>2. Before' BY <1>0, <2>1 DEF Before, ViewOf
  <2> QED BY <1>0, <2>1, <2>2, RestingServes DEF Writing, Settling
<1>2. CASE ReloadEnds
  <2>1. PICK run \in reloads.running, ok \in BOOLEAN :
          /\ caddy' = IF ok THEN Serving(run.view) ELSE caddy
          /\ reloads' = IF reloads.queued
                          THEN [running |-> {[kind |-> run.kind, view |-> ViewOf(disk)]}, queued |-> FALSE, answer |-> "none"]
                          ELSE [running |-> {}, queued |-> FALSE, answer |-> IF ok THEN "ok" ELSE "refused"]
          /\ UNCHANGED <<disk, pages, backup, pc, job, result>>
    BY <1>2 DEF ReloadEnds
  <2>2. caddy'.up /\ caddy'.view \in {caddy.view, run.view} /\ (ok => caddy'.view = run.view)
    BY <1>0, <2>1 DEF Serving
  <2>3. Before' BY <2>1 DEF Before, SInv, Reloading, Quiet
  <2>4. FirstView' = FirstView /\ GoalView' = GoalView /\ ViewOf(disk)' = ViewOf(disk)
    BY <1>0, <2>1, ViewsStay DEF ViewOf
  <2>5. AsFound'
    <3>1. goal' = goal BY <2>1, JobStill
    <3> QED BY <1>0, <2>1, <3>1 DEF Serves, AsFound, Changing
  <2>6. Between'
    <3>1. SUFFICES ASSUME Changing PROVE Between' BY <2>1 DEF Between, Changing
    <3>2. caddy'.view \in {FirstView, GoalView} BY <1>0, <2>1, <2>2, <3>1 DEF Serves, Between
    <3>3. job.tried BY <2>1, <3>1 DEF SInv, Reloading, Quiet
    <3>4. reloads.queued => pc = "rewaiting" /\ ViewOf(disk) = FirstView
      BY <1>0, <3>1, BackIsFirst DEF Serves, Between
    <3>5. \A r \in reloads'.running : r.view \in {FirstView, GoalView} BY <2>1, <3>4
    <3> QED BY <2>1, <2>4, <3>2, <3>3, <3>5 DEF Between
  <2>7. Again'
    <3>1. ~reloads.queued /\ pc = "rewaiting" => run.view = ViewOf(disk) BY <1>0, <2>1 DEF Serves, Again
    <3> QED BY <2>1, <2>2, <2>4, <3>1 DEF Again
  <2>8. Restored' BY <1>0, <2>1 DEF Serves, Restored, SInv, Reloading, Quiet
  <2> QED BY <2>2, <2>3, <2>5, <2>6, <2>7, <2>8 DEF Serves
<1>3. CASE CaddyDies \/ CaddyRestarts \/ PowerCut BY <1>3 DEF CaddyDies, CaddyRestarts, PowerCut
<1>4. CASE Operator
  <2>1. caddy' = Serving(ViewOf(disk')) /\ pc' = "idle" BY <1>4 DEF Operator
  <2>2. Before' /\ caddy'.up BY <2>1 DEF Before, Serving
  <2> QED BY <2>1, <2>2, RestingServes DEF Writing, Settling
<1>5. ASSUME NEW t \in Site, Outsider(t) PROVE Serves'
  <2>1. caddy' = Serving(ViewOf(disk')) /\ pc' \in {"idle"} \cup Preparing BY <1>5 DEF Outsider
  <2>2. Before' /\ caddy'.up BY <2>1 DEF Before, Serving
  <2> QED BY <2>1, <2>2, RestingServes DEF Preparing, Writing, Settling
<1> QED BY <1>1, <1>2, <1>3, <1>4, <1>5 DEF Others

LEMMA SettlingStep ==
  ASSUME Crashes = FALSE, PowerCuts = FALSE, SInv, [Next]_vars
  PROVE SInv'
<1>1. IInv' /\ Reloading' /\ Chosen' /\ Sound' BY StepInv, ServingStep DEF SInv
<1>2. TypeOK' BY <1>1 DEF IInv
<1>3. CASE UNCHANGED vars
  <2>1. FirstView' = FirstView /\ GoalView' = GoalView /\ goal' = goal /\ wantedCodes' = wantedCodes
    BY <1>3 DEF vars, FirstView, GoalView, goal, wantedCodes
  <2>2. Serves'
    BY <1>3, <2>1 DEF vars, SInv, Serves, AsFound, Before, Between, Again, Restored, Changing, ViewOf, readAll
  <2> QED BY <1>1, <2>2 DEF SInv
<1>4. CASE Next
  <2>1. CASE Changing
    <3>1. Moved BY <1>4, <2>1, ChangeMoves DEF SInv, IInv
    <3>2. Serves'
      BY <1>2, <1>4, <3>1, PreparesServes, WritesServes, RestoresServes, EndsServes, OthersServes DEF Next, Gatekeeper
    <3> QED BY <1>1, <3>2 DEF SInv
  <2>2. CASE ~Changing
    <3>1. ~(\/ WriteManifest \/ WriteCodes \/ WriteTorn \/ WriteBlock \/ WriteFragment
            \/ Validate \/ Reload \/ ReloadAnswered \/ Probe
            \/ RestoreManifest \/ RestoreBlock \/ RestoreCodes \/ RestoreTorn \/ RestoreFragment
            \/ Revalidate \/ Rereload \/ RereloadAnswered)
      BY <2>2 DEF WriteManifest, WriteCodes, WriteTorn, WriteBlock, WriteFragment, Write, Validate, Reload, ReloadAnswered,
                  Probe, RestoreManifest, RestoreBlock, RestoreCodes, RestoreTorn, RestoreFragment, Revalidate, Rereload,
                  RereloadAnswered, Changing, Writing, Settling
    <3>2. Serves' BY <1>2, <1>4, <3>1, PreparesServes, EndsServes, OthersServes DEF Next, Gatekeeper
    <3> QED BY <1>1, <3>2 DEF SInv
  <2> QED BY <2>1, <2>2
<1> QED BY <1>3, <1>4

LEMMA InitSInv == ASSUME Init PROVE SInv
BY InitInv, InitReloading, InitChosen, InitServes DEF SInv

-----------------------------------------------------------------------------
(* With Caddy up and no power cut, a gatekeeper at rest with no backup left
   behind has left files that agree, all served, and no reload on its way:
   whatever threw, was killed, was late or wrote beside. *)
THEOREM NothingLeftBehind == ASSUME Crashes = FALSE, PowerCuts = FALSE PROVE Spec => []Settled
<1>1. Init => SInv BY InitSInv
<1>2. SInv /\ [Next]_vars => SInv' BY SettlingStep
<1>3. SInv => Settled
  BY DEF SInv, Settled, Sound, Serves, Before, Served, Reloading, Quiet
<1> QED BY <1>1, <1>2, <1>3, PTL DEF Spec

(* "previous configuration restored" is only told once the files are those
   that were read and Caddy serves them: a late reload never overtakes. *)
THEOREM RestoredMeansServed == ASSUME Crashes = FALSE, PowerCuts = FALSE PROVE Spec => []RestoredServed
<1>1. Init => SInv BY InitSInv
<1>2. SInv /\ [Next]_vars => SInv' BY SettlingStep
<1>3. SInv => RestoredServed
  BY DEF SInv, RestoredServed, Serves, Restored, Served
<1> QED BY <1>1, <1>2, <1>3, PTL DEF Spec

(* A site closed before the change and after it is closed in both of the
   views Caddy may serve meanwhile. *)
LEMMA ClosedInBoth ==
  ASSUME SInv, Changing, target # "public", job.first.block = "guard" \/ previous # NoCode
  PROVE Closed(FirstView, job.site) /\ Closed(GoalView, job.site)
<1>1. TypeOK /\ job.action \in Action /\ job.site \in Site BY JobType DEF SInv, IInv
<1>2. disk.block \in [Site -> Block] BY <1>1 DEF TypeOK, Disk
<1>3. \A x : [disk.block EXCEPT ![job.site] = x][job.site] = x BY <1>1, <1>2
<1>4. Closed(FirstView, job.site) BY <1>3 DEF Closed, FirstView, previous, inService
<1>5. CASE target = "restricted"
  <2>1. goal.block = "guard" BY <1>5 DEF goal, Goal, target, targetManifest, generateFragment
  <2> QED BY <1>3, <1>4, <2>1 DEF Closed, GoalView
<1>6. CASE target = "code"
  <2>1. CodeAfter(job.site, job.action, job.first, job.drawn) # NoCode BY <1>6 DEF SInv, Chosen, Drawn, Known, Changing
  <2>2. goal.fragment[job.site] # NoCode BY <1>1, <1>6, <2>1, GoalFragment
  <2> QED BY <1>4, <2>2 DEF Closed, GoalView
<1>7. target \in Access BY <1>1, TargetType DEF target
<1> QED BY <1>5, <1>6, <1>7 DEF Access

(* A site that was closed and is to be closed is served closed at every step
   of the change and of its way back. *)
THEOREM NeverOpenBetween == ASSUME Crashes = FALSE, PowerCuts = FALSE PROVE Spec => []ClosedStaysClosed
<1>1. Init => SInv BY InitSInv
<1>2. SInv /\ [Next]_vars => SInv' BY SettlingStep
<1>3. SInv => ClosedStaysClosed
  <2> SUFFICES ASSUME SInv, Changing, target # "public", job.first.block = "guard" \/ previous # NoCode
               PROVE Closed(caddy.view, job.site)
    BY DEF ClosedStaysClosed
  <2>1. caddy.view \in {FirstView, GoalView} BY DEF SInv, Serves, Between
  <2> QED BY <2>1, ClosedInBoth
<1> QED BY <1>1, <1>2, <1>3, PTL DEF Spec

(* From its first write on, no step of a transaction, and none around it,
   changes another site's files or what Caddy serves of them. *)
LEMMA ChangeKeepsOthers ==
  ASSUME Crashes = FALSE, PowerCuts = FALSE, SInv, Next, Changing
  PROVE OthersUntouched
<1>0. TypeOK /\ Chosen /\ AsFound /\ Between BY DEF SInv, IInv, Serves
<1>1. Moved BY <1>0, ChangeMoves
<1>2. /\ \A t \in Site \ {job.site} : goal.fragment[t] = job.first.fragment[t]
      /\ \A t \in Site \ {job.site}, v \in {FirstView, GoalView} :
           v.block[t] = disk.block[t] /\ v.fragment[t] = disk.fragment[t]
  BY <1>0, ViewsAgree
<1>3. \A t \in Site \ {job.site} : /\ disk'.manifest[t] = disk.manifest[t]
                                   /\ disk'.block[t] = disk.block[t]
                                   /\ disk'.fragment[t] = disk.fragment[t]
  BY <1>0, <1>1, <1>2, MovedFields DEF AsFound
<1>4. caddy'.view \in {FirstView, GoalView}
  <2>1. CASE ReloadEnds
    <3>1. PICK run \in reloads.running, ok \in BOOLEAN : caddy' = IF ok THEN Serving(run.view) ELSE caddy
      BY <2>1 DEF ReloadEnds
    <3> QED BY <1>0, <3>1 DEF Between, Serving
  <2>2. CASE caddy' = caddy BY <1>0, <2>2 DEF Between
  <2>3. CASE Operator \/ (\E t \in Site : Outsider(t)) \/ CaddyDies \/ CaddyRestarts \/ PowerCut
    BY <2>3 DEF Operator, Outsider, CaddyDies, CaddyRestarts, PowerCut, Changing, Writing, Settling, Preparing
  <2> QED BY <2>1, <2>2, <2>3
        DEF Next, Gatekeeper, Others, Start, Interrupted, PlanFirst, Preconditions, GiveUp, Reread, PlacePage,
            SaveBackup, BackupSaved, BackupFailed, WriteManifest, WriteCodes, WriteTorn, WriteBlock, WriteFragment,
            RestoreManifest, RestoreBlock, RestoreCodes, RestoreTorn, RestoreFragment, Write, Validate, Reload,
            ReloadAnswered, Probe, Revalidate, Rereload, RereloadAnswered, CleanUp, Return, Kill, world
<1>5. caddy.view \in {FirstView, GoalView} BY <1>0 DEF Between
<1> QED BY <1>2, <1>3, <1>4, <1>5 DEF OthersUntouched

(* No step of a change, whatever fails in it or is killed, writes a file of *)
(* another site than the one it was asked for.                              *)
THEOREM OthersLeftAlone == ASSUME Crashes = FALSE, PowerCuts = FALSE PROVE Spec => OthersKept
<1>1. Init => SInv BY InitSInv
<1>2. SInv /\ [Next]_vars => SInv' BY SettlingStep
<1>3. SInv /\ [Next]_vars => [Changing => OthersUntouched]_vars BY ChangeKeepsOthers
<1> QED BY <1>1, <1>2, <1>3, PTL DEF Spec, OthersKept
==============================================================================
