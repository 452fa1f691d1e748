---------------------------- MODULE RestoreProofs ----------------------------
(***************************************************************************)
(* Proofs about Restore, for any number of restores, runs, kills, machine  *)
(* restarts, versions of the data and snapshots kept.                      *)
(***************************************************************************)
EXTENDS Restore, TLAPS, SequenceTheorems

(* The four ways the folders of a project may be: the data in place, at     *)
(* most an extraction or a data given up beside it; the data moved, to be   *)
(* put back; restored data on trial, the data it replaces kept; and         *)
(* restored data accepted, the previous half removed.                       *)
Alone == disk["incoming"] = Absent /\ disk["failed"] = Absent
Quiet == /\ disk["data"] = latest /\ disk["previous"] = Absent
         /\ disk["incoming"] = Absent \/ disk["failed"] = Absent
Moved == /\ disk["data"] = Absent /\ disk["previous"] = latest
         /\ disk["incoming"] = Absent <=> disk["failed"] # Absent
OnTrial == disk["data"] \in Version /\ disk["previous"] = latest /\ Alone
Dropped == disk["data"] = latest /\ disk["previous"] = Torn /\ Alone

Types ==
    /\ disk \in [Folder -> Version \cup {Absent, Torn}] /\ latest \in Version /\ fresh \in Version
    /\ pre \in Seq(Version) /\ asked \in Version
    /\ on \in BOOLEAN /\ serving \in BOOLEAN

(* What the unit finds at each of its steps.                                *)
Found ==
    /\ phase \in {"repaired", "unstopped", "restarting"} => Quiet /\ Alone
    /\ phase = "extracting" => Quiet /\ disk["failed"] = Absent
    /\ phase \in {"extracted", "marked", "stopping", "stopped", "saved"} =>
          Quiet /\ disk["failed"] = Absent /\ disk["incoming"] \in Version
    /\ phase = "away" => Moved /\ disk["incoming"] \in Version
    /\ phase \in {"placed", "watching", "undoing", "halted", "cleared"} => OnTrial
    /\ phase = "dropping" => Dropped
    /\ phase = "setaside" => Moved /\ disk["incoming"] = Absent
    /\ phase \in {"back", "restarted", "sweeping"} => Quiet /\ disk["incoming"] = Absent

Folders == Quiet \/ Moved \/ OnTrial \/ Dropped
Placed == Types /\ Folders /\ Found

Loose == {"idle", "begun", "waiting", "locked", "ending", "post", "mending", "starting", "started"}

-----------------------------------------------------------------------------
LEMMA Versions == Absent \notin Version /\ Torn \notin Version /\ Absent # Torn /\ 1 \in Version
BY BoundsAssumption DEF Version, Absent, Torn

LEMMA LeftoversAre ==
  ASSUME NEW S \in SUBSET {"incoming", "previous", "failed"}
  PROVE LeftBehind = S <=> \A f \in {"incoming", "previous", "failed"} : f \in S <=> disk[f] # Absent
BY DEF LeftBehind, Present, Folder

LEMMA InitPlaced == ASSUME RestoreInit PROVE Placed
<1>1. Types BY Versions DEF RestoreInit, Types
<1>2. Quiet BY DEF RestoreInit, Quiet, Folder
<1> QED BY <1>1, <1>2 DEF Placed, Folders, Found, RestoreInit

(* A step that moves no folder.                                             *)
LEMMA StillPlaced ==
  ASSUME Placed, UNCHANGED <<disk, latest, fresh>>, pre' \in Seq(Version), asked' \in Version, UNCHANGED on,
         serving' \in BOOLEAN,
         \/ phase' = phase
         \/ phase' \in Loose
         \/ <<phase, phase'>> \in
               {<<"extracted", "stopped">>, <<"extracted", "marked">>, <<"marked", "stopping">>,
                <<"undoing", "halted">>, <<"stopping", "stopped">>, <<"stopped", "saved">>,
                <<"unstopped", "restarting">>, <<"placed", "watching">>, <<"back", "restarted">>,
                <<"placed", "cleared">>, <<"watching", "cleared">>, <<"watching", "undoing">>,
                <<"restarted", "sweeping">>}
  PROVE Placed'
<1>1. Types' BY DEF Placed, Types
<1>2. Folders' BY DEF Placed, Folders, Quiet, Moved, OnTrial, Dropped, Alone
<1>3. Found'
  <2>1. CASE phase' = phase BY <2>1 DEF Placed, Found, Quiet, Moved, OnTrial, Dropped, Alone
  <2>2. CASE phase' \in Loose BY <2>2 DEF Found, Loose
  <2>3. CASE ~(phase' = phase \/ phase' \in Loose) BY <2>3 DEF Placed, Found, Quiet, Moved, OnTrial, Dropped, Alone
  <2> QED BY <2>1, <2>2, <2>3
<1> QED BY <1>1, <1>2, <1>3 DEF Placed

-----------------------------------------------------------------------------
(* What the leftovers tell of the folders.                                  *)
LEMMA NoLeftover == ASSUME Placed, LeftBehind = {}, Present("data") PROVE Quiet /\ Alone
<1>1. \A f \in {"incoming", "previous", "failed"} : disk[f] = Absent BY LeftoversAre
<1>2. disk["previous"] # Torn /\ ~Moved BY <1>1, Versions DEF Moved, Present
<1>3. latest # Absent BY Versions DEF Placed, Types
<1> QED BY <1>1, <1>2, <1>3 DEF Placed, Folders, Quiet, OnTrial, Dropped, Alone

LEMMA PreviousAlone == ASSUME Placed, LeftBehind = {"previous"} PROVE OnTrial \/ Dropped
<1>1. disk["previous"] # Absent /\ Alone BY LeftoversAre DEF Alone
<1> QED BY <1>1 DEF Placed, Folders, Quiet, Moved, Alone

LEMMA ToPutBack == ASSUME Placed, PutsBack PROVE Moved
<1>1. disk["data"] = Absent BY DEF PutsBack, Present
<1>2. latest # Absent BY Versions DEF Placed, Types
<1> QED BY <1>1, <1>2, Versions DEF Placed, Folders, Quiet, OnTrial, Dropped

LEMMA ToSweep == ASSUME Placed, NEW f \in Folder, Sweeps(f) PROVE Quiet /\ f \in {"incoming", "failed"}
<1>1. f \in {"incoming", "failed"} /\ disk["data"] # Absent /\ LeftBehind = {f} BY DEF Sweeps, Present
<1>2. disk["previous"] = Absent /\ ~Alone BY <1>1, LeftoversAre DEF Alone
<1>3. latest # Absent BY Versions DEF Placed, Types
<1> QED BY <1>1, <1>2, <1>3, Versions DEF Placed, Folders, Moved, OnTrial, Dropped

(* The folders moved: what each holds then.                                 *)
LEMMA Moves ==
  ASSUME disk \in [Folder -> Version \cup {Absent, Torn}],
         NEW from \in Folder, NEW to \in Folder, from # to, disk' = Renamed(from, to)
  PROVE /\ disk' \in [Folder -> Version \cup {Absent, Torn}]
        /\ disk'[to] = disk[from] /\ disk'[from] = Absent
        /\ \A f \in Folder \ {from, to} : disk'[f] = disk[f]
BY DEF Renamed

LEMMA Fills ==
  ASSUME disk \in [Folder -> Version \cup {Absent, Torn}],
         NEW to \in Folder, NEW v \in Version \cup {Absent, Torn}, disk' = [disk EXCEPT ![to] = v]
  PROVE /\ disk' \in [Folder -> Version \cup {Absent, Torn}]
        /\ disk'[to] = v /\ \A f \in Folder \ {to} : disk'[f] = disk[f]
OBVIOUS

(* Put back: the data in its place again, what replaced it beside it.       *)
LEMMA PutBackPlaced ==
  ASSUME Placed, Moved, disk' = Renamed("previous", "data"), UNCHANGED <<latest, fresh, pre, on, asked>>,
         serving' \in BOOLEAN, phase' \in Loose \cup {"back"}, phase' = "back" => disk["incoming"] = Absent
  PROVE Placed'
<1>1. /\ disk' \in [Folder -> Version \cup {Absent, Torn}]
      /\ disk'["data"] = disk["previous"] /\ disk'["previous"] = Absent
      /\ disk'["incoming"] = disk["incoming"] /\ disk'["failed"] = disk["failed"]
  BY Moves DEF Placed, Types, Folder
<1>2. Quiet' BY <1>1 DEF Moved, Quiet
<1>3. Types' BY <1>1 DEF Placed, Types
<1>4. Found' BY <1>1, <1>2 DEF Found, Loose
<1> QED BY <1>2, <1>3, <1>4 DEF Placed, Folders

(* A leftover removed beside the data in place.                             *)
LEMMA SweptPlaced ==
  ASSUME Placed, Quiet, NEW f \in {"incoming", "failed"}, disk' = Removed(f), UNCHANGED <<latest, fresh, pre, on, asked, serving>>,
         phase' \in Loose \cup {"unstopped"}, phase' = "unstopped" => f = "incoming" /\ disk["failed"] = Absent
  PROVE Placed'
<1>1. /\ disk' \in [Folder -> Version \cup {Absent, Torn}]
      /\ disk'[f] = Absent /\ \A g \in Folder \ {f} : disk'[g] = disk[g]
  BY Fills DEF Placed, Types, Folder, Removed
<1>2. Quiet' BY <1>1 DEF Quiet, Folder
<1>3. Types' BY <1>1 DEF Placed, Types
<1>4. Found' BY <1>1, <1>2 DEF Found, Loose, Alone, Folder
<1> QED BY <1>2, <1>3, <1>4 DEF Placed, Folders

LEMMA RepairPlaced == ASSUME Placed, repair \/ OperatorPutsBack PROVE Placed'
<1>1. UNCHANGED <<latest, fresh, pre, on, asked>> /\ phase' \in Loose /\ serving' \in BOOLEAN
  BY DEF repair, OperatorPutsBack, Loose, Placed, Types
<1>2. CASE PutsBack /\ disk' = Renamed("previous", "data")
  <2>1. Moved BY <1>2, ToPutBack
  <2>2. phase' \in Loose \cup {"back"} /\ phase' # "back" BY <1>1 DEF Loose
  <2> QED BY <1>1, <1>2, <2>1, <2>2, PutBackPlaced
<1>3. CASE repair /\ \E f \in Folder : Sweeps(f) /\ disk' = Removed(f)
  <2>1. PICK f \in Folder : Sweeps(f) /\ disk' = Removed(f) BY <1>3
  <2>2. UNCHANGED serving BY <1>3 DEF repair
  <2>3. Quiet /\ f \in {"incoming", "failed"} BY <2>1, ToSweep
  <2>4. UNCHANGED <<latest, fresh, pre, on, asked, serving>> BY <1>1, <2>2
  <2>5. phase' \in Loose \cup {"unstopped"} /\ phase' # "unstopped" BY <1>1 DEF Loose
  <2> QED BY <2>1, <2>3, <2>4, <2>5, SweptPlaced
<1> QED BY <1>2, <1>3 DEF repair, OperatorPutsBack, RepairStep

LEMMA ExtractsPlaced ==
  ASSUME Placed, MakeIncoming \/ extract \/ RejectExtraction \/ DidNotStop \/ SaveFails
  PROVE Placed'
<1>1. Quiet /\ disk["failed"] = Absent /\ UNCHANGED <<latest, fresh, pre, on, asked, serving>>
  BY DEF MakeIncoming, extract, RejectExtraction, Rejects, DidNotStop, SaveFails, To, Placed, Found, Alone
<1>2. CASE RejectExtraction \/ DidNotStop \/ SaveFails
  <2>1. /\ disk' = Removed("incoming") /\ phase' \in Loose \cup {"unstopped"}
        /\ phase' = "unstopped" => "incoming" = "incoming" /\ disk["failed"] = Absent
    BY <1>1, <1>2 DEF RejectExtraction, Rejects, DidNotStop, SaveFails, To, Loose
  <2> QED BY <1>1, <2>1, SweptPlaced
<1>3. CASE MakeIncoming \/ extract
  <2>1. PICK v \in Version \cup {Torn} :
           /\ disk' = [disk EXCEPT !["incoming"] = v]
           /\ phase' = "extracting" \/ (phase' = "extracted" /\ v \in Version)
    <3>1. CASE MakeIncoming BY <3>1 DEF MakeIncoming, To
    <3>2. CASE extract
      <4>1. asked \in Version /\ phase' = "extracted" /\ disk' = [disk EXCEPT !["incoming"] = asked]
        BY <3>2 DEF extract, To, Placed, Types
      <4> QED BY <4>1
    <3> QED BY <1>3, <3>1, <3>2
  <2>2. /\ disk' \in [Folder -> Version \cup {Absent, Torn}]
        /\ disk'["incoming"] = v /\ \A g \in Folder \ {"incoming"} : disk'[g] = disk[g]
    BY <2>1, Fills DEF Placed, Types, Folder
  <2>3. Quiet' /\ disk'["failed"] = Absent BY <1>1, <2>2 DEF Quiet, Folder
  <2>4. Types' BY <1>1, <2>2 DEF Placed, Types
  <2>5. Found' BY <2>1, <2>2, <2>3 DEF Found
  <2> QED BY <2>3, <2>4, <2>5 DEF Placed, Folders
<1> QED BY <1>2, <1>3

LEMMA SwapPlaced ==
  ASSUME Placed, SetDataAside \/ PutIncoming \/ SetRestoredAside \/ PutPreviousBack
  PROVE Placed'
<1>1. UNCHANGED <<latest, fresh, pre, on, asked, serving>> /\ latest \in Version
  BY DEF SetDataAside, PutIncoming, SetRestoredAside, PutPreviousBack, Placed, Types
<1>2. CASE SetDataAside
  <2>1. phase = "saved" /\ phase' = "away" /\ disk' = Renamed("data", "previous") BY <1>2 DEF SetDataAside, To
  <2>2. Quiet /\ disk["failed"] = Absent /\ disk["incoming"] \in Version BY <2>1 DEF Placed, Found
  <2>3. /\ disk' \in [Folder -> Version \cup {Absent, Torn}]
        /\ disk'["previous"] = disk["data"] /\ disk'["data"] = Absent
        /\ disk'["incoming"] = disk["incoming"] /\ disk'["failed"] = disk["failed"]
    BY <2>1, Moves DEF Placed, Types, Folder
  <2>4. Moved' /\ disk'["incoming"] \in Version BY <1>1, <2>2, <2>3, Versions DEF Quiet, Moved
  <2> QED BY <1>1, <2>1, <2>3, <2>4 DEF Placed, Types, Folders, Found
<1>3. CASE PutIncoming
  <2>1. phase = "away" /\ phase' = "placed" /\ disk' = Renamed("incoming", "data") BY <1>3 DEF PutIncoming, To
  <2>2. Moved /\ disk["incoming"] \in Version BY <2>1 DEF Placed, Found
  <2>3. /\ disk' \in [Folder -> Version \cup {Absent, Torn}]
        /\ disk'["data"] = disk["incoming"] /\ disk'["incoming"] = Absent
        /\ disk'["previous"] = disk["previous"] /\ disk'["failed"] = disk["failed"]
    BY <2>1, Moves DEF Placed, Types, Folder
  <2>4. OnTrial' BY <1>1, <2>2, <2>3, Versions DEF Moved, OnTrial, Alone
  <2> QED BY <1>1, <2>1, <2>3, <2>4 DEF Placed, Types, Folders, Found
<1>4. CASE SetRestoredAside
  <2>1. phase = "halted" /\ phase' = "setaside" /\ disk' = Renamed("data", "failed") BY <1>4 DEF SetRestoredAside, To
  <2>2. OnTrial BY <2>1 DEF Placed, Found
  <2>3. /\ disk' \in [Folder -> Version \cup {Absent, Torn}]
        /\ disk'["failed"] = disk["data"] /\ disk'["data"] = Absent
        /\ disk'["previous"] = disk["previous"] /\ disk'["incoming"] = disk["incoming"]
    BY <2>1, Moves DEF Placed, Types, Folder
  <2>4. Moved' /\ disk'["incoming"] = Absent BY <1>1, <2>2, <2>3, Versions DEF Moved, OnTrial, Alone
  <2> QED BY <1>1, <2>1, <2>3, <2>4 DEF Placed, Types, Folders, Found
<1>5. CASE PutPreviousBack
  <2>1. phase = "setaside" /\ phase' = "back" /\ disk' = Renamed("previous", "data") BY <1>5 DEF PutPreviousBack, To
  <2>2. Moved /\ disk["incoming"] = Absent /\ serving' \in BOOLEAN BY <1>1, <2>1 DEF Placed, Found, Types
  <2>3. phase' \in Loose \cup {"back"} /\ UNCHANGED <<latest, fresh, pre, on, asked>> BY <1>1, <2>1
  <2> QED BY <2>1, <2>2, <2>3, PutBackPlaced
<1> QED BY <1>2, <1>3, <1>4, <1>5

LEMMA AcceptsPlaced ==
  ASSUME Placed, DropPrevious \/ RestoreOk \/ RolledBack \/ OperatorKeeps \/ OperatorUndoes
  PROVE Placed'
<1>1. UNCHANGED <<fresh, pre, on, asked>> /\ serving' \in BOOLEAN
  BY DEF DropPrevious, RestoreOk, RolledBack, OperatorKeeps, OperatorUndoes, Placed, Types
<1>2. CASE DropPrevious
  <2>1. /\ phase = "cleared" /\ phase' = "dropping" /\ disk' = [disk EXCEPT !["previous"] = Torn]
        /\ latest' = disk["data"] BY <1>2 DEF DropPrevious, To
  <2>2. OnTrial BY <2>1 DEF Placed, Found
  <2>3. /\ disk' \in [Folder -> Version \cup {Absent, Torn}]
        /\ disk'["previous"] = Torn /\ \A g \in Folder \ {"previous"} : disk'[g] = disk[g]
    BY <2>1, Fills DEF Placed, Types, Folder
  <2>4. Dropped' /\ latest' \in Version BY <2>1, <2>2, <2>3 DEF OnTrial, Dropped, Alone, Folder
  <2> QED BY <1>1, <2>1, <2>3, <2>4 DEF Placed, Types, Folders, Found
<1>3. CASE RestoreOk \/ OperatorKeeps
  <2>1. /\ phase' \in Loose /\ disk' = Removed("previous") /\ latest' = disk["data"] /\ latest' \in Version
        /\ OnTrial \/ Dropped
    <3>1. CASE RestoreOk BY <3>1 DEF RestoreOk, To, Placed, Types, Found, Dropped, Loose
    <3>2. CASE OperatorKeeps BY <3>2, PreviousAlone DEF OperatorKeeps, Placed, Types, OnTrial, Dropped, Loose
    <3> QED BY <1>3, <3>1, <3>2
  <2>2. /\ disk' \in [Folder -> Version \cup {Absent, Torn}]
        /\ disk'["previous"] = Absent /\ \A g \in Folder \ {"previous"} : disk'[g] = disk[g]
    BY <2>1, Fills DEF Placed, Types, Folder, Removed
  <2>3. Quiet' BY <2>1, <2>2 DEF OnTrial, Dropped, Alone, Quiet, Folder
  <2> QED BY <1>1, <2>1, <2>2, <2>3 DEF Placed, Types, Folders, Found, Loose
<1>4. CASE RolledBack
  <2>1. /\ phase = "sweeping" /\ phase' = "ending" /\ disk' = Removed("failed") /\ UNCHANGED <<latest, serving>>
    BY <1>4 DEF RolledBack, To
  <2>2. Quiet BY <2>1 DEF Placed, Found
  <2>3. phase' \in Loose \cup {"unstopped"} /\ phase' # "unstopped" BY <2>1 DEF Loose
  <2>4. UNCHANGED <<latest, fresh, pre, on, asked, serving>> BY <1>1, <2>1
  <2> QED BY <2>1, <2>2, <2>3, <2>4, SweptPlaced
<1>5. CASE OperatorUndoes
  <2>1. /\ phase' \in Loose /\ disk' = Renamed("data", "failed") /\ UNCHANGED latest
        /\ OnTrial
    BY <1>5, PreviousAlone DEF OperatorUndoes, Dropped, Loose
  <2>2. /\ disk' \in [Folder -> Version \cup {Absent, Torn}]
        /\ disk'["failed"] = disk["data"] /\ disk'["data"] = Absent
        /\ disk'["previous"] = disk["previous"] /\ disk'["incoming"] = disk["incoming"]
    BY <2>1, Moves DEF Placed, Types, Folder
  <2>3. Moved' BY <2>1, <2>2, Versions DEF Moved, OnTrial, Alone
  <2> QED BY <1>1, <2>1, <2>2, <2>3 DEF Placed, Types, Folders, Found, Loose
<1> QED BY <1>2, <1>3, <1>4, <1>5

(* The services write, only where their data is neither away nor on trial.  *)
LEMMA WritePlaced == ASSUME Placed, Write PROVE Placed'
<1>1. /\ UNCHANGED <<pre, on, serving, asked, phase>> /\ fresh' \in Version /\ latest' = fresh'
      /\ disk' = [disk EXCEPT !["data"] = fresh']
      /\ disk["data"] # Absent /\ disk["previous"] \in {Absent, Torn}
  BY BoundsAssumption DEF Write, Version, Placed, Types, Present
<1>2. disk["previous"] # latest BY <1>1, Versions DEF Placed, Types
<1>3. /\ disk' \in [Folder -> Version \cup {Absent, Torn}]
      /\ disk'["data"] = latest' /\ \A g \in Folder \ {"data"} : disk'[g] = disk[g]
  BY <1>1, Fills DEF Placed, Types, Folder
<1>4. Types' BY <1>1, <1>3 DEF Placed, Types
<1>5. (Quiet => Quiet') /\ (Dropped => Dropped') /\ (Alone => Alone')
  BY <1>1, <1>3 DEF Quiet, Dropped, Alone, Folder
<1>6. ~Moved /\ ~OnTrial BY <1>1, <1>2 DEF Moved, OnTrial
<1>7. Found' BY <1>1, <1>3, <1>5, <1>6 DEF Placed, Found, Folder
<1> QED BY <1>4, <1>5, <1>6, <1>7 DEF Placed, Folders

LEMMA KeepsSome ==
  ASSUME pre \in Seq(Version), NEW n \in Nat, n <= Len(pre)
  PROVE SubSeq(pre, n + 1, Len(pre)) \in Seq(Version)
BY SubSeqProperties

(* Every other step leaves the folders where they are.                      *)
LEMMA OthersPlaced ==
  ASSUME Placed,
         \/ \E v \in Version : Ask(v)
         \/ consumeRequest \/ RejectEarly \/ JudgeLeftovers \/ NothingToStop \/ markStopped
         \/ stopUnits \/ StoppedAll \/ takeSnapshot \/ StartUnchanged \/ GiveUpUnchanged
         \/ startAndWatch \/ Accepted \/ NotComeBack \/ ClearAfterRollback \/ Throws \/ Ends
         \/ afterRestore \/ \E who \in Takers : Locking(who)
         \/ runBackups \/ Deploy \/ KillRestore \/ KillRun \/ Reboot
         \/ UNCHANGED restoreVars
  PROVE Placed'
<1> DEFINE Fixed == UNCHANGED <<disk, latest, fresh, on>> /\ serving' \in BOOLEAN /\ asked' \in Version
           Follows == <<phase, phase'>> \in
               {<<"extracted", "stopped">>, <<"extracted", "marked">>, <<"marked", "stopping">>,
                <<"undoing", "halted">>, <<"stopping", "stopped">>, <<"stopped", "saved">>,
                <<"unstopped", "restarting">>, <<"placed", "watching">>, <<"back", "restarted">>,
                <<"placed", "cleared">>, <<"watching", "cleared">>, <<"watching", "undoing">>,
                <<"restarted", "sweeping">>}
<1>1. ASSUME Fixed, pre' \in Seq(Version), phase' = phase \/ phase' \in Loose \/ Follows PROVE Placed'
  BY <1>1, StillPlaced
<1>2. Types BY DEF Placed
<1>3. CASE \E v \in Version : Ask(v) BY <1>1, <1>2, <1>3 DEF Ask, Types, swapVars, Loose
<1>4. CASE consumeRequest \/ RejectEarly \/ GiveUpUnchanged \/ Throws \/ Ends
  BY <1>1, <1>2, <1>4 DEF consumeRequest, RejectEarly, Rejects, GiveUpUnchanged, Throws, Ends,
     To, Types, swapVars, Loose
<1>5. CASE JudgeLeftovers
  <2>1. CASE phase' = "ending" BY <1>1, <1>2, <1>5, <2>1 DEF JudgeLeftovers, Types, swapVars, Loose
  <2>2. CASE phase' = "repaired"
    <3>1. Quiet /\ Alone BY <1>5, <2>2, NoLeftover DEF JudgeLeftovers
    <3>2. UNCHANGED <<disk, latest, fresh, pre, on, serving, asked>> BY <1>5 DEF JudgeLeftovers, swapVars
    <3>3. Types' BY <1>2, <3>2 DEF Types
    <3>4. Quiet' /\ Alone' BY <3>1, <3>2 DEF Quiet, Alone
    <3> QED BY <2>2, <3>3, <3>4 DEF Placed, Folders, Found
  <2> QED BY <1>5, <2>1, <2>2 DEF JudgeLeftovers
<1>6. CASE NothingToStop \/ markStopped \/ stopUnits \/ StoppedAll \/ StartUnchanged
  BY <1>1, <1>2, <1>6 DEF NothingToStop, markStopped, stopUnits, StoppedAll, StartUnchanged, To, Types, swapVars
<1>7. CASE takeSnapshot
  <2>1. phase = "stopped" /\ phase' = "saved" /\ Fixed /\ pre' = Append(pre, disk["data"])
    BY <1>2, <1>7 DEF takeSnapshot, To, Types
  <2>2. disk["data"] \in Version BY <2>1 DEF Placed, Types, Found, Quiet
  <2>3. pre' \in Seq(Version) BY <1>2, <2>1, <2>2 DEF Types
  <2> QED BY <1>1, <2>1, <2>3
<1>8. CASE startAndWatch \/ Accepted \/ NotComeBack \/ ClearAfterRollback
  BY <1>1, <1>2, <1>8 DEF startAndWatch, Startable, Present, Accepted, NotComeBack, ClearAfterRollback,
     To, Types, swapVars
<1>9. CASE afterRestore
  BY <1>1, <1>2, <1>9 DEF afterRestore, NothingToClean, LockHeld, Mended, CleanupStarts, CleanedUp,
     Startable, Present, To, Types, swapVars, Loose
<1>10. CASE \E who \in Takers : Locking(who)
  BY <1>1, <1>2, <1>10 DEF Locking, takeLock, Enters, JudgeDead, RenameAside, Takers, Types, swapVars, Loose
<1>11. CASE RunStarts \/ RunGivesUp \/ snapshotStep
  BY <1>1, <1>2, <1>11 DEF RunStarts, RunGivesUp, snapshotStep, Types, swapVars
<1>12. CASE retain
  <2>1. pre' \in Seq(Version)
    <3>1. CASE Len(pre) <= PreKeep BY <1>2, <1>12, <3>1, BoundsAssumption DEF retain, Types
    <3>2. CASE Len(pre) > PreKeep
      <4>1. Len(pre) - PreKeep \in Nat /\ Len(pre) - PreKeep <= Len(pre)
        BY <1>2, <3>2, BoundsAssumption, LenProperties DEF Types
      <4> QED BY <1>2, <1>12, <3>2, <4>1, KeepsSome DEF retain, Types
    <3> QED BY <1>2, <3>1, <3>2, BoundsAssumption, LenProperties DEF Types
  <2> QED BY <1>1, <1>2, <1>12, <2>1 DEF retain, Types
<1>13. CASE Deploy \/ KillRestore \/ KillRun \/ Reboot
  BY <1>1, <1>2, <1>13 DEF Deploy, KillRestore, KillRun, Reboot, Startable, Present, Types, swapVars, Loose
<1>14. CASE UNCHANGED restoreVars BY <1>1, <1>2, <1>14 DEF restoreVars, Types
<1> QED
  BY <1>3, <1>4, <1>5, <1>6, <1>7, <1>8, <1>9, <1>10, <1>11, <1>12, <1>13, <1>14 DEF runBackups

LEMMA NextPlaced == ASSUME Placed, [RestoreNext]_restoreVars PROVE Placed'
BY RepairPlaced, ExtractsPlaced, SwapPlaced, AcceptsPlaced, WritePlaced, OthersPlaced
   DEF RestoreNext, restore, Environment

LEMMA AlwaysPlaced == RestoreSpec => []Placed
<1>1. RestoreInit => Placed BY InitPlaced
<1>2. Placed /\ [RestoreNext]_restoreVars => Placed' BY NextPlaced
<1> QED BY <1>1, <1>2, PTL DEF RestoreSpec

(* No leftover beside the data, and the data is the project's latest:       *)
(* SettledIsLatest, whatever was killed and in whatever order it restarted. *)
THEOREM Settled == RestoreSpec => []SettledIsLatest
<1>1. Placed => SettledIsLatest
  <2> SUFFICES ASSUME Placed, LeftBehind = {} PROVE disk["data"] = latest BY DEF SettledIsLatest
  <2>1. disk["previous"] = Absent /\ latest # Absent
    BY LeftoversAre, Versions DEF Placed, Types
  <2> QED BY <2>1, Versions DEF Placed, Folders, Quiet, Moved, OnTrial, Dropped
<1> QED BY <1>1, AlwaysPlaced, PTL

-----------------------------------------------------------------------------
(* The rest of the types. A restore saves the data once: a restore that has *)
(* not saved yet still has its snapshot to take, and the snapshots taken    *)
(* before are of earlier restores.                                          *)
Unsaved == {"begun", "waiting", "locked", "repaired", "extracting", "extracted",
            "marked", "stopping", "stopped"}
Counted == Len(pre) + (IF phase \in Unsaved THEN 1 ELSE 0) <= spent.restores

Units ==
    /\ sched \in SUBSET Version /\ phase \in Phase /\ mark \in BOOLEAN
    /\ outcome \in {"none", "running", "ok", "failure", "rejects", "cut"}
    /\ lock \in Takers \cup {"free", "dead"} /\ judged \in SUBSET Takers
    /\ run \in {"idle", "waiting", "copying", "retaining"}

Spending == spent \in [restores : 0..MaxRestores, runs : 0..MaxRuns, kills : 0..MaxStops,
                       deploys : 0..MaxDeploys]

Typed == Placed /\ Units /\ Spending /\ Counted

LEMMA UnitsKept == ASSUME Placed, Units, [RestoreNext]_restoreVars PROVE Units'
<1>1. CASE \E v \in Version : Ask(v)
  BY <1>1 DEF Ask, Units, Phase, swapVars, lockVars
<1>2. CASE \/ consumeRequest \/ RejectEarly \/ JudgeLeftovers \/ MakeIncoming
           \/ RejectExtraction \/ extract \/ NothingToStop \/ markStopped \/ stopUnits
           \/ StoppedAll \/ DidNotStop \/ takeSnapshot \/ SaveFails \/ StartUnchanged
  BY <1>2 DEF consumeRequest, RejectEarly, Rejects, JudgeLeftovers, MakeIncoming, RejectExtraction,
     extract, NothingToStop, markStopped, stopUnits, StoppedAll, DidNotStop, takeSnapshot, SaveFails,
     StartUnchanged, To, Units, Phase, swapVars, lockVars
<1>3. CASE \/ GiveUpUnchanged \/ SetDataAside \/ PutIncoming \/ startAndWatch \/ Accepted
           \/ DropPrevious \/ RestoreOk \/ NotComeBack \/ SetRestoredAside \/ PutPreviousBack
           \/ ClearAfterRollback \/ RolledBack \/ Throws
  BY <1>3 DEF GiveUpUnchanged, SetDataAside, PutIncoming, startAndWatch, Accepted, DropPrevious,
     RestoreOk, NotComeBack, SetRestoredAside, PutPreviousBack, ClearAfterRollback, RolledBack, Throws,
     To, Units, Phase, swapVars, lockVars
<1>4. CASE Ends \/ afterRestore \/ repair
  <2>1. CASE Ends \/ Mended BY <2>1 DEF Ends, Mended, Released, To, Units, Phase, swapVars
  <2>2. CASE NothingToClean \/ LockHeld \/ CleanupStarts \/ CleanedUp
    BY <2>2 DEF NothingToClean, LockHeld, CleanupStarts, CleanedUp, To, Units, Phase, swapVars, lockVars
  <2>3. CASE repair BY <2>3 DEF repair, Units, lockVars
  <2> QED BY <1>4, <2>1, <2>2, <2>3 DEF afterRestore
<1>5. CASE \E who \in Takers : Locking(who)
  BY <1>5 DEF Locking, takeLock, Enters, JudgeDead, RenameAside, Units, Phase, swapVars, lockVars
<1>6. CASE RunStarts \/ RunGivesUp
  BY <1>6 DEF RunStarts, RunGivesUp, Units, swapVars, lockVars
<1>7. CASE snapshotStep
  <2>1. disk["data"] \in Version \cup {Absent}
    BY DEF Placed, Types, Folders, Quiet, Moved, OnTrial, Dropped
  <2> QED BY <1>7, <2>1 DEF snapshotStep, Units, lockVars
<1>8. CASE retain
  <2>1. sched' \in SUBSET sched BY <1>8 DEF retain
  <2> QED BY <1>8, <2>1 DEF retain, Released, Units
<1>9. CASE Environment
  BY ZenonT(40), <1>9 DEF Environment, Write, Deploy, OperatorKeeps, OperatorUndoes, OperatorPutsBack, KillRestore,
     KillRun, Reboot, Units, Phase, swapVars, lockVars
<1>10. CASE UNCHANGED restoreVars BY <1>10 DEF restoreVars, Units, lockVars
<1> QED BY <1>1, <1>2, <1>3, <1>4, <1>5, <1>6, <1>7, <1>8, <1>9, <1>10 DEF RestoreNext, restore, runBackups

(* What a step spends, and what it does to the before-restore snapshots.    *)
LEMMA SpendingKept ==
  ASSUME Spending, [RestoreNext]_restoreVars
  PROVE /\ Spending'
        /\ \/ spent'.restores = spent.restores /\ ~(phase = "idle" /\ phase' = "begun")
           \/ /\ spent'.restores = spent.restores + 1 /\ pre' = pre
              /\ phase = "idle" /\ phase' = "begun"
<1> USE BoundsAssumption
<1>1. CASE \E v \in Version : Ask(v) BY <1>1 DEF Ask, Spending, swapVars
<1>2. CASE restore
  <2>1. spent' = spent /\ ~(phase = "idle" /\ phase' = "begun")
    BY <1>2 DEF restore, consumeRequest, RejectEarly, Rejects, JudgeLeftovers, MakeIncoming,
       RejectExtraction, extract, NothingToStop, markStopped, stopUnits, StoppedAll, DidNotStop,
       takeSnapshot, SaveFails, StartUnchanged, GiveUpUnchanged, SetDataAside, PutIncoming,
       startAndWatch, Accepted, DropPrevious, RestoreOk, NotComeBack, SetRestoredAside,
       PutPreviousBack, ClearAfterRollback, RolledBack, Throws, Ends, To
  <2> QED BY <2>1 DEF Spending
<1>3. CASE repair \/ afterRestore \/ (\E who \in Takers : Locking(who)) \/ UNCHANGED restoreVars
  <2>1. spent' = spent /\ ~(phase = "idle" /\ phase' = "begun")
    BY <1>3 DEF repair, afterRestore, NothingToClean, LockHeld, Mended, CleanupStarts, CleanedUp,
       Locking, takeLock, Enters, JudgeDead, RenameAside, Takers, To, restoreVars
  <2> QED BY <2>1 DEF Spending
<1>4. CASE runBackups
  BY <1>4 DEF runBackups, RunStarts, RunGivesUp, snapshotStep, retain, Spending
<1>5. CASE Write \/ OperatorKeeps \/ OperatorUndoes \/ OperatorPutsBack
  BY <1>5 DEF Write, OperatorKeeps, OperatorUndoes, OperatorPutsBack, Spending
<1>6. CASE Deploy \/ KillRestore \/ KillRun \/ Reboot
  BY <1>6 DEF Deploy, KillRestore, KillRun, Reboot, Spending
<1> QED BY <1>1, <1>2, <1>3, <1>4, <1>5, <1>6 DEF RestoreNext, Environment

LEMMA SnapshotsGrow ==
  ASSUME Placed, [RestoreNext]_restoreVars
  PROVE \/ /\ Len(pre') <= Len(pre)
           /\ phase' \in Unsaved => phase \in Unsaved \/ (phase = "idle" /\ phase' = "begun")
        \/ Len(pre') = Len(pre) + 1 /\ phase = "stopped" /\ phase' = "saved"
<1>0. pre \in Seq(Version) /\ Len(pre) \in Nat
  <2>1. pre \in Seq(Version) BY DEF Placed, Types
  <2> QED BY <2>1, LenProperties
<1>1. CASE takeSnapshot
  <2>1. disk["data"] \in Version BY <1>1 DEF takeSnapshot, To, Placed, Types, Found, Quiet
  <2> QED BY <1>0, <1>1, <2>1, AppendProperties DEF takeSnapshot, To
<1>2. CASE retain
  <2>1. phase' \in Unsaved => phase \in Unsaved BY <1>2 DEF retain
  <2>2. CASE Len(pre) <= PreKeep
    BY <1>0, <1>2, <2>1, <2>2, BoundsAssumption DEF retain
  <2>3. CASE Len(pre) > PreKeep
    <3>1. pre' = SubSeq(pre, Len(pre) - PreKeep + 1, Len(pre)) BY <1>2, <2>3 DEF retain
    <3>2. Len(pre) - PreKeep \in Nat /\ Len(pre) \in Nat
      BY <1>0, <2>3, BoundsAssumption
    <3>3. Len(pre') = Len(pre) - (Len(pre) - PreKeep + 1) + 1
      BY <1>0, <3>1, <3>2, BoundsAssumption, SubSeqProperties
    <3>4. Len(pre') <= Len(pre) BY <1>0, <2>3, <3>3, BoundsAssumption
    <3> QED BY <2>1, <3>4
  <2> QED BY <1>0, <2>2, <2>3, BoundsAssumption
<1>3. CASE restore /\ ~takeSnapshot
  <2>1. pre' = pre
    BY <1>3 DEF restore, consumeRequest, RejectEarly, Rejects, JudgeLeftovers, MakeIncoming,
       RejectExtraction, extract, NothingToStop, markStopped, stopUnits, StoppedAll, DidNotStop,
       SaveFails, StartUnchanged, GiveUpUnchanged, SetDataAside, PutIncoming, startAndWatch, Accepted,
       DropPrevious, RestoreOk, NotComeBack, SetRestoredAside, PutPreviousBack, ClearAfterRollback,
       RolledBack, Throws, Ends, swapVars
  <2>2. phase' \in Unsaved => phase \in Unsaved
    BY <1>3 DEF restore, consumeRequest, RejectEarly, Rejects, JudgeLeftovers, MakeIncoming,
       RejectExtraction, extract, NothingToStop, markStopped, stopUnits, StoppedAll, DidNotStop,
       SaveFails, StartUnchanged, GiveUpUnchanged, SetDataAside, PutIncoming, startAndWatch, Accepted,
       DropPrevious, RestoreOk, NotComeBack, SetRestoredAside, PutPreviousBack, ClearAfterRollback,
       RolledBack, Throws, Ends, To, Unsaved
  <2> QED BY <1>0, <2>1, <2>2
<1>4. CASE \/ \E v \in Version : Ask(v)
           \/ \E who \in Takers : Locking(who)
           \/ repair \/ afterRestore
  BY <1>0, <1>4 DEF Ask, Locking, takeLock, Wants, Enters, JudgeDead, RenameAside, Takers,
     repair, afterRestore, NothingToClean, LockHeld, Mended, CleanupStarts, CleanedUp, To, Unsaved, swapVars
<1>5. CASE RunStarts \/ RunGivesUp \/ snapshotStep \/ Environment \/ UNCHANGED restoreVars
  BY <1>0, <1>5 DEF RunStarts, RunGivesUp, snapshotStep, Environment, Write, Deploy,
     OperatorKeeps, OperatorUndoes, OperatorPutsBack, KillRestore, KillRun, Reboot, Unsaved, swapVars, restoreVars
<1> QED BY <1>1, <1>2, <1>3, <1>4, <1>5 DEF RestoreNext, runBackups

LEMMA CountedKept == ASSUME Typed, [RestoreNext]_restoreVars PROVE Counted'
<1>1. Placed' BY NextPlaced DEF Typed
<1>2. Len(pre) \in Nat /\ Len(pre') \in Nat BY <1>1, LenProperties DEF Typed, Placed, Types
<1>3. spent.restores \in Nat BY BoundsAssumption DEF Typed, Spending
<1>4. CASE /\ spent'.restores = spent.restores + 1 /\ pre' = pre
           /\ phase = "idle" /\ phase' = "begun"
  BY <1>2, <1>3, <1>4 DEF Typed, Counted, Unsaved
<1>5. CASE spent'.restores = spent.restores /\ ~(phase = "idle" /\ phase' = "begun")
  BY <1>2, <1>3, <1>5, SnapshotsGrow DEF Typed, Counted, Unsaved
<1> QED BY <1>4, <1>5, SpendingKept DEF Typed

LEMMA InitTyped == ASSUME RestoreInit PROVE Typed
<1>1. Units BY Versions DEF RestoreInit, Units, Phase, Takers
<1>2. Spending BY BoundsAssumption DEF RestoreInit, Spending
<1>3. Len(pre) = 0 BY EmptySeq DEF RestoreInit
<1>4. Counted BY <1>3 DEF RestoreInit, Counted, Unsaved
<1> QED BY <1>1, <1>2, <1>4, InitPlaced DEF Typed

(* Type correctness: TypeOK, with never more before-restore snapshots than  *)
(* restores asked for, whatever is killed between a save and its swap.      *)
THEOREM TypeCorrect == RestoreSpec => []RestoreTypeOK
<1>1. RestoreInit => Typed BY InitTyped
<1>2. Typed /\ [RestoreNext]_restoreVars => Typed'
  BY NextPlaced, UnitsKept, SpendingKept, CountedKept DEF Typed
<1>3. Typed => RestoreTypeOK
  <2> SUFFICES ASSUME Typed PROVE RestoreTypeOK OBVIOUS
  <2>1. Len(pre) \in Nat BY LenProperties DEF Typed, Placed, Types
  <2>2. spent.restores \in 0..MaxRestores BY DEF Typed, Spending
  <2>3. Len(pre) <= MaxRestores BY <2>1, <2>2, BoundsAssumption DEF Typed, Counted
  <2> QED BY <2>3 DEF RestoreTypeOK, Typed, Placed, Types, Units, Spending
<1> QED BY <1>1, <1>2, <1>3, PTL DEF RestoreSpec

-----------------------------------------------------------------------------
(* The data replaced is saved. The services are down from the last look at  *)
(* them to the swap, unless a deployment starts them: no lock keeps one     *)
(* away, so the theorems below say that none lands on those two steps.      *)
NoneStarts == Deploying \cap {"stopped", "saved"} = {}

LastSaved == Len(pre) > 0 /\ pre[Len(pre)] = latest
SetAside == disk["previous"] \in Version

Saved ==
    /\ serving => on
    /\ phase \in {"stopped", "saved"} => ~serving
    /\ SetAside \/ phase = "saved" => LastSaved

LEMMA InitSaved == ASSUME RestoreInit PROVE Saved
BY Versions DEF RestoreInit, Saved, SetAside, Folder

(* The runs keep the last before-restore snapshot, as they keep one at all. *)
LEMMA RetainKeepsLast ==
  ASSUME Placed, LastSaved, retain PROVE LastSaved'
<1>1. pre \in Seq(Version) /\ Len(pre) \in Nat /\ latest' = latest BY LenProperties DEF Placed, Types, retain
<1>2. CASE Len(pre) <= PreKeep BY <1>1, <1>2, BoundsAssumption DEF retain, LastSaved
<1>3. CASE Len(pre) > PreKeep
  <2> DEFINE n == Len(pre) - PreKeep + 1
  <2>1. PreKeep \in Nat /\ PreKeep > 0 /\ n \in 1..Len(pre) + 1 /\ Len(pre) \in n - 1..Len(pre)
        /\ Len(pre) - n + 1 = PreKeep
    BY <1>1, <1>3, BoundsAssumption
  <2>2. pre' = SubSeq(pre, n, Len(pre)) BY <1>3 DEF retain
  <2> HIDE DEF n
  <2>3. Len(pre') = PreKeep /\ pre'[PreKeep] = pre[n + PreKeep - 1] BY <1>1, <2>1, <2>2, SubSeqProperties
  <2>4. n + PreKeep - 1 = Len(pre) BY <1>1, <2>1 DEF n
  <2> QED BY <1>1, <2>1, <2>3, <2>4 DEF LastSaved
<1> QED BY <1>1, <1>2, <1>3, BoundsAssumption

LEMMA SnapshotIsLast == ASSUME Placed, takeSnapshot PROVE LastSaved'
<1>1. phase = "stopped" /\ pre' = Append(pre, disk["data"]) /\ latest' = latest BY DEF takeSnapshot, To, swapVars
<1>2. disk["data"] = latest /\ latest \in Version /\ pre \in Seq(Version) BY <1>1 DEF Placed, Types, Found, Quiet
<1>3. Len(pre') = Len(pre) + 1 /\ pre'[Len(pre) + 1] = latest BY <1>1, <1>2, AppendProperties
<1> QED BY <1>1, <1>2, <1>3, LenProperties DEF LastSaved

(* The steps that leave alone the data, the previous data and the snapshots *)
(* before a restore.                                                        *)
Elsewhere ==
    \/ \E v \in Version : Ask(v)
    \/ consumeRequest \/ RejectEarly \/ JudgeLeftovers \/ MakeIncoming \/ RejectExtraction \/ extract
    \/ NothingToStop \/ markStopped \/ stopUnits \/ StoppedAll \/ DidNotStop \/ SaveFails
    \/ StartUnchanged \/ GiveUpUnchanged \/ startAndWatch \/ Accepted \/ NotComeBack
    \/ ClearAfterRollback \/ RolledBack \/ Throws \/ Ends
    \/ repair /\ \E f \in Folder : Sweeps(f) /\ disk' = Removed(f)
    \/ afterRestore \/ \E who \in Takers : Locking(who)
    \/ RunStarts \/ RunGivesUp \/ snapshotStep
    \/ Deploy \/ KillRestore \/ KillRun \/ Reboot
    \/ UNCHANGED restoreVars

LEMMA ElsewhereKeeps ==
  ASSUME Placed, Elsewhere
  PROVE /\ UNCHANGED <<latest, pre>> /\ disk'["data"] = disk["data"] /\ disk'["previous"] = disk["previous"]
        /\ phase' = phase \/ phase' # "saved"
<1> USE DEF To, swapVars, restoreVars
<1>1. disk \in [Folder -> Version \cup {Absent, Torn}] BY DEF Placed, Types
<1>2. CASE MakeIncoming \/ RejectExtraction \/ extract \/ DidNotStop \/ SaveFails \/ RolledBack
  <2>1. PICK f \in {"incoming", "failed"}, v \in Version \cup {Absent, Torn} : disk' = [disk EXCEPT ![f] = v]
    BY <1>2 DEF MakeIncoming, RejectExtraction, extract, DidNotStop, SaveFails, RolledBack, Removed, Placed, Types
  <2> QED BY <1>1, <1>2, <2>1 DEF MakeIncoming, RejectExtraction, Rejects, extract, DidNotStop, SaveFails,
             RolledBack, Folder
<1>3. CASE repair /\ \E f \in Folder : Sweeps(f) /\ disk' = Removed(f)
  BY <1>1, <1>3 DEF repair, Sweeps, Removed, Folder
<1>4. CASE \/ \E v \in Version : Ask(v)
           \/ consumeRequest \/ RejectEarly \/ JudgeLeftovers \/ NothingToStop \/ markStopped
           \/ stopUnits \/ StoppedAll \/ StartUnchanged \/ GiveUpUnchanged \/ startAndWatch
  BY <1>4 DEF Ask, consumeRequest, RejectEarly, Rejects, JudgeLeftovers, NothingToStop, markStopped,
     stopUnits, StoppedAll, StartUnchanged, GiveUpUnchanged, startAndWatch
<1>5. CASE \/ Accepted \/ NotComeBack \/ ClearAfterRollback \/ Throws \/ Ends
           \/ RunStarts \/ RunGivesUp \/ snapshotStep
           \/ Deploy \/ KillRestore \/ KillRun \/ Reboot \/ UNCHANGED restoreVars
  BY <1>5 DEF Accepted, NotComeBack, ClearAfterRollback, Throws, Ends, RunStarts, RunGivesUp, snapshotStep,
     Deploy, KillRestore, KillRun, Reboot
<1>6. CASE afterRestore BY <1>6 DEF afterRestore, NothingToClean, LockHeld, Mended, CleanupStarts, CleanedUp
<1>7. CASE \E who \in Takers : Locking(who)
  BY <1>7 DEF Locking, takeLock, Enters, JudgeDead, RenameAside
<1> QED BY <1>2, <1>3, <1>4, <1>5, <1>6, <1>7 DEF Elsewhere

PutsBackStep ==
    \/ PutPreviousBack
    \/ repair /\ PutsBack /\ disk' = Renamed("previous", "data")
    \/ OperatorPutsBack

LEMMA PutBackMoves ==
  ASSUME Placed, PutsBackStep
  PROVE /\ Moved /\ UNCHANGED <<latest, pre>> /\ disk'["data"] = latest /\ disk'["previous"] = Absent
        /\ phase' # "saved"
<1>1. Moved BY ToPutBack DEF PutsBackStep, PutPreviousBack, OperatorPutsBack, To, Placed, Found
<1>2. /\ UNCHANGED <<latest, pre>> /\ disk' = Renamed("previous", "data") /\ phase' # "saved"
  BY DEF PutsBackStep, PutPreviousBack, repair, OperatorPutsBack, To
<1>3. disk'["data"] = disk["previous"] /\ disk'["previous"] = Absent BY <1>2, Moves DEF Placed, Types, Folder
<1> QED BY <1>1, <1>2, <1>3 DEF Moved

(* Every step, by what it does to the data and to what is set aside.        *)
LEMMA StepKinds ==
  ASSUME [RestoreNext]_restoreVars
  PROVE \/ Elsewhere \/ PutsBackStep \/ SetDataAside \/ takeSnapshot \/ retain \/ Write
        \/ PutIncoming \/ SetRestoredAside \/ OperatorUndoes
        \/ DropPrevious \/ RestoreOk \/ OperatorKeeps
<1>1. CASE repair BY <1>1 DEF repair, RepairStep, Elsewhere, PutsBackStep
<1>2. CASE restore BY <1>2 DEF restore, Elsewhere, PutsBackStep
<1>3. CASE runBackups \/ Environment BY <1>3 DEF runBackups, Environment, Elsewhere, PutsBackStep
<1>4. CASE \/ \E v \in Version : Ask(v)
           \/ afterRestore \/ \E who \in Takers : Locking(who)
           \/ UNCHANGED restoreVars
  BY <1>4 DEF Elsewhere
<1> QED BY <1>1, <1>2, <1>3, <1>4 DEF RestoreNext

(* The trials: the data replaced stays where it is.                         *)
LEMMA TrialMoves ==
  ASSUME Placed, PutIncoming \/ SetRestoredAside \/ OperatorUndoes
  PROVE /\ UNCHANGED <<latest, pre>> /\ disk["previous"] = latest /\ disk'["previous"] = latest
        /\ phase' # "saved"
        /\ PutIncoming => disk["data"] = Absent /\ disk'["data"] \in Version
        /\ ~PutIncoming => disk["data"] \in Version /\ disk'["data"] = Absent
<1>1. disk \in [Folder -> Version \cup {Absent, Torn}] BY DEF Placed, Types
<1>2. CASE PutIncoming
  <2>1. Moved /\ disk["incoming"] \in Version /\ disk' = Renamed("incoming", "data") /\ phase' = "placed"
        /\ UNCHANGED <<latest, pre>>
    BY <1>2 DEF PutIncoming, To, Placed, Found
  <2>2. disk'["data"] = disk["incoming"] /\ disk'["previous"] = disk["previous"]
    BY <1>1, <2>1, Moves DEF Folder
  <2> QED BY <1>2, <2>1, <2>2 DEF Moved
<1>3. CASE SetRestoredAside \/ OperatorUndoes
  <2>1. OnTrial /\ disk' = Renamed("data", "failed") /\ phase' # "saved" /\ UNCHANGED <<latest, pre>>
    BY <1>3, PreviousAlone DEF SetRestoredAside, OperatorUndoes, To, Placed, Found, Dropped
  <2>2. disk'["data"] = Absent /\ disk'["previous"] = disk["previous"]
    BY <1>1, <2>1, Moves DEF Folder
  <2>3. ~PutIncoming
    BY <1>3, <2>1, <2>2, Versions DEF PutIncoming, To, OnTrial, Placed, Found, Moved
  <2> QED BY <1>3, <2>1, <2>2, <2>3 DEF OnTrial
<1> QED BY <1>2, <1>3

(* The acceptances: the previous data goes, and the data in place is the    *)
(* project's; nothing is accepted twice.                                    *)
Accepts == DropPrevious \/ RestoreOk \/ OperatorKeeps

LEMMA AcceptMoves ==
  ASSUME Placed, Accepts
  PROVE /\ UNCHANGED pre /\ latest' = disk["data"] /\ disk'["data"] = disk["data"]
        /\ disk["data"] \in Version
        /\ disk'["previous"] \in {Absent, Torn} /\ phase' # "saved"
        /\ disk["previous"] = latest \/ Dropped
<1>1. disk \in [Folder -> Version \cup {Absent, Torn}] /\ latest \in Version BY DEF Placed, Types
<1>2. CASE DropPrevious
  <2>1. OnTrial /\ disk' = [disk EXCEPT !["previous"] = Torn] /\ phase' # "saved"
        /\ latest' = disk["data"] /\ UNCHANGED pre
    BY <1>2 DEF DropPrevious, To, Placed, Found
  <2> QED BY <1>1, <2>1 DEF OnTrial, Folder
<1>3. CASE RestoreOk
  <2>1. Dropped /\ disk' = [disk EXCEPT !["previous"] = Absent] /\ phase' # "saved" /\ UNCHANGED <<latest, pre>>
    BY <1>3 DEF RestoreOk, Removed, To, Placed, Found
  <2> QED BY <1>1, <2>1 DEF Dropped, Folder
<1>4. CASE OperatorKeeps
  <2>1. (OnTrial \/ Dropped) /\ disk' = [disk EXCEPT !["previous"] = Absent] /\ phase' # "saved"
        /\ latest' = disk["data"] /\ UNCHANGED pre
    BY <1>4, PreviousAlone DEF OperatorKeeps, Removed
  <2> QED BY <1>1, <2>1 DEF OnTrial, Dropped, Folder
<1> QED BY <1>2, <1>3, <1>4 DEF Accepts

LEMMA SetAsideMoves ==
  ASSUME Placed, SetDataAside
  PROVE /\ phase = "saved" /\ phase' = "away" /\ Quiet /\ UNCHANGED <<latest, pre>>
        /\ disk'["previous"] = latest /\ disk'["data"] = Absent
<1>1. phase = "saved" /\ phase' = "away" /\ disk' = Renamed("data", "previous") /\ UNCHANGED <<latest, pre>>
  BY DEF SetDataAside, To
<1>2. Quiet BY <1>1 DEF Placed, Found
<1>3. disk'["previous"] = disk["data"] /\ disk'["data"] = Absent BY <1>1, Moves DEF Placed, Types, Folder
<1> QED BY <1>1, <1>2, <1>3 DEF Quiet

LEMMA WriteMoves ==
  ASSUME Placed, Write
  PROVE /\ serving /\ disk["data"] # Absent /\ disk["previous"] \in {Absent, Torn}
        /\ disk'["data"] = latest' /\ latest' \in Version /\ disk'["previous"] = disk["previous"]
        /\ UNCHANGED <<pre, phase, serving, on>>
<1>1. disk \in [Folder -> Version \cup {Absent, Torn}] BY DEF Placed, Types
<1>2. latest' \in Version BY WritePlaced DEF Placed, Types
<1> QED BY <1>1, <1>2 DEF Write, Present, Folder

(* Only a project turned on has services up, and none is between the last   *)
(* look at them and the swap.                                               *)
LEMMA UpKept ==
  ASSUME Placed, NoneStarts, Saved, [RestoreNext]_restoreVars
  PROVE (serving' => on') /\ (phase' \in {"stopped", "saved"} => ~serving')
<1> DEFINE Goal == (serving' => on') /\ (phase' \in {"stopped", "saved"} => ~serving')
<1> USE DEF To, swapVars
<1>1. (serving => on) /\ (phase \in {"stopped", "saved"} => ~serving) /\ serving \in BOOLEAN /\ on \in BOOLEAN
  BY DEF Saved, Placed, Types
<1>2. CASE \/ \E v \in Version : Ask(v)
           \/ consumeRequest \/ RejectEarly \/ JudgeLeftovers \/ MakeIncoming \/ RejectExtraction \/ extract
  BY <1>1, <1>2 DEF Ask, consumeRequest, RejectEarly, Rejects, JudgeLeftovers, MakeIncoming, RejectExtraction,
     extract
<1>3. CASE markStopped \/ StoppedAll \/ DidNotStop \/ SaveFails
  BY <1>1, <1>3 DEF markStopped, StoppedAll, DidNotStop, SaveFails
<1>4. CASE NothingToStop
  <2>1. ~on /\ on' = on /\ serving' = serving BY <1>4 DEF NothingToStop
  <2> QED BY <1>1, <2>1
<1>5. CASE stopUnits
  <2>1. on' = on /\ serving' \in {FALSE, serving} /\ phase' \notin {"stopped", "saved"} BY <1>5 DEF stopUnits
  <2>2. serving' = FALSE \/ serving' = serving BY <2>1
  <2>3. serving' => serving BY <2>2, Zenon
  <2> QED BY <1>1, <2>1, <2>3
<1>6. CASE \/ StartUnchanged \/ GiveUpUnchanged \/ startAndWatch \/ Accepted \/ NotComeBack
           \/ ClearAfterRollback \/ RolledBack \/ Throws \/ Ends
           \/ RunStarts \/ RunGivesUp \/ snapshotStep \/ retain
  BY <1>1, <1>6 DEF StartUnchanged, GiveUpUnchanged, startAndWatch, Startable, Accepted, NotComeBack,
     ClearAfterRollback, RolledBack, Throws, Ends, RunStarts, RunGivesUp, snapshotStep, retain
<1>7. CASE takeSnapshot \/ SetDataAside \/ PutIncoming \/ DropPrevious \/ RestoreOk \/ SetRestoredAside
  BY <1>1, <1>7 DEF takeSnapshot, SetDataAside, PutIncoming, DropPrevious, RestoreOk, SetRestoredAside
<1>8. CASE PutPreviousBack \/ repair \/ Write \/ OperatorKeeps \/ OperatorUndoes \/ OperatorPutsBack
  BY <1>1, <1>8 DEF PutPreviousBack, repair, Write, OperatorKeeps, OperatorUndoes, OperatorPutsBack
<1>9. CASE afterRestore
  BY <1>1, <1>9 DEF afterRestore, NothingToClean, LockHeld, Mended, CleanupStarts, CleanedUp, Startable
<1>10. CASE \E who \in Takers : Locking(who)
  BY <1>1, <1>10 DEF Locking, takeLock, Enters, JudgeDead, RenameAside
<1>11. CASE Deploy \/ KillRestore \/ KillRun \/ Reboot \/ UNCHANGED restoreVars
  BY <1>1, <1>11 DEF NoneStarts, Deploy, KillRestore, KillRun, Reboot, Startable, restoreVars
<1> QED
  <2>1. CASE restore BY <1>2, <1>6, <1>7, <1>8, <1>3, <1>4, <1>5, <2>1 DEF restore
  <2>2. CASE runBackups \/ Environment BY <1>6, <1>11, <1>8, <2>2 DEF runBackups, Environment
  <2> QED BY <1>2, <1>9, <1>10, <1>11, <1>8, <2>1, <2>2 DEF RestoreNext

LEMMA NextSaved == ASSUME Placed, NoneStarts, Saved, [RestoreNext]_restoreVars PROVE Saved'
<1>1. (serving' => on') /\ (phase' \in {"stopped", "saved"} => ~serving') BY UpKept
<1>2. (SetAside \/ phase = "saved" => LastSaved) /\ (phase = "saved" => ~serving) BY DEF Saved
<1>3. (SetAside \/ phase = "saved" => LastSaved)'
  <2>1. CASE Elsewhere BY <1>2, <2>1, ElsewhereKeeps DEF SetAside, LastSaved
  <2>2. CASE PutsBackStep BY <2>2, PutBackMoves, Versions DEF SetAside
  <2>3. CASE SetDataAside BY <1>2, <2>3, SetAsideMoves DEF LastSaved
  <2>4. CASE takeSnapshot BY <2>4, SnapshotIsLast
  <2>5. CASE retain
    <3>1. UNCHANGED <<disk, phase>> BY <2>5 DEF retain
    <3> QED BY <1>2, <2>5, <3>1, RetainKeepsLast DEF SetAside
  <2>6. CASE Write BY <1>2, <2>6, WriteMoves, Versions DEF SetAside
  <2>7. CASE PutIncoming \/ SetRestoredAside \/ OperatorUndoes
    <3>1. SetAside BY <2>7, TrialMoves DEF SetAside, Placed, Types
    <3> QED BY <1>2, <2>7, <3>1, TrialMoves DEF LastSaved
  <2>8. CASE Accepts BY <2>8, AcceptMoves, Versions DEF SetAside
  <2> QED BY <2>1, <2>2, <2>3, <2>4, <2>5, <2>6, <2>7, <2>8, StepKinds DEF Accepts
<1> QED BY <1>1, <1>3 DEF Saved

LEMMA AlwaysSaved == ASSUME NoneStarts PROVE RestoreSpec => [](Placed /\ Saved)
<1>1. RestoreInit => Placed /\ Saved BY InitPlaced, InitSaved
<1>2. Placed /\ Saved /\ [RestoreNext]_restoreVars => (Placed /\ Saved)' BY NextPlaced, NextSaved
<1> QED BY <1>1, <1>2, PTL DEF RestoreSpec

-----------------------------------------------------------------------------
(* Each step is one of DataSwap, or changes none of what it sees.           *)
KeptSaved == latest \in ToSet(pre)

LEMMA LastIn == ASSUME NEW s \in Seq(Version), Len(s) > 0 PROVE s[Len(s)] \in ToSet(s)
BY LenProperties DEF ToSet

LEMMA LastIsSaved == ASSUME Placed, LastSaved PROVE KeptSaved
BY LastIn DEF Placed, Types, LastSaved, KeptSaved

LEMMA InitSwaps == ASSUME RestoreInit PROVE Swap!Init
<1>1. disk["data"] = 1 /\ disk["previous"] = Absent /\ latest = 1 /\ pre = << >> BY DEF RestoreInit, Folder
<1>2. (latest \in ToSet(pre)) = FALSE BY <1>1 DEF ToSet
<1> QED BY <1>1, <1>2, Versions DEF Swap!Init, Kept

LEMMA StepSwaps == ASSUME Placed, Saved, NoneStarts, [RestoreNext]_restoreVars PROVE [Swap!Next]_(Swap!vars)
<1> DEFINE Same == /\ disk'["data"] = disk["data"] /\ Kept' = Kept /\ latest' = latest
                   /\ (latest \in ToSet(pre))' = (latest \in ToSet(pre))
<1>1. (latest \in ToSet(pre))' \in BOOLEAN /\ latest \in Version /\ latest' \in Version
  BY NextPlaced DEF Placed, Types
<1>2. ASSUME Same PROVE UNCHANGED Swap!vars BY <1>2 DEF Swap!vars
<1>3. CASE Elsewhere BY <1>2, <1>3, ElsewhereKeeps DEF Kept
<1>4. CASE PutsBackStep
  <2>1. Swap!PutBack BY <1>4, PutBackMoves, Versions DEF Swap!PutBack, Kept, Moved
  <2> QED BY <2>1 DEF Swap!Next
<1>5. CASE SetDataAside
  <2>1. latest \in ToSet(pre) BY <1>5, SetAsideMoves, LastIsSaved DEF Saved, KeptSaved
  <2>2. Swap!SetAside BY <1>1, <1>5, <2>1, SetAsideMoves, Versions DEF Swap!SetAside, Kept, Quiet
  <2> QED BY <2>2 DEF Swap!Next
<1>6. CASE takeSnapshot \/ Write \/ (retain /\ Kept = Absent)
  <2>1. /\ disk["data"] # Absent /\ Kept = Absent /\ Kept' = Kept /\ disk'["data"] = latest'
    <3>1. CASE takeSnapshot
      <4>1. UNCHANGED <<disk, latest>> /\ phase = "stopped" BY <3>1 DEF takeSnapshot, To
      <4>2. Quiet BY <4>1 DEF Placed, Found
      <4> QED BY <1>1, <4>1, <4>2, Versions DEF Quiet, Kept
    <3>2. CASE Write BY <3>2, WriteMoves DEF Kept
    <3>3. CASE retain /\ Kept = Absent
      <4>1. UNCHANGED <<disk, latest>> BY <3>3 DEF retain
      <4>2. Quiet \/ Dropped BY <1>1, <3>3, Versions DEF Placed, Folders, Moved, OnTrial, Kept
      <4> QED BY <1>1, <3>3, <4>1, <4>2, Versions DEF Quiet, Dropped, Kept
    <3> QED BY <1>6, <3>1, <3>2, <3>3
  <2>2. Swap!Work BY <1>1, <2>1 DEF Swap!Work
  <2> QED BY <2>2 DEF Swap!Next
<1>7. CASE retain /\ Kept # Absent
  <2>1. UNCHANGED <<disk, latest>> BY <1>7 DEF retain
  <2>2. SetAside BY <1>7 DEF Kept, SetAside, Placed, Types, Folder
  <2>3. LastSaved BY <2>2 DEF Saved
  <2>4. LastSaved' BY <1>7, <2>3, RetainKeepsLast
  <2>5. pre' \in Seq(Version) BY NextPlaced DEF Placed, Types
  <2>6. KeptSaved' BY <2>4, <2>5, LastIn DEF LastSaved, KeptSaved
  <2>7. KeptSaved /\ KeptSaved' BY <2>3, <2>6, LastIsSaved
  <2>8. (latest \in ToSet(pre)) = TRUE /\ (latest \in ToSet(pre))' = TRUE BY <2>7 DEF KeptSaved
  <2> QED BY <1>2, <2>1, <2>8 DEF Kept
<1>8. CASE PutIncoming \/ SetRestoredAside \/ OperatorUndoes
  <2>1. /\ Kept = latest /\ Kept' = Kept /\ UNCHANGED <<latest, pre>>
        /\ PutIncoming => disk["data"] = Absent /\ disk'["data"] \in Version
        /\ ~PutIncoming => disk'["data"] = Absent
    BY <1>1, <1>8, TrialMoves, Versions DEF Kept
  <2>2. CASE PutIncoming
    <3>1. Swap!Try BY <2>1, <2>2 DEF Swap!Try
    <3> QED BY <3>1 DEF Swap!Next
  <2>3. CASE ~PutIncoming
    <3>1. Swap!GiveUp BY <2>1, <2>3 DEF Swap!GiveUp
    <3> QED BY <3>1 DEF Swap!Next
  <2> QED BY <2>2, <2>3
<1>9. CASE Accepts
  <2>1. /\ UNCHANGED pre /\ latest' = disk["data"] /\ disk'["data"] = disk["data"]
        /\ disk["data"] \in Version /\ Kept' = Absent
    BY <1>9, AcceptMoves DEF Kept
  <2>2. CASE Dropped BY <1>2, <2>1, <2>2 DEF Dropped, Kept
  <2>3. CASE disk["previous"] = latest
    <3>1. Kept = latest BY <1>1, <2>3, Versions DEF Kept
    <3>2. LastSaved BY <1>1, <2>3 DEF Saved, SetAside
    <3>3. KeptSaved BY <3>2, LastIsSaved
    <3>4. Swap!Accept BY <1>1, <2>1, <3>1, <3>3, Versions DEF Swap!Accept, KeptSaved
    <3> QED BY <3>4 DEF Swap!Next
  <2> QED BY <1>9, <2>2, <2>3, AcceptMoves
<1> QED BY <1>3, <1>4, <1>5, <1>6, <1>7, <1>8, <1>9, StepKinds DEF Accepts

(* SwapsSafely: the restore, its cleanup, the runs and the operator do to   *)
(* the data only what DataSwap allows.                                      *)
THEOREM Swaps == ASSUME NoneStarts PROVE RestoreSpec => SwapsSafely
<1>1. RestoreInit => Swap!Init BY InitSwaps
<1>2. Placed /\ Saved /\ [RestoreNext]_restoreVars => [Swap!Next]_(Swap!vars) BY StepSwaps
<1> QED BY <1>1, <1>2, AlwaysSaved, PTL DEF RestoreSpec, SwapsSafely, Swap!Spec
=============================================================================
