----------------------------- MODULE ClaimsProofs -----------------------------
(***************************************************************************)
(* Proofs about Claims, for any tokens, any deployments and any number of  *)
(* events.  What is kept whatever overlaps is IInv; LaidByIts and          *)
(* Unclaimed, on which the two properties rest, need what the run supposes *)
(* too: no removal while the owner deploys, and for the last one no stop   *)
(* between the two files of a settlement.                                  *)
(***************************************************************************)
EXTENDS Claims, TLAPS

-----------------------------------------------------------------------------
(* The types. *)

\* Where the installer stands once it has laid the tree.
Installed == {"say", "store", "judge", "install", "served", "undo"}
\* The turn of a deployment, from its judgement to its start.
Deploys == {"note", "claim", "own", "start"}
Outcomes == {"none", "under-way", "ended", "laid", "succeeded"}
Credits == {"laid", "succeeded"}
States == {"absent", "running", "succeeded", "failed"}

Holders == Tokens \cup {Owner, Nobody}
People == Tokens \cup {Nobody}
Ids == Deps \cup {NoDep}

Results == [Deps -> [state : States, laid : BOOLEAN]]
Stores == [there : BOOLEAN, by : SUBSET (Tokens \cup {Owner})]
Works == [pc : {"idle", "start", "tree"} \cup Installed, token : People, dep : Ids, stores : BOOLEAN]
Records == [creator : People, deployer : People, dep : Ids]
Turns ==
    [pc : {"idle", "ownMade", "dropNote", "outcome", "store", "active", "drop", "forget"} \cup Deploys,
     token : People, dep : Ids, seen : BOOLEAN, noting : BOOLEAN,
     outcome : Outcomes, forget : BOOLEAN, drop : BOOLEAN]
Settlings == [pc : {"idle", "judge"}, dep : Ids, token : People, outcome : Outcomes]

ClaimTyped ==
    /\ claim \in Records /\ claim.dep \in used \cup {NoDep}
    /\ claim.deployer = Nobody <=> claim.dep = NoDep

FilesTyped ==
    /\ owner \in People /\ admin \in People
    /\ creations \in SUBSET [dep : used, token : Tokens]
    /\ old \in SUBSET used /\ used \in SUBSET Deps

RestTyped ==
    /\ laidBy \in Holders /\ project \in Holders /\ ssh \in {"idle", "asked", "laid"}
    /\ made \in SUBSET Tokens /\ told \in {"no", "told", "taking"} /\ leaving \in BOOLEAN

Typed ==
    /\ store \in Stores /\ installer \in Works /\ result \in Results
    /\ turn \in Turns /\ settling \in Settlings
    /\ ClaimTyped /\ FilesTyped /\ RestTyped

-----------------------------------------------------------------------------
(* The invariant: which deployment each part is about. *)

Mine(d, t) == claim.dep = d /\ claim.deployer = t

\* The result says that the folder was laid, or that it serves.
Put(d) == result[d].state = "succeeded" \/ result[d].laid

Fresh == \A d \in Deps \ used : result[d] = Absent

(* The turn of a deployment: it has no result yet, and is alone.            *)
Deploying ==
    turn.pc \in Deploys =>
       /\ turn.token \in Tokens /\ turn.dep \in used \ old /\ result[turn.dep] = Absent
       /\ ~Active
       /\ turn.pc \in {"own", "start"} => Mine(turn.dep, turn.token)
       /\ turn.pc # "note" => creations \subseteq {[dep |-> turn.dep, token |-> turn.token]}

(* The installer at work: the claim is its deployment's, unless taken back, *)
(* and what it laid is still there.                                         *)
Working ==
    Active =>
       /\ installer.token \in Tokens /\ installer.dep \in used
       /\ result[installer.dep].state \in {"absent", "running"}
       /\ installer.pc # "start" => result[installer.dep].state = "running"
       /\ installer.pc \in {"start", "tree", "say"} => ~result[installer.dep].laid
       /\ claim.dep # NoDep => Mine(installer.dep, installer.token)
       /\ installer.pc \in Installed => laidBy = installer.token

(* A creation noted: the claim is its deployment's, or it never started.    *)
Noted ==
    \A c \in creations : Mine(c.dep, c.token)
       \/ (result[c.dep] = Absent /\ (Active => installer.dep # c.dep))

(* A creation being settled: nothing is accepted, nor lets its name go,     *)
(* before it ends.                                                          *)
Earned ==
    settling.pc = "judge" =>
       /\ [dep |-> settling.dep, token |-> settling.token] \in creations
       /\ turn.pc \notin {"claim", "own", "start"}
       /\ settling.outcome \in Credits => Put(settling.dep) /\ ~Active

(* A settlement of names: what it has read is still so when it writes, and  *)
(* a claim is dropped without its holder only when the holder is credited.  *)
Judging ==
    /\ turn.pc \in {"outcome", "store"} /\ ~turn.noting => creations = {}
    /\ turn.pc \in {"active", "drop", "forget"} /\ (turn.forget \/ turn.drop) => creations = {}
    /\ turn.pc \in {"store", "active", "drop"} /\ turn.outcome \in Credits =>
          claim.dep # NoDep /\ Put(claim.dep) /\ ~Active
    /\ turn.pc \in {"active", "drop"} /\ turn.drop /\ ~turn.forget /\ owner # Nobody =>
          turn.outcome \in Credits /\ claim.deployer = owner
    /\ turn.pc = "ownMade" => claim.creator = turn.token /\ turn.token \in Tokens
    /\ turn.pc = "dropNote" => turn.drop /\ turn.forget /\ turn.outcome = "none"

IInv == Typed /\ Fresh /\ Deploying /\ Working /\ Noted /\ Earned /\ Judging

(* What t laid is there, or nothing is and nobody is about to lay it.       *)
Still(t) == laidBy = t \/ (laidBy = Nobody /\ ssh # "asked" /\ ~Active)

(* A claim whose deployment laid the folder: it is there, or was removed.   *)
LaidByIts == claim.dep # NoDep /\ Put(claim.dep) => Still(claim.deployer)

(* A name held without a claim, its deployment having been credited: what   *)
(* its holder laid is there, or nothing is.  Between the two writes of a    *)
(* settlement that lets it go, it is not held any more.                     *)
Letting == turn.pc = "forget" /\ turn.forget
Unclaimed == claim = NoClaim /\ owner # Nobody /\ ~Letting => Still(owner) /\ ~Active

-----------------------------------------------------------------------------
(* Whatever is written in the installer's result, the others are kept. *)
LEMMA ResultSaid ==
  ASSUME IInv, Active,
         \/ \E s \in States : result' = [result EXCEPT ![installer.dep].state = s]
         \/ result' = [result EXCEPT ![installer.dep].laid = TRUE]
         \/ result' = [result EXCEPT ![installer.dep] = [state |-> "failed", laid |-> FALSE]]
         \/ UNCHANGED result
  PROVE  /\ installer.dep \in used /\ installer.dep \in Deps /\ result' \in Results
         /\ \A d \in Deps \ {installer.dep} : result'[d] = result[d]
<1>1. installer.dep \in used /\ installer.dep \in Deps /\ result \in Results
  BY DEF IInv, Typed, Holders, People, Ids, Stores, Works, Records, Turns, Settlings, ClaimTyped,
     FilesTyped, RestTyped, Working
<1>2. result[installer.dep] \in [state : States, laid : BOOLEAN]
  BY <1>1 DEF Results
<1>3. ASSUME NEW r \in [state : States, laid : BOOLEAN],
      result' = [result EXCEPT ![installer.dep] = r]
      PROVE  result' \in Results /\ \A d \in Deps \ {installer.dep} : result'[d] = result[d]
  BY <1>1, <1>3 DEF Results
<1>4. ASSUME NEW s \in States, result' = [result EXCEPT ![installer.dep].state = s]
      PROVE  result' \in Results /\ \A d \in Deps \ {installer.dep} : result'[d] = result[d]
  <2>1. [result[installer.dep] EXCEPT !.state = s] \in [state : States, laid : BOOLEAN]
    BY <1>2
  <2> QED
    BY <1>3, <1>4, <2>1
<1>5. CASE result' = [result EXCEPT ![installer.dep].laid = TRUE]
  <2> DEFINE r == [result[installer.dep] EXCEPT !.laid = TRUE]
  <2>1. r \in [state : States, laid : BOOLEAN]
    BY <1>2
  <2>2. result' = [result EXCEPT ![installer.dep] = r]
    BY <1>5, Zenon
  <2> HIDE DEF r
  <2> QED
    BY <1>1, <2>1, <2>2 DEF Results
<1>6. CASE result' = [result EXCEPT ![installer.dep] = [state |-> "failed", laid |-> FALSE]]
  BY <1>1, <1>6 DEF Results, States
<1>7. CASE UNCHANGED result
  BY <1>1, <1>7
<1> QED
  BY <1>1, <1>4, <1>5, <1>6, <1>7, Zenon

(* The installer writes its own result, and nothing of the steward's. *)
LEMMA InstallerWrites ==
  ASSUME IInv, Installer
  PROVE  /\ Active /\ installer.dep \in used /\ installer.dep \in Deps /\ result' \in Results
         /\ \A d \in Deps \ {installer.dep} : result'[d] = result[d]
         /\ \/ installer'.pc = "idle"
            \/ installer'.pc \in {"tree"} \cup Installed /\ installer'.dep = installer.dep /\ installer'.token = installer.token
         /\ UNCHANGED <<ssh, owner, claim, creations, admin, turn, settling, made, told, leaving, old, used, done>>
<1>1. /\ Active
      /\ UNCHANGED <<ssh, owner, claim, creations, admin, turn, settling, made, told, leaving, old, used, done>>
  BY DEF Installer, Active, Begin, LayTree, SayLaid, PrepareStore, JudgeStoreOwn, Deposit, Fail, Undo, Succeed,
     files, memory
<1>3. \/ \E s \in States : result' = [result EXCEPT ![installer.dep].state = s]
      \/ result' = [result EXCEPT ![installer.dep].laid = TRUE]
      \/ result' = [result EXCEPT ![installer.dep] = [state |-> "failed", laid |-> FALSE]]
      \/ UNCHANGED result
  BY DEF Installer, Begin, LayTree, SayLaid, PrepareStore, JudgeStoreOwn, Deposit, Fail, Undo, Succeed, Ends,
     States
<1>4. \/ installer'.pc = "idle"
      \/ installer'.pc \in {"tree"} \cup Installed /\ installer'.dep = installer.dep /\ installer'.token = installer.token
  <2>1. CASE PrepareStore
    <3>1. PICK y : installer' = [installer EXCEPT !.pc = IF store.there THEN "judge" ELSE "install", !.stores = y]
      BY <2>1 DEF PrepareStore
    <3> QED
      BY <3>1 DEF IInv, Typed, Holders, People, Ids, Stores, Works, Records, Turns, Settlings,
         ClaimTyped, FilesTyped, RestTyped, Installed
  <2>2. CASE ~PrepareStore
    BY <2>2 DEF Installer, Begin, LayTree, SayLaid, JudgeStoreOwn, Deposit, Fail, Undo, Succeed, Ends, Installed,
       IInv, Typed, Holders, People, Ids, Stores, Works, Records, Turns, Settlings, ClaimTyped,
       FilesTyped, RestTyped, Resting
  <2> QED
    BY <2>1, <2>2
<1> QED
  BY <1>1, <1>3, <1>4, ResultSaid

(* How a deployment went, as its result says. *)
LEMMA OutcomeSaid ==
  ASSUME IInv, NEW d \in Deps
  PROVE  /\ OutcomeOf(d) \in Outcomes
         /\ OutcomeOf(d) \in Credits => Put(d) /\ (Active => result[d].state \in {"succeeded", "failed"})
         /\ result[d] = Absent /\ d \notin old => OutcomeOf(d) = "under-way"
<1>1. result[d] \in [state : States, laid : BOOLEAN]
  BY DEF IInv, Typed, Holders, People, Ids, Stores, Works, Records, Turns, Settlings, ClaimTyped,
     FilesTyped, RestTyped, Results
<1>2. CASE result[d].state = "absent"
  BY <1>2, <1>1 DEF OutcomeOf, Outcomes, Credits, Absent
<1>3. CASE result[d].state = "running"
  BY <1>3, <1>1 DEF OutcomeOf, Outcomes, Credits, Absent, Put, Active
<1>4. CASE result[d].state = "succeeded"
  BY <1>4, <1>1 DEF OutcomeOf, Outcomes, Credits, Absent, Put, Active
<1>5. CASE result[d].state = "failed"
  BY <1>5, <1>1 DEF OutcomeOf, Outcomes, Credits, Absent, Put, Active
<1> QED
  BY <1>1, <1>2, <1>3, <1>4, <1>5 DEF States

(* Whose outcome is credited has no installer at work. *)
LEMMA CreditedRests ==
  ASSUME IInv, claim.dep # NoDep, OutcomeOf(claim.dep) \in Credits
  PROVE  Put(claim.dep) /\ ~Active
<1>1. claim.dep \in Deps
  BY DEF IInv, Typed, Holders, People, Ids, Stores, Works, Records, Turns, Settlings, ClaimTyped,
     FilesTyped, RestTyped
<1>2. Put(claim.dep) /\ (Active => result[claim.dep].state \in {"succeeded", "failed"})
  BY <1>1, OutcomeSaid
<1> QED
  BY <1>2 DEF IInv, Working, Mine

(* The two turns that are built from an empty one. *)
LEMMA BackTurn ==
  /\ TakesBack.pc = "dropNote" /\ TakesBack.drop = TRUE /\ TakesBack.forget = TRUE
  /\ TakesBack.outcome = "none"
  BY DEF TakesBack, NoTurn

LEMMA MadeTurn ==
  ASSUME NEW t \in Tokens
  PROVE  [NoTurn EXCEPT !.pc = "ownMade", !.token = t].pc = "ownMade"
         /\ [NoTurn EXCEPT !.pc = "ownMade", !.token = t].token = t
  BY DEF NoTurn


(* A deployment not accepted yet has no result. *)
LEMMA FreshStep ==
  ASSUME IInv, [Next]_vars
  PROVE  Fresh'
<1> USE PeopleAssumption, DepsAssumption DEF IInv, Typed, Holders, People, Ids, Stores, Works,
    Records, Turns, Settlings, ClaimTyped, FilesTyped, RestTyped, Fresh, Absent, machine, memory,
    Results, States
<1>1. ASSUME NEW t \in Tokens, NEW d \in Deps, Judge(t, d) PROVE Fresh'
  BY <1>1 DEF Judge, NoTurn
<1>2. ASSUME Reboot PROVE Fresh'
  BY <1>2 DEF Reboot, Forgotten, NoTurn, NotSettling, Resting
<1>3. ASSUME Note \/ Claim \/ Own \/ Start \/ SshAsk \/ SshLay \/ SshDeposit \/ SshStops
      \/ (\E t \in Tokens : TokenWrite(t)) \/ (\E t \in Tokens : RecordMade(t)) \/ OwnMade
      \/ OwnerWrite \/ OwnerWrote \/ Adopt \/ Remove \/ Release \/ LetPeopleGo \/ DropNote
      \/ SeesMachine \/ SeesOutcome \/ SeesStore \/ SeesActive \/ Drop \/ Forget \/ SettleBegins
      \/ SettleEnds \/ (\E d \in Deps : GracePasses(d)) \/ StewardStops \/ InstallerStops
      PROVE Fresh'
  BY <1>3 DEF Note, TurnTo, Claim, Own, Start, NoTurn, Resting, SshAsk, Counts, SshLay, OnMachine,
     SshDeposit, SshStops, TokenWrite, RecordMade, OwnMade, OwnerWrite, OwnerWrote, TakesBack, Adopt,
     DeployingNow, Remove, NoStore, Release, LetPeopleGo, DropNote, SeesMachine, SeesOutcome,
     SeesStore, SeesActive, Drop, NoClaim, Forget, SettleBegins, SettleEnds, NotSettling,
     GracePasses, StewardStops, Forgotten, InstallerStops
<1>4. CASE Installer
  BY <1>4, InstallerWrites
<1>5. CASE UNCHANGED vars
  BY <1>5 DEF vars
<1> HIDE DEF IInv, Typed, Holders, People, Ids, Stores, Works, Records, Turns, Settlings, ClaimTyped,
    FilesTyped, RestTyped, Fresh, Absent, machine, memory, Results, States
<1> QED
  BY <1>1, <1>2, <1>3, <1>4, <1>5 DEF Next, Steward, Creations

(* The deployment in the turn has no result, and no installer is at work. *)
LEMMA DeployingStep ==
  ASSUME IInv, [Next]_vars
  PROVE  Deploying'
<1> USE PeopleAssumption, DepsAssumption DEF IInv, Typed, Holders, People, Ids, Stores, Works,
    Records, Turns, Settlings, ClaimTyped, FilesTyped, RestTyped, Fresh, Deploying, Deploys, Mine,
    Absent, Active, NoDep, machine, files, memory
<1>1. ASSUME NEW t \in Tokens, NEW d \in Deps, Judge(t, d) PROVE Deploying'
  BY <1>1 DEF Judge, NoTurn
<1>2. ASSUME Note PROVE Deploying'
  BY <1>2 DEF Note, TurnTo
<1>3. ASSUME Claim PROVE Deploying'
  BY <1>3 DEF Claim, TurnTo
<1>4. ASSUME Own PROVE Deploying'
  BY <1>4 DEF Own, TurnTo
<1>5. ASSUME Start PROVE Deploying'
  BY <1>5 DEF Start, NoTurn, Resting
<1>6. ASSUME NEW t \in Tokens, RecordMade(t) PROVE Deploying'
  <2>1. (turn' = turn /\ claim' = claim) \/ turn'.pc = "ownMade"
    BY <1>6 DEF RecordMade, NoTurn
  <2> QED
    BY <1>6, <2>1 DEF RecordMade
<1>7. ASSUME NEW d \in Deps, GracePasses(d) PROVE Deploying'
  BY <1>7 DEF GracePasses
<1>8. ASSUME Reboot \/ StewardStops \/ InstallerStops PROVE Deploying'
  BY <1>8 DEF Reboot, Forgotten, NoTurn, NotSettling, Resting, StewardStops, InstallerStops
<1>9. ASSUME SshAsk \/ SshLay \/ SshDeposit \/ SshStops \/ (\E t \in Tokens : TokenWrite(t))
      \/ OwnerWrite \/ Remove \/ LetPeopleGo PROVE Deploying'
  BY <1>9 DEF SshAsk, Counts, SshLay, OnMachine, SshDeposit, SshStops, TokenWrite, OwnerWrite,
     Remove, NoStore, LetPeopleGo
<1>10. ASSUME OwnMade PROVE Deploying'
  BY <1>10 DEF OwnMade, NoTurn
<1>11. ASSUME OwnerWrote PROVE Deploying'
  <2>1. UNCHANGED turn \/ turn'.pc = "dropNote"
    BY <1>11 DEF OwnerWrote, TakesBack, NoTurn
  <2> QED
    BY <1>11, <2>1 DEF OwnerWrote
<1>12. ASSUME Adopt \/ Release PROVE Deploying'
  <2>1. turn'.pc = "dropNote"
    BY <1>12 DEF Adopt, Release, TakesBack, NoTurn
  <2> QED
    BY <2>1
<1>13. ASSUME DropNote \/ Drop \/ Forget PROVE Deploying'
  BY <1>13 DEF DropNote, TurnTo, Drop, NoClaim, Forget, NoTurn
<1>14. ASSUME SeesMachine PROVE Deploying'
  BY <1>14 DEF SeesMachine, NoTurn, OnMachine
<1>15. ASSUME SeesOutcome PROVE Deploying'
  BY <1>15 DEF SeesOutcome
<1>16. ASSUME SeesStore PROVE Deploying'
  BY <1>16 DEF SeesStore
<1>17. ASSUME SeesActive PROVE Deploying'
  BY <1>17 DEF SeesActive, NoTurn
<1>18. ASSUME SettleBegins \/ SettleEnds PROVE Deploying'
  BY <1>18 DEF SettleBegins, SettleEnds, NotSettling
<1>19. CASE Installer
  BY <1>19, InstallerWrites
<1>20. CASE UNCHANGED vars
  BY <1>20 DEF vars
<1> HIDE DEF IInv, Typed, Holders, People, Ids, Stores, Works, Records, Turns, Settlings, ClaimTyped,
    FilesTyped, RestTyped, Fresh, Deploying, Deploys, Mine, Absent, Active, NoDep, machine, files,
    memory
<1> QED
  BY <1>1, <1>2, <1>3, <1>4, <1>5, <1>6, <1>7, <1>8, <1>9, <1>10, <1>11, <1>12, <1>13, <1>14, <1>15,
     <1>16, <1>17, <1>18, <1>19, <1>20 DEF Next, Steward, Creations

(* A creation noted is the claim's, or its deployment has not started. *)
LEMMA NotedStep ==
  ASSUME IInv, [Next]_vars
  PROVE  Noted'
<1> USE PeopleAssumption, DepsAssumption DEF IInv, Typed, Holders, People, Ids, Stores, Works,
    Records, Turns, Settlings, ClaimTyped, FilesTyped, RestTyped, Judging, Deploying, Deploys,
    Working, Noted, Mine, Absent, Active, NoDep, Results, machine, files, memory
<1>1. ASSUME NEW t \in Tokens, NEW d \in Deps, Judge(t, d) PROVE Noted'
  BY <1>1 DEF Judge, NoTurn
<1>2. ASSUME Note PROVE Noted'
  BY <1>2 DEF Note, TurnTo
<1>3. ASSUME Claim PROVE Noted'
  BY <1>3 DEF Claim, TurnTo
<1>4. ASSUME Own PROVE Noted'
  BY <1>4 DEF Own, TurnTo
<1>5. ASSUME Start PROVE Noted'
  BY <1>5 DEF Start, NoTurn, Resting
<1>6. ASSUME NEW t \in Tokens, RecordMade(t) PROVE Noted'
  BY <1>6 DEF RecordMade, OnMachine, NoTurn
<1>7. ASSUME NEW d \in Deps, GracePasses(d) PROVE Noted'
  BY <1>7 DEF GracePasses
<1>8. ASSUME Reboot PROVE Noted'
  BY <1>8 DEF Reboot, Forgotten, NoTurn, NotSettling, Resting
<1>9. ASSUME StewardStops \/ InstallerStops PROVE Noted'
  BY <1>9 DEF StewardStops, Forgotten, NoTurn, NotSettling, InstallerStops, Resting
<1>10. ASSUME SshAsk \/ SshLay \/ SshDeposit \/ SshStops \/ (\E t \in Tokens : TokenWrite(t))
       \/ OwnerWrite \/ Remove \/ LetPeopleGo PROVE Noted'
  BY <1>10 DEF SshAsk, Counts, SshLay, OnMachine, SshDeposit, SshStops, TokenWrite, OwnerWrite,
     Remove, NoStore, LetPeopleGo
<1>11. ASSUME OwnMade \/ OwnerWrote \/ Adopt \/ Release PROVE Noted'
  BY <1>11 DEF OwnMade, NoTurn, OwnerWrote, TakesBack, OnMachine, Adopt, DeployingNow, Release
<1>12. ASSUME DropNote \/ SeesMachine \/ SeesOutcome \/ SeesStore \/ SeesActive \/ Forget
       PROVE Noted'
  BY <1>12 DEF DropNote, TurnTo, SeesMachine, NoTurn, OnMachine, SeesOutcome, SeesStore, SeesActive,
     Forget
<1>13. ASSUME Drop PROVE Noted'
  BY <1>13 DEF Drop, TurnTo, NoClaim
<1>14. ASSUME SettleBegins \/ SettleEnds PROVE Noted'
  BY <1>14 DEF SettleBegins, SettleEnds, NotSettling
<1>15. ASSUME Installer PROVE Noted'
  <2>1. ASSUME NEW c \in creations, result[c.dep] = Absent, installer.dep # c.dep
        PROVE result'[c.dep] = Absent
    BY <1>15, <2>1, InstallerWrites
  <2> QED
    BY <1>15, <2>1, InstallerWrites
<1>16. CASE UNCHANGED vars
  BY <1>16 DEF vars
<1> HIDE DEF IInv, Typed, Holders, People, Ids, Stores, Works, Records, Turns, Settlings, ClaimTyped,
    FilesTyped, RestTyped, Judging, Deploying, Deploys, Working, Noted, Mine, Absent, Active, NoDep,
    Results, machine, files, memory
<1> QED
  BY <1>1, <1>2, <1>3, <1>4, <1>5, <1>6, <1>7, <1>8, <1>9, <1>10, <1>11, <1>12, <1>13, <1>14, <1>15,
     <1>16 DEF Next, Steward, Creations, Installer

(* The installer at work is that of the claim, or the claim was dropped. *)
LEMMA WorkingStep ==
  ASSUME IInv, [Next]_vars
  PROVE  Working'
<1> USE PeopleAssumption, DepsAssumption DEF IInv, Typed, Holders, People, Ids, Stores, Works,
    Records, Turns, Settlings, ClaimTyped, FilesTyped, RestTyped, Deploying, Deploys, Working, Mine,
    Absent, Active, NoDep, machine, files, memory, Installed, Results, States
<1>1. ASSUME NEW t \in Tokens, NEW d \in Deps, Judge(t, d) PROVE Working'
  BY <1>1 DEF Judge, NoTurn
<1>2. ASSUME Note PROVE Working'
  BY <1>2 DEF Note, TurnTo
<1>3. ASSUME Claim PROVE Working'
  BY <1>3 DEF Claim, TurnTo
<1>4. ASSUME Own PROVE Working'
  BY <1>4 DEF Own, TurnTo
<1>5. ASSUME Start PROVE Working'
  <2>1. CASE UNCHANGED installer
    BY <1>5, <2>1 DEF Start, NoTurn
  <2>2. CASE installer' = [Resting EXCEPT !.pc = "start", !.token = turn.token, !.dep = turn.dep]
    <3>1. installer'.pc = "start" /\ installer'.token = turn.token /\ installer'.dep = turn.dep
      BY <2>2 DEF Resting
    <3> QED
      BY <1>5, <3>1 DEF Start, NoTurn
  <2> QED
    BY <1>5, <2>1, <2>2 DEF Start
<1>6. ASSUME NEW t \in Tokens, RecordMade(t) PROVE Working'
  BY <1>6 DEF RecordMade, OnMachine, NoTurn
<1>7. ASSUME NEW d \in Deps, GracePasses(d) PROVE Working'
  BY <1>7 DEF GracePasses
<1>8. ASSUME Reboot \/ InstallerStops PROVE Working'
  BY <1>8 DEF Reboot, Forgotten, NoTurn, NotSettling, Resting, InstallerStops
<1>9. ASSUME StewardStops PROVE Working'
  BY <1>9 DEF StewardStops, Forgotten, NoTurn, NotSettling
<1>10. ASSUME SshAsk \/ SshDeposit \/ SshStops \/ OwnerWrite \/ LetPeopleGo PROVE Working'
  BY <1>10 DEF SshAsk, Counts, SshDeposit, OnMachine, SshStops, OwnerWrite, LetPeopleGo
<1>11. ASSUME SshLay PROVE Working'
  BY <1>11 DEF SshLay, OnMachine
<1>12. ASSUME NEW t \in Tokens, TokenWrite(t) PROVE Working'
  BY <1>12 DEF TokenWrite, Counts, OnMachine
<1>13. ASSUME Remove PROVE Working'
  BY <1>13 DEF Remove, NoStore, Counts
<1>14. ASSUME OwnMade PROVE Working'
  BY <1>14 DEF OwnMade, NoTurn
<1>15. ASSUME OwnerWrote \/ Adopt \/ Release PROVE Working'
  BY <1>15 DEF OwnerWrote, TakesBack, NoTurn, OnMachine, Adopt, DeployingNow, Release
<1>16. ASSUME DropNote \/ SeesMachine \/ SeesOutcome \/ SeesStore \/ SeesActive \/ Forget
       PROVE Working'
  BY <1>16 DEF DropNote, TurnTo, SeesMachine, NoTurn, OnMachine, SeesOutcome, SeesStore, SeesActive,
     Forget
<1>17. ASSUME Drop PROVE Working'
  BY <1>17 DEF Drop, TurnTo, NoClaim
<1>18. ASSUME SettleBegins \/ SettleEnds PROVE Working'
  BY <1>18 DEF SettleBegins, SettleEnds, NotSettling
<1>19. ASSUME Begin PROVE Working'
  BY <1>19 DEF Begin, Ends, Resting
<1>20. ASSUME LayTree PROVE Working'
  BY <1>20 DEF LayTree, Ends, Resting, OnMachine
<1>21. ASSUME SayLaid PROVE Working'
  BY <1>21 DEF SayLaid
<1>22. ASSUME PrepareStore \/ JudgeStoreOwn PROVE Working'
  <2>1. CASE PrepareStore
    BY <2>1 DEF PrepareStore
  <2>2. CASE JudgeStoreOwn
    BY <2>2 DEF JudgeStoreOwn
  <2> QED
    BY <1>22, <2>1, <2>2
<1>23. ASSUME Deposit PROVE Working'
  BY <1>23 DEF Deposit
<1>24. ASSUME Fail PROVE Working'
  BY <1>24 DEF Fail, Ends, Resting
<1>25. ASSUME Undo PROVE Working'
  BY <1>25 DEF Undo, Ends, Resting, NoStore
<1>26. ASSUME Succeed PROVE Working'
  BY <1>26 DEF Succeed, Ends, Resting
<1>27. CASE UNCHANGED vars
  BY <1>27 DEF vars
<1> HIDE DEF IInv, Typed, Holders, People, Ids, Stores, Works, Records, Turns, Settlings, ClaimTyped,
    FilesTyped, RestTyped, Deploying, Deploys, Working, Mine, Absent, Active, NoDep, machine, files,
    memory, Installed, Results, States
<1> QED
  BY <1>1, <1>2, <1>3, <1>4, <1>5, <1>6, <1>7, <1>8, <1>9, <1>10, <1>11, <1>12, <1>13, <1>14, <1>15,
     <1>16, <1>17, <1>18, <1>19, <1>20, <1>21, <1>22, <1>23, <1>24, <1>25, <1>26, <1>27 DEF Next,
     Steward, Creations, Installer

(* A creation being settled stays noted, and what it is credited with is said. *)
LEMMA EarnedStep ==
  ASSUME IInv, [Next]_vars
  PROVE  Earned'
<1> USE PeopleAssumption, DepsAssumption DEF IInv, Typed, Holders, People, Ids, Stores, Works,
    Records, Turns, Settlings, ClaimTyped, FilesTyped, RestTyped, Deploying, Deploys, Noted, Earned,
    Judging, Credits, Put, Mine, Absent, Active, NoDep, machine, files, memory
<1>1. ASSUME NEW t \in Tokens, NEW d \in Deps, Judge(t, d) PROVE Earned'
  BY <1>1 DEF Judge, NoTurn
<1>2. ASSUME Note PROVE Earned'
  BY <1>2 DEF Note, TurnTo
<1>3. ASSUME Claim PROVE Earned'
  BY <1>3 DEF Claim, TurnTo
<1>4. ASSUME Own PROVE Earned'
  BY <1>4 DEF Own, TurnTo
<1>5. ASSUME Start PROVE Earned'
  BY <1>5 DEF Start, NoTurn, Resting
<1>6. ASSUME NEW t \in Tokens, RecordMade(t) PROVE Earned'
  <2>1. CASE OnMachine
    BY <1>6, <2>1 DEF RecordMade
  <2>2. CASE ~OnMachine
    <3>1. turn'.pc = "ownMade" /\ turn'.token = t
      BY <1>6, <2>2, MadeTurn DEF RecordMade
    <3>2. claim'.creator = t /\ claim'.dep = claim.dep /\ claim'.deployer = claim.deployer
      BY <1>6, <2>2 DEF RecordMade
    <3> QED
      BY <1>6, <2>2, <3>1, <3>2 DEF RecordMade
  <2> QED
    BY <2>1, <2>2
<1>7. ASSUME NEW d \in Deps, GracePasses(d) PROVE Earned'
  BY <1>7 DEF GracePasses
<1>8. ASSUME Reboot \/ StewardStops PROVE Earned'
  BY <1>8 DEF Reboot, Forgotten, NoTurn, NotSettling, Resting, StewardStops
<1>9. ASSUME InstallerStops PROVE Earned'
  BY <1>9 DEF InstallerStops, Resting
<1>10. ASSUME SshAsk \/ SshLay \/ SshDeposit \/ SshStops \/ (\E t \in Tokens : TokenWrite(t))
       \/ OwnerWrite \/ Remove \/ LetPeopleGo PROVE Earned'
  BY <1>10 DEF SshAsk, Counts, SshLay, OnMachine, SshDeposit, SshStops, TokenWrite, OwnerWrite,
     Remove, NoStore, LetPeopleGo
<1>11. ASSUME OwnMade PROVE Earned'
  BY <1>11 DEF OwnMade, NoTurn
<1>12. ASSUME OwnerWrote \/ Adopt \/ Release PROVE Earned'
  <2>1. UNCHANGED turn \/ turn' = TakesBack
    BY <1>12 DEF OwnerWrote, Adopt, Release
  <2> QED
    BY <1>12, <2>1, BackTurn DEF OwnerWrote, Adopt, Release
<1>13. ASSUME DropNote PROVE Earned'
  BY <1>13 DEF DropNote, TurnTo
<1>14. ASSUME SeesMachine PROVE Earned'
  BY <1>14 DEF SeesMachine, NoTurn, OnMachine
<1>15. ASSUME SeesOutcome PROVE Earned'
  BY <1>15 DEF SeesOutcome
<1>16. ASSUME SeesStore PROVE Earned'
  BY <1>16 DEF SeesStore
<1>17. ASSUME SeesActive \/ Forget PROVE Earned'
  BY <1>17 DEF SeesActive, NoTurn, Forget
<1>18. ASSUME Drop PROVE Earned'
  BY <1>18 DEF Drop, TurnTo, NoClaim
<1>19. ASSUME SettleBegins PROVE Earned'
  <2>1. PICK c \in creations :
          /\ OutcomeOf(c.dep) # "under-way"
          /\ settling' = [pc |-> "judge", dep |-> c.dep, token |-> c.token, outcome |-> OutcomeOf(c.dep)]
    BY <1>19 DEF SettleBegins
  <2>2. c.dep \in Deps /\ c = [dep |-> c.dep, token |-> c.token]
    OBVIOUS
  <2>3. turn.pc \notin {"claim", "own", "start"}
    <3> SUFFICES ASSUME turn.pc \in {"claim", "own", "start"} PROVE FALSE
      OBVIOUS
    <3>1. c = [dep |-> turn.dep, token |-> turn.token]
      OBVIOUS
    <3>2. c.dep = turn.dep /\ result[c.dep] = Absent /\ c.dep \notin old
      BY <3>1
    <3> QED
      BY <2>1, <2>2, <3>2, OutcomeSaid
  <2>4. ASSUME OutcomeOf(c.dep) \in Credits PROVE Put(c.dep) /\ ~Active
    <3>1. Put(c.dep)
      BY <2>2, <2>4, OutcomeSaid DEF Credits
    <3>2. claim.dep = c.dep
      BY <3>1
    <3> QED
      BY <2>2, <2>4, <3>2, CreditedRests
  <2> QED
    BY <1>19, <2>1, <2>2, <2>3, <2>4 DEF SettleBegins
<1>20. ASSUME SettleEnds PROVE Earned'
  BY <1>20 DEF SettleEnds, NotSettling
<1>21. CASE Installer
  BY <1>21, InstallerWrites
<1>22. CASE UNCHANGED vars
  BY <1>22 DEF vars
<1> HIDE DEF IInv, Typed, Holders, People, Ids, Stores, Works, Records, Turns, Settlings, ClaimTyped,
    FilesTyped, RestTyped, Deploying, Deploys, Noted, Earned, Judging, Credits, Put, Mine, Absent,
    Active, NoDep, machine, files, memory
<1> QED
  BY <1>1, <1>2, <1>3, <1>4, <1>5, <1>6, <1>7, <1>8, <1>9, <1>10, <1>11, <1>12, <1>13, <1>14, <1>15,
     <1>16, <1>17, <1>18, <1>19, <1>20, <1>21, <1>22 DEF Next, Steward, Creations

(* What a settlement has read still holds when it writes. *)
LEMMA JudgingStep ==
  ASSUME IInv, [Next]_vars
  PROVE  Judging'
<1> USE PeopleAssumption, DepsAssumption DEF IInv, Typed, Holders, People, Ids, Stores, Works,
    Records, Turns, Settlings, ClaimTyped, FilesTyped, RestTyped, Deploying, Deploys, Judging,
    Credits, Put, Mine, Absent, Active, Outcomes, NoDep, NoClaim, machine, files, memory
<1>1. ASSUME NEW t \in Tokens, NEW d \in Deps, Judge(t, d) PROVE Judging'
  BY <1>1 DEF Judge, NoTurn
<1>2. ASSUME Note PROVE Judging'
  BY <1>2 DEF Note, TurnTo
<1>3. ASSUME Claim PROVE Judging'
  BY <1>3 DEF Claim, TurnTo
<1>4. ASSUME Own PROVE Judging'
  BY <1>4 DEF Own, TurnTo
<1>5. ASSUME Start PROVE Judging'
  BY <1>5 DEF Start, NoTurn, Resting
<1>6. ASSUME NEW t \in Tokens, RecordMade(t) PROVE Judging'
  <2>1. CASE OnMachine
    BY <1>6, <2>1 DEF RecordMade
  <2>2. CASE ~OnMachine
    <3>1. turn'.pc = "ownMade" /\ turn'.token = t
      BY ZenonT(40), <1>6, <2>2, MadeTurn DEF RecordMade
    <3>2. claim'.creator = t /\ claim'.dep = claim.dep /\ claim'.deployer = claim.deployer
      BY <1>6, <2>2 DEF RecordMade
    <3> QED
      BY <1>6, <2>2, <3>1, <3>2 DEF RecordMade
  <2> QED
    BY <2>1, <2>2
<1>7. ASSUME NEW d \in Deps, GracePasses(d) PROVE Judging'
  BY <1>7 DEF GracePasses
<1>8. ASSUME Reboot \/ StewardStops PROVE Judging'
  BY <1>8 DEF Reboot, Forgotten, NoTurn, NotSettling, Resting, StewardStops
<1>9. ASSUME InstallerStops PROVE Judging'
  BY <1>9 DEF InstallerStops, Resting
<1>10. ASSUME SshAsk \/ SshLay \/ SshDeposit \/ SshStops \/ (\E t \in Tokens : TokenWrite(t))
       \/ OwnerWrite \/ Remove \/ LetPeopleGo PROVE Judging'
  BY <1>10 DEF SshAsk, Counts, SshLay, OnMachine, SshDeposit, SshStops, TokenWrite, OwnerWrite,
     Remove, NoStore, LetPeopleGo
<1>11. ASSUME OwnMade PROVE Judging'
  BY <1>11 DEF OwnMade, NoTurn
<1>12. ASSUME OwnerWrote \/ Adopt \/ Release PROVE Judging'
  <2>1. UNCHANGED turn \/ turn' = TakesBack
    BY <1>12 DEF OwnerWrote, Adopt, Release
  <2> QED
    BY <1>12, <2>1, BackTurn DEF OwnerWrote, Adopt, Release
<1>13. ASSUME DropNote PROVE Judging'
  BY <1>13 DEF DropNote, TurnTo
<1>14. ASSUME SeesMachine PROVE Judging'
  BY <1>14 DEF SeesMachine, NoTurn, OnMachine
<1>15. ASSUME SeesOutcome PROVE Judging'
  <2> DEFINE under == ClaimOutcome = "under-way"
  <2>1. ClaimOutcome \in Credits => claim.dep # NoDep /\ Put(claim.dep) /\ ~Active
    BY CreditedRests DEF ClaimOutcome
  <2>2. /\ turn'.pc = "store" /\ turn'.outcome = ClaimOutcome
        /\ turn.noting => turn'.noting
    BY <1>15 DEF SeesOutcome
  <2> HIDE DEF under
  <2> QED
    BY <1>15, <2>1, <2>2 DEF SeesOutcome
<1>16. ASSUME SeesStore PROVE Judging'
  <2> DEFINE f == Settle(store.there).forget
             d == Settle(store.there).drop
  <2>1. /\ turn'.pc = "active" /\ turn'.outcome = turn.outcome
        /\ turn'.forget = f /\ turn'.drop = d
    BY <1>16 DEF SeesStore
  <2>2. f \/ d => ~turn.noting
    BY DEF Settle
  <2>3. d /\ ~f /\ owner # Nobody => turn.outcome \in Credits /\ claim.deployer = owner
    BY DEF Settle, Credited
  <2> HIDE DEF f, d
  <2> QED
    BY <1>16, <2>1, <2>2, <2>3 DEF SeesStore
<1>17. ASSUME SeesActive PROVE Judging'
  BY <1>17 DEF SeesActive, NoTurn
<1>18. ASSUME Forget PROVE Judging'
  BY <1>18 DEF Forget, NoTurn
<1>19. ASSUME Drop PROVE Judging'
  BY <1>19 DEF Drop, TurnTo, NoClaim
<1>20. ASSUME SettleBegins PROVE Judging'
  BY <1>20 DEF SettleBegins
<1>21. ASSUME SettleEnds PROVE Judging'
  BY <1>21 DEF SettleEnds, NotSettling
<1>22. CASE Installer
  BY <1>22, InstallerWrites
<1>23. CASE UNCHANGED vars
  BY <1>23 DEF vars
<1> HIDE DEF IInv, Typed, Holders, People, Ids, Stores, Works, Records, Turns, Settlings, ClaimTyped,
    FilesTyped, RestTyped, Deploying, Deploys, Judging, Credits, Put, Mine, Absent, Active, Outcomes,
    NoDep, NoClaim, machine, files, memory
<1> QED
  BY <1>1, <1>2, <1>3, <1>4, <1>5, <1>6, <1>7, <1>8, <1>9, <1>10, <1>11, <1>12, <1>13, <1>14, <1>15,
     <1>16, <1>17, <1>18, <1>19, <1>20, <1>21, <1>22, <1>23 DEF Next, Steward, Creations

(* The types, variable by variable: the turn of the tokens' queue, *)
LEMMA TurnTyped ==
  ASSUME IInv, [Next]_vars
  PROVE  turn' \in Turns
<1> USE PeopleAssumption, DepsAssumption DEF IInv, Typed, Holders, People, Ids, Stores, Works,
    Records, Turns, Settlings, ClaimTyped, FilesTyped, RestTyped, Working, Deploying, Deploys,
    Installed, Outcomes, Active, NoDep, machine, files, memory
<1>1. ASSUME NEW t \in Tokens, NEW d \in Deps, Judge(t, d) PROVE turn' \in Turns
  <2>1. [NoTurn EXCEPT !.pc = "note", !.token = t, !.dep = d] \in Turns
    BY DEF NoTurn
  <2> QED
    BY <1>1, <2>1 DEF Judge
<1>2. ASSUME Note \/ Claim \/ Own PROVE turn' \in Turns
  BY <1>2 DEF Note, TurnTo, Claim, Own
<1>3. ASSUME Start PROVE turn' \in Turns
  BY <1>3 DEF Start, NoTurn, Resting
<1>4. ASSUME NEW t \in Tokens, RecordMade(t) PROVE turn' \in Turns
  <2>1. UNCHANGED turn \/ turn' = [NoTurn EXCEPT !.pc = "ownMade", !.token = t]
    BY <1>4 DEF RecordMade
  <2>2. [NoTurn EXCEPT !.pc = "ownMade", !.token = t] \in Turns
    BY DEF NoTurn
  <2> QED
    BY <2>1, <2>2
<1>5. ASSUME OwnMade PROVE turn' \in Turns
  BY <1>5 DEF OwnMade, NoTurn
<1>6. ASSUME OwnerWrote \/ Adopt \/ Release PROVE turn' \in Turns
  <2>1. UNCHANGED turn \/ turn' = TakesBack
    BY <1>6 DEF OwnerWrote, Adopt, Release
  <2>2. TakesBack \in Turns
    BY DEF TakesBack, NoTurn
  <2> QED
    BY <2>1, <2>2
<1>7. ASSUME DropNote \/ Drop PROVE turn' \in Turns
  BY <1>7 DEF DropNote, TurnTo, Drop, NoClaim
<1>8. ASSUME Forget PROVE turn' \in Turns
  BY <1>8 DEF Forget, NoTurn
<1>9. ASSUME SeesMachine PROVE turn' \in Turns
  <2> DEFINE s == OnMachine
             n == creations # {}
  <2>1. s \in BOOLEAN /\ n \in BOOLEAN
    BY DEF OnMachine
  <2>2. turn' = [NoTurn EXCEPT !.pc = "outcome", !.seen = s, !.noting = n]
    BY <1>9 DEF SeesMachine
  <2> HIDE DEF s, n
  <2>3. [NoTurn EXCEPT !.pc = "outcome", !.seen = s, !.noting = n] \in Turns
    BY ZenonT(40), <2>1 DEF NoTurn
  <2> QED
    BY <2>2, <2>3
<1>10. ASSUME SeesOutcome PROVE turn' \in Turns
  <2> DEFINE n == turn.noting \/ ClaimOutcome = "under-way"
             o == ClaimOutcome
  <2>1. n \in BOOLEAN
    OBVIOUS
  <2>2. o \in Outcomes
    BY OutcomeSaid DEF ClaimOutcome
  <2>3. turn' = [turn EXCEPT !.pc = "store", !.outcome = o, !.noting = n]
    BY <1>10 DEF SeesOutcome
  <2> HIDE DEF n, o
  <2> QED
    BY <2>1, <2>2, <2>3
<1>11. ASSUME SeesStore PROVE turn' \in Turns
  <2> DEFINE f == Settle(store.there).forget
             d == Settle(store.there).drop
  <2>1. f \in BOOLEAN /\ d \in BOOLEAN
    BY DEF Settle, Credited
  <2>2. turn' = [turn EXCEPT !.pc = "active", !.forget = f, !.drop = d]
    BY <1>11 DEF SeesStore
  <2> HIDE DEF f, d
  <2> QED
    BY <2>1, <2>2
<1>12. ASSUME SeesActive PROVE turn' \in Turns
  BY <1>12 DEF SeesActive, NoTurn
<1>13. ASSUME StewardStops \/ Reboot PROVE turn' \in Turns
  <2>1. turn' = NoTurn
    BY <1>13 DEF StewardStops, Reboot, Forgotten
  <2>2. NoTurn \in Turns
    BY DEF NoTurn
  <2> QED
    BY <2>1, <2>2
<1>14. ASSUME SshAsk \/ SshLay \/ SshDeposit \/ SshStops \/ (\E t \in Tokens : TokenWrite(t))
       \/ OwnerWrite \/ Remove \/ LetPeopleGo \/ SettleBegins \/ SettleEnds
       \/ (\E d \in Deps : GracePasses(d)) \/ InstallerStops \/ Begin \/ LayTree \/ SayLaid
       \/ PrepareStore \/ JudgeStoreOwn \/ Deposit \/ Fail \/ Undo \/ Succeed PROVE turn' \in Turns
  BY <1>14 DEF SshAsk, Counts, SshLay, OnMachine, SshDeposit, SshStops, TokenWrite, OwnerWrite,
     Remove, NoStore, LetPeopleGo, SettleBegins, SettleEnds, NotSettling, GracePasses,
     InstallerStops, Resting, Begin, Ends, LayTree, SayLaid, PrepareStore, JudgeStoreOwn, Deposit, Fail,
     Undo, Succeed
<1>15. CASE UNCHANGED vars
  BY <1>15 DEF vars
<1> HIDE DEF IInv, Typed, Holders, People, Ids, Stores, Works, Records, Turns, Settlings, ClaimTyped,
    FilesTyped, RestTyped, Working, Deploying, Deploys, Installed, Outcomes, Active, NoDep, machine,
    files, memory
<1> QED
  BY <1>1, <1>2, <1>3, <1>4, <1>5, <1>6, <1>7, <1>8, <1>9, <1>10, <1>11, <1>12, <1>13, <1>14,
     <1>15 DEF Next, Steward, Creations, Installer

(* the installer, *)
LEMMA WorksTyped ==
  ASSUME IInv, [Next]_vars
  PROVE  installer' \in Works
<1> USE PeopleAssumption, DepsAssumption DEF IInv, Typed, Holders, People, Ids, Stores, Works,
    Records, Turns, Settlings, ClaimTyped, FilesTyped, RestTyped, Working, Deploying, Deploys,
    Installed, Outcomes, Active, NoDep, machine, files, memory
<1>1. ASSUME Start PROVE installer' \in Works
  <2>1. [Resting EXCEPT !.pc = "start", !.token = turn.token, !.dep = turn.dep] \in Works
    BY DEF Resting
  <2> QED
    BY <1>1, <2>1 DEF Start
<1>2. ASSUME InstallerStops \/ Reboot PROVE installer' \in Works
  <2>1. installer' = Resting
    BY <1>2 DEF InstallerStops, Reboot
  <2> QED
    BY <2>1 DEF Resting
<1>3. ASSUME PrepareStore PROVE installer' \in Works
  <2> DEFINE x == IF store.there THEN "judge" ELSE "install"
             y == ~store.there
  <2>1. x \in Installed /\ y \in BOOLEAN
    OBVIOUS
  <2>2. installer' = [installer EXCEPT !.pc = x, !.stores = y]
    BY <1>3 DEF PrepareStore
  <2> HIDE DEF x, y
  <2> QED
    BY <2>1, <2>2
<1>4. ASSUME Begin \/ LayTree \/ SayLaid \/ JudgeStoreOwn \/ Deposit \/ Fail \/ Undo \/ Succeed
      PROVE installer' \in Works
  <2>1. \/ installer' = Resting
        \/ \E x \in {"tree"} \cup Installed : installer' = [installer EXCEPT !.pc = x]
    BY <1>4 DEF Begin, LayTree, SayLaid, JudgeStoreOwn, Deposit, Fail, Undo, Succeed, Ends
  <2>2. Resting \in Works
    BY DEF Resting
  <2> QED
    BY <2>1, <2>2
<1>5. ASSUME (\E t \in Tokens, d \in Deps : Judge(t, d)) \/ Note \/ Claim \/ Own \/ SshAsk \/ SshLay
      \/ SshDeposit \/ SshStops \/ (\E t \in Tokens : TokenWrite(t))
      \/ (\E t \in Tokens : RecordMade(t)) \/ OwnMade \/ OwnerWrite \/ OwnerWrote \/ Adopt \/ Remove
      \/ Release \/ LetPeopleGo \/ DropNote \/ SeesMachine \/ SeesOutcome \/ SeesStore \/ SeesActive
      \/ Drop \/ Forget \/ SettleBegins \/ SettleEnds \/ (\E d \in Deps : GracePasses(d))
      \/ StewardStops PROVE installer' \in Works
  BY <1>5 DEF Judge, NoTurn, Note, TurnTo, Claim, Own, SshAsk, Counts, SshLay, OnMachine, SshDeposit,
     SshStops, TokenWrite, RecordMade, OwnMade, OwnerWrite, OwnerWrote, TakesBack, Adopt,
     DeployingNow, Remove, NoStore, Release, LetPeopleGo, DropNote, SeesMachine, SeesOutcome,
     SeesStore, SeesActive, Drop, NoClaim, Forget, SettleBegins, SettleEnds, NotSettling,
     GracePasses, StewardStops, Forgotten
<1>6. CASE UNCHANGED vars
  BY <1>6 DEF vars
<1> HIDE DEF IInv, Typed, Holders, People, Ids, Stores, Works, Records, Turns, Settlings, ClaimTyped,
    FilesTyped, RestTyped, Working, Deploying, Deploys, Installed, Outcomes, Active, NoDep, machine,
    files, memory
<1> QED
  BY <1>1, <1>2, <1>3, <1>4, <1>5, <1>6 DEF Next, Steward, Creations, Installer

(* the claim, *)
LEMMA ClaimTypedStep ==
  ASSUME IInv, [Next]_vars
  PROVE  ClaimTyped'
<1> USE PeopleAssumption, DepsAssumption DEF IInv, Typed, Holders, People, Ids, Stores, Works,
    Records, Turns, Settlings, ClaimTyped, FilesTyped, RestTyped, Working, Deploying, Deploys,
    Installed, Outcomes, Active, NoDep, machine, files, memory, NoClaim
<1>1. ASSUME NEW t \in Tokens, NEW d \in Deps, Judge(t, d) PROVE ClaimTyped'
  BY <1>1 DEF Judge, NoTurn
<1>2. ASSUME Claim PROVE ClaimTyped'
  BY <1>2 DEF Claim, TurnTo
<1>3. ASSUME NEW t \in Tokens, RecordMade(t) PROVE ClaimTyped'
  BY <1>3 DEF RecordMade, OnMachine, NoTurn
<1>4. ASSUME Drop PROVE ClaimTyped'
  BY <1>4 DEF Drop, TurnTo, NoClaim
<1>5. ASSUME Note \/ Own \/ Start \/ SshAsk \/ SshLay \/ SshDeposit \/ SshStops
      \/ (\E t \in Tokens : TokenWrite(t)) \/ OwnMade \/ OwnerWrite \/ OwnerWrote \/ Adopt \/ Remove
      \/ Release \/ LetPeopleGo \/ DropNote \/ SeesMachine \/ SeesOutcome \/ SeesStore \/ SeesActive
      \/ Forget \/ SettleBegins \/ SettleEnds \/ (\E d \in Deps : GracePasses(d)) \/ StewardStops
      \/ InstallerStops \/ Reboot PROVE ClaimTyped'
  BY <1>5 DEF Note, TurnTo, Own, Start, NoTurn, Resting, SshAsk, Counts, SshLay, OnMachine,
     SshDeposit, SshStops, TokenWrite, OwnMade, OwnerWrite, OwnerWrote, TakesBack, Adopt,
     DeployingNow, Remove, NoStore, Release, LetPeopleGo, DropNote, SeesMachine, SeesOutcome,
     SeesStore, SeesActive, Forget, SettleBegins, SettleEnds, NotSettling, GracePasses, StewardStops,
     Forgotten, InstallerStops, Reboot
<1>6. CASE Installer
  BY <1>6, InstallerWrites
<1>7. CASE UNCHANGED vars
  BY <1>7 DEF vars
<1> HIDE DEF IInv, Typed, Holders, People, Ids, Stores, Works, Records, Turns, Settlings, ClaimTyped,
    FilesTyped, RestTyped, Working, Deploying, Deploys, Installed, Outcomes, Active, NoDep, machine,
    files, memory, NoClaim
<1> QED
  BY <1>1, <1>2, <1>3, <1>4, <1>5, <1>6, <1>7 DEF Next, Steward, Creations

(* the store of secrets, *)
LEMMA StoreTyped ==
  ASSUME IInv, [Next]_vars
  PROVE  store' \in Stores
<1> USE PeopleAssumption, DepsAssumption DEF IInv, Typed, Holders, People, Ids, Stores, Works,
    Records, Turns, Settlings, ClaimTyped, FilesTyped, RestTyped, Working, Deploying, Deploys,
    Installed, Outcomes, Active, NoDep, machine, files, memory, NoStore
<1>1. ASSUME SshLay \/ PrepareStore PROVE store' \in Stores
  <2>1. store' = [store EXCEPT !.there = TRUE]
    BY <1>1 DEF SshLay, PrepareStore
  <2> QED
    BY <2>1
<1>2. ASSUME Undo PROVE store' \in Stores
  <2>1. store' = store \/ store' = NoStore
    BY <1>2 DEF Undo
  <2>2. NoStore \in Stores
    OBVIOUS
  <2> HIDE DEF NoStore
  <2> QED
    BY <2>1, <2>2
<1>3. ASSUME NEW t \in Tokens, TokenWrite(t) PROVE store' \in Stores
  <2>1. store' = [there |-> TRUE, by |-> store.by \cup {t}]
    BY <1>3 DEF TokenWrite
  <2> QED
    BY <2>1
<1>4. ASSUME OwnerWrite PROVE store' \in Stores
  <2>1. PICK b \in SUBSET (Tokens \cup {Owner}) : store' = [there |-> TRUE, by |-> b]
    BY <1>4 DEF OwnerWrite
  <2> QED
    BY <2>1
<1>5. ASSUME Adopt PROVE store' \in Stores
  BY <1>5 DEF Adopt, TakesBack, NoTurn, DeployingNow
<1>6. ASSUME Remove PROVE store' \in Stores
  BY <1>6 DEF Remove, NoStore, Counts
<1>7. ASSUME (\E t \in Tokens, d \in Deps : Judge(t, d)) \/ Note \/ Claim \/ Own \/ Start \/ SshAsk
      \/ SshDeposit \/ SshStops \/ (\E t \in Tokens : RecordMade(t)) \/ OwnMade \/ OwnerWrote
      \/ Release \/ LetPeopleGo \/ DropNote \/ SeesMachine \/ SeesOutcome \/ SeesStore \/ SeesActive
      \/ Drop \/ Forget \/ SettleBegins \/ SettleEnds \/ (\E d \in Deps : GracePasses(d))
      \/ StewardStops \/ InstallerStops \/ Reboot \/ Begin \/ LayTree \/ SayLaid \/ JudgeStoreOwn
      \/ Deposit \/ Fail \/ Succeed PROVE store' \in Stores
  BY <1>7 DEF Judge, NoTurn, Note, TurnTo, Claim, Own, Start, Resting, SshAsk, Counts, SshDeposit,
     OnMachine, SshStops, RecordMade, OwnMade, OwnerWrote, TakesBack, Release, LetPeopleGo, DropNote,
     SeesMachine, SeesOutcome, SeesStore, SeesActive, Drop, NoClaim, Forget, SettleBegins,
     SettleEnds, NotSettling, GracePasses, StewardStops, Forgotten, InstallerStops, Reboot, Begin,
     Ends, LayTree, SayLaid, JudgeStoreOwn, Deposit, Fail, Succeed
<1>8. CASE UNCHANGED vars
  BY <1>8 DEF vars
<1> HIDE DEF IInv, Typed, Holders, People, Ids, Stores, Works, Records, Turns, Settlings, ClaimTyped,
    FilesTyped, RestTyped, Working, Deploying, Deploys, Installed, Outcomes, Active, NoDep, machine,
    files, memory, NoStore
<1> QED
  BY <1>1, <1>2, <1>3, <1>4, <1>5, <1>6, <1>7, <1>8 DEF Next, Steward, Creations, Installer

(* the creation being settled, *)
LEMMA SettlingTyped ==
  ASSUME IInv, [Next]_vars
  PROVE  settling' \in Settlings
<1> USE PeopleAssumption, DepsAssumption DEF IInv, Typed, Holders, People, Ids, Stores, Works,
    Records, Turns, Settlings, ClaimTyped, FilesTyped, RestTyped, Working, Deploying, Deploys,
    Installed, Outcomes, Active, NoDep, machine, files, memory
<1>1. ASSUME SettleBegins PROVE settling' \in Settlings
  <2>1. PICK c \in creations :
          settling' = [pc |-> "judge", dep |-> c.dep, token |-> c.token, outcome |-> OutcomeOf(c.dep)]
    BY <1>1 DEF SettleBegins
  <2>2. c.dep \in Deps /\ c.token \in Tokens
    OBVIOUS
  <2>3. OutcomeOf(c.dep) \in Outcomes
    BY <2>2, OutcomeSaid
  <2> HIDE DEF Outcomes
  <2> QED
    BY <2>1, <2>2, <2>3
<1>2. ASSUME SettleEnds PROVE settling' \in Settlings
  BY <1>2 DEF SettleEnds, NotSettling
<1>3. ASSUME StewardStops \/ Reboot PROVE settling' \in Settlings
  BY <1>3 DEF StewardStops, Forgotten, NoTurn, NotSettling, Reboot, Resting
<1>4. ASSUME (\E t \in Tokens, d \in Deps : Judge(t, d)) \/ Note \/ Claim \/ Own \/ Start \/ SshAsk
      \/ SshLay \/ SshDeposit \/ SshStops \/ (\E t \in Tokens : TokenWrite(t))
      \/ (\E t \in Tokens : RecordMade(t)) \/ OwnMade \/ OwnerWrite \/ OwnerWrote \/ Adopt \/ Remove
      \/ Release \/ LetPeopleGo \/ DropNote \/ SeesMachine \/ SeesOutcome \/ SeesStore \/ SeesActive
      \/ Drop \/ Forget \/ (\E d \in Deps : GracePasses(d)) \/ InstallerStops \/ Begin \/ LayTree
      \/ SayLaid \/ PrepareStore \/ JudgeStoreOwn \/ Deposit \/ Fail \/ Undo \/ Succeed PROVE settling' \in Settlings
  BY <1>4 DEF Judge, NoTurn, Note, TurnTo, Claim, Own, Start, Resting, SshAsk, Counts, SshLay,
     OnMachine, SshDeposit, SshStops, TokenWrite, RecordMade, OwnMade, OwnerWrite, OwnerWrote,
     TakesBack, Adopt, DeployingNow, Remove, NoStore, Release, LetPeopleGo, DropNote, SeesMachine,
     SeesOutcome, SeesStore, SeesActive, Drop, NoClaim, Forget, GracePasses, InstallerStops, Begin,
     Ends, LayTree, SayLaid, PrepareStore, JudgeStoreOwn, Deposit, Fail, Undo, Succeed
<1>5. CASE UNCHANGED vars
  BY <1>5 DEF vars
<1> HIDE DEF IInv, Typed, Holders, People, Ids, Stores, Works, Records, Turns, Settlings, ClaimTyped,
    FilesTyped, RestTyped, Working, Deploying, Deploys, Installed, Outcomes, Active, NoDep, machine,
    files, memory
<1> QED
  BY <1>1, <1>2, <1>3, <1>4, <1>5 DEF Next, Steward, Creations, Installer

(* the steward's other files, and the deployments it accepted, *)
LEMMA FilesTypedStep ==
  ASSUME IInv, [Next]_vars
  PROVE  FilesTyped'
<1> USE PeopleAssumption, DepsAssumption DEF IInv, Typed, Holders, People, Ids, Stores, Works,
    Records, Turns, Settlings, ClaimTyped, FilesTyped, RestTyped, Working, Deploying, Deploys,
    Installed, Outcomes, Active, NoDep, machine, files, memory
<1>1. ASSUME NEW t \in Tokens, NEW d \in Deps, Judge(t, d) PROVE FilesTyped'
  BY <1>1 DEF Judge, NoTurn
<1>2. ASSUME Note PROVE FilesTyped'
  BY <1>2 DEF Note, TurnTo
<1>3. ASSUME DropNote PROVE FilesTyped'
  BY <1>3 DEF DropNote, TurnTo
<1>4. ASSUME SettleEnds PROVE FilesTyped'
  BY <1>4 DEF SettleEnds, NotSettling
<1>5. ASSUME Own PROVE FilesTyped'
  BY <1>5 DEF Own, TurnTo
<1>6. ASSUME OwnMade PROVE FilesTyped'
  BY <1>6 DEF OwnMade, NoTurn
<1>7. ASSUME Forget PROVE FilesTyped'
  BY <1>7 DEF Forget, NoTurn
<1>8. ASSUME LetPeopleGo PROVE FilesTyped'
  BY <1>8 DEF LetPeopleGo
<1>9. ASSUME SeesMachine \/ SeesOutcome \/ SeesStore \/ SeesActive PROVE FilesTyped'
  BY <1>9 DEF SeesMachine, NoTurn, OnMachine, SeesOutcome, SeesStore, SeesActive
<1>10. ASSUME Drop \/ Claim \/ Start \/ (\E t \in Tokens : RecordMade(t)) PROVE FilesTyped'
  BY <1>10 DEF Drop, TurnTo, NoClaim, Claim, Start, NoTurn, Resting, RecordMade, OnMachine
<1>11. ASSUME SshAsk \/ SshLay \/ SshDeposit \/ SshStops \/ (\E t \in Tokens : TokenWrite(t))
       \/ OwnerWrite \/ OwnerWrote \/ Adopt \/ Remove \/ Release \/ SettleBegins PROVE FilesTyped'
  BY <1>11 DEF SshAsk, Counts, SshLay, OnMachine, SshDeposit, SshStops, TokenWrite, OwnerWrite,
     OwnerWrote, TakesBack, NoTurn, Adopt, DeployingNow, Remove, NoStore, Release, SettleBegins
<1>12. ASSUME NEW d \in Deps, GracePasses(d) PROVE FilesTyped'
  BY <1>12 DEF GracePasses
<1>13. ASSUME StewardStops \/ InstallerStops \/ Reboot PROVE FilesTyped'
  BY <1>13 DEF StewardStops, Forgotten, NoTurn, NotSettling, InstallerStops, Resting, Reboot
<1>14. CASE Installer
  BY <1>14, InstallerWrites
<1>15. CASE UNCHANGED vars
  BY <1>15 DEF vars
<1> HIDE DEF IInv, Typed, Holders, People, Ids, Stores, Works, Records, Turns, Settlings, ClaimTyped,
    FilesTyped, RestTyped, Working, Deploying, Deploys, Installed, Outcomes, Active, NoDep, machine,
    files, memory
<1> QED
  BY <1>1, <1>2, <1>3, <1>4, <1>5, <1>6, <1>7, <1>8, <1>9, <1>10, <1>11, <1>12, <1>13, <1>14,
     <1>15 DEF Next, Steward, Creations

(* what is on the machine and in the steward's memory, *)
LEMMA RestTypedStep ==
  ASSUME IInv, [Next]_vars
  PROVE  RestTyped'
<1> USE PeopleAssumption, DepsAssumption DEF IInv, Typed, Holders, People, Ids, Stores, Works,
    Records, Turns, Settlings, ClaimTyped, FilesTyped, RestTyped, Working, Deploying, Deploys,
    Installed, Outcomes, Active, NoDep, machine, files, memory
<1>1. ASSUME LayTree \/ Undo PROVE RestTyped'
  BY <1>1 DEF LayTree, Ends, Resting, OnMachine, Undo, NoStore
<1>2. ASSUME SshLay \/ Remove PROVE RestTyped'
  BY <1>2 DEF SshLay, OnMachine, Remove, NoStore, Counts
<1>3. ASSUME SshAsk \/ SshDeposit \/ SshStops PROVE RestTyped'
  BY <1>3 DEF SshAsk, Counts, SshDeposit, OnMachine, SshStops
<1>4. ASSUME Begin \/ SayLaid \/ PrepareStore \/ JudgeStoreOwn \/ Deposit \/ Fail \/ Succeed PROVE RestTyped'
  BY <1>4 DEF Begin, Ends, Resting, SayLaid, PrepareStore, JudgeStoreOwn, Deposit, Fail, Succeed
<1>5. ASSUME (\E t \in Tokens : TokenWrite(t)) \/ (\E t \in Tokens : RecordMade(t)) PROVE RestTyped'
  BY ZenonT(40), <1>5 DEF TokenWrite, Counts, OnMachine, RecordMade, NoTurn
<1>6. ASSUME OwnerWrite PROVE RestTyped'
  BY <1>6 DEF OwnerWrite, Counts, OnMachine
<1>7. ASSUME OwnerWrote PROVE RestTyped'
  BY <1>7 DEF OwnerWrote, TakesBack, NoTurn, OnMachine
<1>8. ASSUME Adopt \/ Release PROVE RestTyped'
  BY ZenonT(40), <1>8 DEF Adopt, TakesBack, NoTurn, DeployingNow, Release
<1>9. ASSUME LetPeopleGo PROVE RestTyped'
  BY <1>9 DEF LetPeopleGo
<1>10. ASSUME Drop PROVE RestTyped'
  BY <1>10 DEF Drop, TurnTo, NoClaim
<1>11. ASSUME (\E t \in Tokens, d \in Deps : Judge(t, d)) \/ Note \/ Claim \/ Own \/ Start
       \/ OwnMade \/ DropNote \/ SeesMachine \/ SeesOutcome \/ SeesStore \/ SeesActive \/ Forget
       PROVE RestTyped'
  BY ZenonT(40), <1>11 DEF Judge, NoTurn, Note, TurnTo, Claim, Own, Start, Resting, OwnMade, DropNote,
     SeesMachine, OnMachine, SeesOutcome, SeesStore, SeesActive, Forget
<1>12. ASSUME SettleBegins \/ SettleEnds \/ (\E d \in Deps : GracePasses(d)) \/ InstallerStops
       PROVE RestTyped'
  BY <1>12 DEF SettleBegins, SettleEnds, NotSettling, GracePasses, InstallerStops, Resting
<1>13. ASSUME StewardStops \/ Reboot PROVE RestTyped'
  BY <1>13 DEF StewardStops, Forgotten, NoTurn, NotSettling, Reboot, Resting
<1>14. CASE UNCHANGED vars
  BY <1>14 DEF vars
<1> HIDE DEF IInv, Typed, Holders, People, Ids, Stores, Works, Records, Turns, Settlings, ClaimTyped,
    FilesTyped, RestTyped, Working, Deploying, Deploys, Installed, Outcomes, Active, NoDep, machine,
    files, memory
<1> QED
  BY <1>1, <1>2, <1>3, <1>4, <1>5, <1>6, <1>7, <1>8, <1>9, <1>10, <1>11, <1>12, <1>13,
     <1>14 DEF Next, Steward, Creations, Installer

(* and the results. *)
LEMMA ResultsTyped ==
  ASSUME IInv, [Next]_vars
  PROVE  result' \in Results
<1> USE PeopleAssumption, DepsAssumption DEF IInv, Typed, Holders, People, Ids, Stores, Works,
    Records, Turns, Settlings, ClaimTyped, FilesTyped, RestTyped, Working, Deploying, Deploys,
    Installed, Outcomes, Active, NoDep, machine, files, memory, Results, Absent, States
<1>1. ASSUME Reboot PROVE result' \in Results
  BY <1>1 DEF Reboot, Forgotten, NoTurn, NotSettling, Resting
<1>2. ASSUME (\E t \in Tokens, d \in Deps : Judge(t, d)) \/ Note \/ Claim \/ Own \/ Start \/ SshAsk
      \/ SshLay \/ SshDeposit \/ SshStops \/ (\E t \in Tokens : TokenWrite(t))
      \/ (\E t \in Tokens : RecordMade(t)) \/ OwnMade \/ OwnerWrite \/ OwnerWrote \/ Adopt \/ Remove
      \/ Release \/ LetPeopleGo \/ DropNote \/ SeesMachine \/ SeesOutcome \/ SeesStore \/ SeesActive
      \/ Drop \/ Forget \/ SettleBegins \/ SettleEnds \/ (\E d \in Deps : GracePasses(d))
      \/ StewardStops \/ InstallerStops PROVE result' \in Results
  BY <1>2 DEF Judge, NoTurn, Note, TurnTo, Claim, Own, Start, Resting, SshAsk, Counts, SshLay,
     OnMachine, SshDeposit, SshStops, TokenWrite, RecordMade, OwnMade, OwnerWrite, OwnerWrote,
     TakesBack, Adopt, DeployingNow, Remove, NoStore, Release, LetPeopleGo, DropNote, SeesMachine,
     SeesOutcome, SeesStore, SeesActive, Drop, NoClaim, Forget, SettleBegins, SettleEnds,
     NotSettling, GracePasses, StewardStops, Forgotten, InstallerStops
<1>3. CASE Installer
  BY <1>3, InstallerWrites
<1>4. CASE UNCHANGED vars
  BY <1>4 DEF vars
<1> HIDE DEF IInv, Typed, Holders, People, Ids, Stores, Works, Records, Turns, Settlings, ClaimTyped,
    FilesTyped, RestTyped, Working, Deploying, Deploys, Installed, Outcomes, Active, NoDep, machine,
    files, memory, Results, Absent, States
<1> QED
  BY <1>1, <1>2, <1>3, <1>4 DEF Next, Steward, Creations

LEMMA TypedStep ==
  ASSUME IInv, [Next]_vars
  PROVE  Typed'
  BY ResultsTyped, TurnTyped, WorksTyped, ClaimTypedStep, StoreTyped, SettlingTyped, FilesTypedStep,
     RestTypedStep DEF Typed


(* The inductive invariant, whatever overlaps and wherever the steward stops. *)
LEMMA StepIInv == IInv /\ [Next]_vars => IInv'
  BY TypedStep, FreshStep, DeployingStep, WorkingStep, NotedStep, EarnedStep, JudgingStep DEF IInv


(* Only what an SSH deployment is about to lay could come between a removal
   and the claim: the removal waits for it. *)
LEMMA LaidByItsStep ==
  ASSUME Overlap = FALSE, IInv, LaidByIts, [Next]_vars
  PROVE  LaidByIts'
<1> USE PeopleAssumption, DepsAssumption DEF LaidByIts, Still, Put, IInv, Typed, Holders, People,
    Ids, Stores, Works, Records, Turns, Settlings, ClaimTyped, FilesTyped, RestTyped, Deploying,
    Deploys, Working, Mine, Absent, Active, NoDep, machine, files, memory, Installed, Results,
    States
<1>1. ASSUME NEW t \in Tokens, NEW d \in Deps, Judge(t, d) PROVE LaidByIts'
  BY <1>1 DEF Judge, NoTurn
<1>2. ASSUME Note PROVE LaidByIts'
  BY <1>2 DEF Note, TurnTo
<1>3. ASSUME Claim PROVE LaidByIts'
  BY <1>3 DEF Claim, TurnTo
<1>4. ASSUME Own PROVE LaidByIts'
  BY <1>4 DEF Own, TurnTo
<1>5. ASSUME Start PROVE LaidByIts'
  <2>1. CASE UNCHANGED installer
    BY <1>5, <2>1 DEF Start, NoTurn
  <2>2. CASE installer' = [Resting EXCEPT !.pc = "start", !.token = turn.token, !.dep = turn.dep]
    <3>1. installer'.pc = "start" /\ installer'.token = turn.token /\ installer'.dep = turn.dep
      BY <2>2 DEF Resting
    <3> QED
      BY <1>5, <3>1 DEF Start, NoTurn
  <2> QED
    BY <1>5, <2>1, <2>2 DEF Start
<1>6. ASSUME NEW t \in Tokens, RecordMade(t) PROVE LaidByIts'
  BY <1>6 DEF RecordMade, OnMachine, NoTurn
<1>7. ASSUME NEW d \in Deps, GracePasses(d) PROVE LaidByIts'
  BY <1>7 DEF GracePasses
<1>8. ASSUME Reboot PROVE LaidByIts'
  BY <1>8 DEF Reboot, Forgotten, NoTurn, NotSettling, Resting
<1>9. ASSUME InstallerStops PROVE LaidByIts'
  BY <1>9 DEF InstallerStops, Resting
<1>10. ASSUME StewardStops PROVE LaidByIts'
  BY <1>10 DEF StewardStops, Forgotten, NoTurn, NotSettling
<1>11. ASSUME SshAsk PROVE LaidByIts'
  <2>1. claim = NoClaim /\ owner = Nobody
    BY <1>11 DEF SshAsk, Holder, Released, NoClaim
  <2> QED
    BY <1>11, <2>1 DEF SshAsk, NoClaim
<1>12. ASSUME SshDeposit \/ SshStops \/ OwnerWrite \/ LetPeopleGo PROVE LaidByIts'
  BY <1>12 DEF SshDeposit, OnMachine, SshStops, Counts, OwnerWrite, LetPeopleGo
<1>13. ASSUME SshLay PROVE LaidByIts'
  BY <1>13 DEF SshLay, OnMachine
<1>14. ASSUME NEW t \in Tokens, TokenWrite(t) PROVE LaidByIts'
  BY <1>14 DEF TokenWrite, Counts, OnMachine
<1>15. ASSUME Remove PROVE LaidByIts'
  BY <1>15 DEF Remove, NoStore, Counts
<1>16. ASSUME OwnMade PROVE LaidByIts'
  BY <1>16 DEF OwnMade, NoTurn
<1>17. ASSUME OwnerWrote \/ Adopt \/ Release PROVE LaidByIts'
  BY <1>17 DEF OwnerWrote, TakesBack, NoTurn, OnMachine, Adopt, DeployingNow, Release
<1>18. ASSUME DropNote \/ SeesMachine \/ SeesOutcome \/ SeesStore \/ SeesActive \/ Forget
       PROVE LaidByIts'
  BY <1>18 DEF DropNote, TurnTo, SeesMachine, NoTurn, OnMachine, SeesOutcome, SeesStore, SeesActive,
     Forget
<1>19. ASSUME Drop PROVE LaidByIts'
  BY <1>19 DEF Drop, TurnTo, NoClaim
<1>20. ASSUME SettleBegins \/ SettleEnds PROVE LaidByIts'
  BY <1>20 DEF SettleBegins, SettleEnds, NotSettling
<1>21. ASSUME Begin PROVE LaidByIts'
  BY <1>21 DEF Begin, Ends, Resting
<1>22. ASSUME LayTree PROVE LaidByIts'
  BY <1>22 DEF LayTree, Ends, Resting, OnMachine
<1>23. ASSUME SayLaid PROVE LaidByIts'
  BY <1>23 DEF SayLaid
<1>24. ASSUME PrepareStore \/ JudgeStoreOwn PROVE LaidByIts'
  BY <1>24 DEF PrepareStore, JudgeStoreOwn
<1>25. ASSUME Deposit PROVE LaidByIts'
  BY <1>25 DEF Deposit
<1>26. ASSUME Fail PROVE LaidByIts'
  BY <1>26 DEF Fail, Ends, Resting
<1>27. ASSUME Undo PROVE LaidByIts'
  BY <1>27 DEF Undo, Ends, Resting, NoStore
<1>28. ASSUME Succeed PROVE LaidByIts'
  BY <1>28 DEF Succeed, Ends, Resting
<1>29. CASE UNCHANGED vars
  BY <1>29 DEF vars
<1> HIDE DEF LaidByIts, Still, Put, IInv, Typed, Holders, People, Ids, Stores, Works, Records, Turns,
    Settlings, ClaimTyped, FilesTyped, RestTyped, Deploying, Deploys, Working, Mine, Absent, Active,
    NoDep, machine, files, memory, Installed, Results, States
<1> QED
  BY <1>1, <1>2, <1>3, <1>4, <1>5, <1>6, <1>7, <1>8, <1>9, <1>10, <1>11, <1>12, <1>13, <1>14, <1>15,
     <1>16, <1>17, <1>18, <1>19, <1>20, <1>21, <1>22, <1>23, <1>24, <1>25, <1>26, <1>27, <1>28,
     <1>29 DEF Next, Steward, Creations, Installer

(* A claim goes without its holder only when the holder was credited. *)
LEMMA UnclaimedStep ==
  ASSUME Overlap = FALSE, Torn = FALSE, IInv, LaidByIts, Unclaimed, [Next]_vars
  PROVE  Unclaimed'
<1> USE PeopleAssumption, DepsAssumption DEF Unclaimed, Letting, NoClaim, Judging, Credits,
    LaidByIts, Still, Put, IInv, Typed, Holders, People, Ids, Stores, Works, Records, Turns,
    Settlings, ClaimTyped, FilesTyped, RestTyped, Deploying, Deploys, Working, Mine, Absent, Active,
    NoDep, machine, files, memory, Installed, Results, States
<1>1. ASSUME NEW t \in Tokens, NEW d \in Deps, Judge(t, d) PROVE Unclaimed'
  BY <1>1 DEF Judge, NoTurn
<1>2. ASSUME Note PROVE Unclaimed'
  BY <1>2 DEF Note, TurnTo
<1>3. ASSUME Claim PROVE Unclaimed'
  BY <1>3 DEF Claim, TurnTo
<1>4. ASSUME Own PROVE Unclaimed'
  BY <1>4 DEF Own, TurnTo
<1>5. ASSUME Start PROVE Unclaimed'
  <2>1. CASE UNCHANGED installer
    BY <1>5, <2>1 DEF Start, NoTurn
  <2>2. CASE installer' = [Resting EXCEPT !.pc = "start", !.token = turn.token, !.dep = turn.dep]
    <3>1. installer'.pc = "start" /\ installer'.token = turn.token /\ installer'.dep = turn.dep
      BY <2>2 DEF Resting
    <3> QED
      BY <1>5, <3>1 DEF Start, NoTurn
  <2> QED
    BY <1>5, <2>1, <2>2 DEF Start
<1>6. ASSUME NEW t \in Tokens, RecordMade(t) PROVE Unclaimed'
  BY <1>6 DEF RecordMade, OnMachine, NoTurn
<1>7. ASSUME NEW d \in Deps, GracePasses(d) PROVE Unclaimed'
  BY <1>7 DEF GracePasses
<1>8. ASSUME Reboot PROVE Unclaimed'
  BY <1>8 DEF Reboot, Forgotten, NoTurn, NotSettling, Resting
<1>9. ASSUME InstallerStops PROVE Unclaimed'
  BY <1>9 DEF InstallerStops, Resting
<1>10. ASSUME StewardStops PROVE Unclaimed'
  BY <1>10 DEF StewardStops, Forgotten, NoTurn, NotSettling
<1>11. ASSUME SshAsk PROVE Unclaimed'
  <2>1. claim = NoClaim /\ owner = Nobody
    BY <1>11 DEF SshAsk, Holder, Released, NoClaim
  <2> QED
    BY <1>11, <2>1 DEF SshAsk, NoClaim
<1>12. ASSUME SshDeposit \/ SshStops \/ OwnerWrite \/ LetPeopleGo PROVE Unclaimed'
  BY <1>12 DEF SshDeposit, OnMachine, SshStops, Counts, OwnerWrite, LetPeopleGo
<1>13. ASSUME SshLay PROVE Unclaimed'
  BY <1>13 DEF SshLay, OnMachine
<1>14. ASSUME NEW t \in Tokens, TokenWrite(t) PROVE Unclaimed'
  BY <1>14 DEF TokenWrite, Counts, OnMachine
<1>15. ASSUME Remove PROVE Unclaimed'
  BY <1>15 DEF Remove, NoStore, Counts
<1>16. ASSUME OwnMade PROVE Unclaimed'
  BY <1>16 DEF OwnMade, NoTurn
<1>17. ASSUME OwnerWrote \/ Adopt \/ Release PROVE Unclaimed'
  BY <1>17 DEF OwnerWrote, TakesBack, NoTurn, OnMachine, Adopt, DeployingNow, Release
<1>18. ASSUME DropNote \/ SeesMachine \/ SeesOutcome \/ SeesStore \/ SeesActive \/ Forget
       PROVE Unclaimed'
  BY <1>18 DEF DropNote, TurnTo, SeesMachine, NoTurn, OnMachine, SeesOutcome, SeesStore, SeesActive,
     Forget
<1>19. ASSUME Drop PROVE Unclaimed'
  BY <1>19 DEF Drop, TurnTo, NoClaim
<1>20. ASSUME SettleBegins \/ SettleEnds PROVE Unclaimed'
  BY <1>20 DEF SettleBegins, SettleEnds, NotSettling
<1>21. ASSUME Begin PROVE Unclaimed'
  BY <1>21 DEF Begin, Ends, Resting
<1>22. ASSUME LayTree PROVE Unclaimed'
  BY <1>22 DEF LayTree, Ends, Resting, OnMachine
<1>23. ASSUME SayLaid PROVE Unclaimed'
  BY <1>23 DEF SayLaid
<1>24. ASSUME PrepareStore \/ JudgeStoreOwn PROVE Unclaimed'
  BY <1>24 DEF PrepareStore, JudgeStoreOwn
<1>25. ASSUME Deposit PROVE Unclaimed'
  BY <1>25 DEF Deposit
<1>26. ASSUME Fail PROVE Unclaimed'
  BY <1>26 DEF Fail, Ends, Resting
<1>27. ASSUME Undo PROVE Unclaimed'
  BY <1>27 DEF Undo, Ends, Resting, NoStore
<1>28. ASSUME Succeed PROVE Unclaimed'
  BY <1>28 DEF Succeed, Ends, Resting
<1>29. CASE UNCHANGED vars
  BY <1>29 DEF vars
<1> HIDE DEF Unclaimed, Letting, NoClaim, Judging, Credits, LaidByIts, Still, Put, IInv, Typed,
    Holders, People, Ids, Stores, Works, Records, Turns, Settlings, ClaimTyped, FilesTyped,
    RestTyped, Deploying, Deploys, Working, Mine, Absent, Active, NoDep, machine, files, memory,
    Installed, Results, States
<1> QED
  BY <1>1, <1>2, <1>3, <1>4, <1>5, <1>6, <1>7, <1>8, <1>9, <1>10, <1>11, <1>12, <1>13, <1>14, <1>15,
     <1>16, <1>17, <1>18, <1>19, <1>20, <1>21, <1>22, <1>23, <1>24, <1>25, <1>26, <1>27, <1>28,
     <1>29 DEF Next, Steward, Creations, Installer

-----------------------------------------------------------------------------
LEMMA InitInv == Init => IInv /\ LaidByIts /\ Unclaimed
<1> USE PeopleAssumption DEF NoClaim, NoStore, Resting, NoTurn, NotSettling, Absent, NoDep
<1> SUFFICES ASSUME Init PROVE IInv /\ LaidByIts /\ Unclaimed
  OBVIOUS
<1>1. Typed
  BY DEF Init, Typed, Holders, People, Ids, Stores, Works, Records, Turns, Settlings, ClaimTyped,
     FilesTyped, RestTyped, Results, States, Installed, Deploys, Outcomes
<1>2. Fresh /\ Deploying /\ Working /\ Noted /\ Earned /\ Judging
  BY DEF Init, Fresh, Deploying, Deploys, Working, Active, Noted, Earned, Judging
<1>3. LaidByIts /\ Unclaimed
  BY DEF Init, LaidByIts, Installed, Unclaimed
<1> QED
  BY <1>1, <1>2, <1>3 DEF IInv

(* Every reachable state of the machine, the steward's files and its memory  *)
(* is of its type; the installer at work is that of an accepted deployment, *)
(* whose result nothing has ended.                                          *)
THEOREM TypeCorrect == Spec => []TypeOK
<1>1. IInv => TypeOK
  BY DEF IInv, Typed, Holders, People, Ids, Stores, Records, ClaimTyped, FilesTyped, RestTyped,
     Results, States, Working, TypeOK, Active
<1> QED
  BY <1>1, InitInv, StepIInv, PTL DEF Spec

(* Whom the name is held by: its claim's credited deployer, or no claim's. *)
LEMMA HeldFromInv == IInv /\ LaidByIts /\ Unclaimed => HeldWasLaid
<1> SUFFICES ASSUME IInv, LaidByIts, Unclaimed, turn.pc # "forget", OnMachine, Holder # Nobody
             PROVE  laidBy = Holder
  BY DEF HeldWasLaid
<1>1. Holder = owner /\ owner # Nobody /\ ~Released
  BY DEF Holder
<1>2. CASE claim = NoClaim
  BY <1>1, <1>2 DEF Unclaimed, Letting, Still, OnMachine
<1>3. CASE claim # NoClaim
  <2>1. claim.deployer = owner /\ ClaimOutcome \in Credits
    BY <1>1, <1>3 DEF Released, Credited, Credits
  <2>2. claim.dep # NoDep /\ OutcomeOf(claim.dep) \in Credits
    BY <2>1 DEF ClaimOutcome, Credits
  <2>3. Put(claim.dep)
    BY <2>2, CreditedRests
  <2> QED
    BY <1>1, <2>1, <2>2, <2>3 DEF LaidByIts, Still, OnMachine
<1> QED
  BY <1>2, <1>3

(* A token holds a project of the machine only if its own deployment laid   *)
(* its folder, for any number of tokens, deployments, writes, removals and  *)
(* stops; not when the steward may stop between its two files, nor when a   *)
(* project is removed while the owner deploys it.                           *)
THEOREM HoldersLaid ==
  ASSUME Overlap = FALSE, Torn = FALSE
  PROVE  Spec => []HeldWasLaid
<1>1. (IInv /\ LaidByIts /\ Unclaimed) /\ [Next]_vars => (IInv /\ LaidByIts /\ Unclaimed)'
  BY StepIInv, LaidByItsStep, UnclaimedStep
<1> QED
  BY <1>1, InitInv, HeldFromInv, PTL DEF Spec

(* A creation credited is the claim's, whose folder is in place. *)
LEMMA AdminLaid ==
  ASSUME IInv, LaidByIts, [Next]_vars, admin' \notin {admin, Nobody}
  PROVE  laidBy = admin'
<1>1. SettleEnds
  <2>1. CASE Installer
    BY <2>1, InstallerWrites
  <2>2. CASE Steward
    BY <2>2 DEF Steward, Note, Claim, Own, Start, OwnMade, OwnerWrote, DropNote, SeesMachine,
       SeesOutcome,
       SeesStore, SeesActive, Drop, Forget, LetPeopleGo, RecordMade, files
  <2>3. CASE ~Installer /\ ~Steward
    BY <2>3 DEF Next, Creations, Judge, TokenWrite, GracePasses, SettleBegins, SshAsk, SshLay,
       SshDeposit,
       OwnerWrite, Adopt, Remove, Release, StewardStops, InstallerStops, SshStops, Reboot, vars,
          files
  <2> QED
    BY <2>1, <2>2, <2>3
<1>2. Earns /\ admin' = settling.token
  BY <1>1 DEF SettleEnds
<1>3. settling.pc = "judge" /\ settling.outcome \in Credits
  BY <1>1, <1>2 DEF SettleEnds, Earns, Credits
<1>4. Put(settling.dep) /\ [dep |-> settling.dep, token |-> settling.token] \in creations
  BY <1>3 DEF IInv, Earned
<1>5. Mine(settling.dep, settling.token)
  BY <1>4 DEF IInv, Noted, Put, Absent
<1>6. settling.dep # NoDep
  BY <1>4, DepsAssumption DEF IInv, Typed, FilesTyped, NoDep
<1> QED
  BY <1>2, <1>4, <1>5, <1>6 DEF LaidByIts, Still, Mine, Earns, OnMachine

(* A person is made Admin of a project only if their token's creation laid  *)
(* it, wherever the steward stops, between its two files included.          *)
THEOREM AdminsCreated ==
  ASSUME Overlap = FALSE
  PROVE  Spec => AdminCreated
<1>1. (IInv /\ LaidByIts) /\ [Next]_vars => (IInv /\ LaidByIts)'
  BY StepIInv, LaidByItsStep
<1>2. (IInv /\ LaidByIts) /\ [Next]_vars => (admin' \notin {admin, Nobody} => laidBy = admin')
  BY AdminLaid
<1> QED
  BY <1>1, <1>2, InitInv, PTL DEF Spec, AdminCreated

=============================================================================
