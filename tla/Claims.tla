------------------------------- MODULE Claims -------------------------------
(***************************************************************************)
(* Whose a name is: the tokens' registry and its claims                     *)
(* (dashboard/src/control/claims.ts), a person's creation noted             *)
(* (creations.ts), and the steward that writes both files, the registry and *)
(* the people with access one after the other (control/steward.ts), while   *)
(* the installer, the owner's deployment over SSH and the owner's and the   *)
(* tokens' writes into the store of secrets change the machine.  One name;  *)
(* every token is a person's, and may create.                               *)
(***************************************************************************)
EXTENDS Naturals

CONSTANTS
    Tokens,     \* the tokens
    Owner,      \* the owner of the machine
    Nobody,     \* no one
    Deps,       \* the ids of the deployments, each used once, in order
    Bound,      \* how many of each kind of event may happen
    MaxEvents,  \* and how many of all kinds
    Torn,       \* may the steward stop between the claims and the registry?
    Overlap     \* may the owner remove a project while deploying it, having asked whose it is?

Kinds == {"ssh", "ownerWrite", "tokenWrite", "remove", "stop"}

ASSUME PeopleAssumption == Owner \notin Tokens /\ Nobody \notin Tokens \cup {Owner}
ASSUME DepsAssumption == Deps \subseteq Nat \ {0}
ASSUME BoundAssumption == Bound \in [Kinds -> Nat] /\ MaxEvents \in Nat
ASSUME GapsAssumption == Torn \in BOOLEAN /\ Overlap \in BOOLEAN

VARIABLES
    \* the machine
    laidBy,     \* who laid /srv/sites/<name>; Nobody when it is not there
    project,    \* whose manifest it carries
    store,      \* the store of secrets: is it there, and who wrote in it ahead of the project
    installer,  \* the deployment at work
    result,     \* what each deployment's result says
    ssh,        \* the owner's deployment: "idle", "asked", "laid"
    \* the steward's files
    owner,      \* owners[name] of the tokens' registry
    claim,      \* claims.json
    creations,  \* creations.json
    admin,      \* whose person the registry of people made Admin
    \* the steward
    turn,       \* the work that has the turn of the tokens' queue
    settling,   \* the creation being settled, in the creations' turn
    made,       \* the tokens whose write made the store, not recorded yet
    told,       \* the owner's write into the store: "no", "told", "taking" the name back
    leaving,    \* are the people of a project removed still to be let go?
    old,        \* the deployments accepted longer ago than the grace
    used,       \* the deployments accepted
    done        \* how many events of each kind there were

machine == <<laidBy, project, store, installer, result, ssh>>
files == <<owner, claim, creations, admin>>
memory == <<turn, settling, made, told, leaving>>
vars == <<machine, files, memory, old, used, done>>

NoDep == 0
NoClaim == [creator |-> Nobody, deployer |-> Nobody, dep |-> NoDep]
Absent == [state |-> "absent", laid |-> FALSE]
NoStore == [there |-> FALSE, by |-> {}]
Resting == [pc |-> "idle", token |-> Nobody, dep |-> NoDep, stores |-> FALSE]
NoTurn == [pc |-> "idle", token |-> Nobody, dep |-> NoDep, seen |-> FALSE, noting |-> FALSE,
           outcome |-> "none", forget |-> FALSE, drop |-> FALSE]
NotSettling == [pc |-> "idle", dep |-> NoDep, token |-> Nobody, outcome |-> "none"]

Init ==
    /\ laidBy = Nobody /\ project = Nobody /\ store = NoStore
    /\ installer = Resting
    /\ result = [d \in Deps |-> Absent]
    /\ ssh = "idle"
    /\ owner = Nobody /\ claim = NoClaim /\ creations = {} /\ admin = Nobody
    /\ turn = NoTurn /\ settling = NotSettling /\ made = {} /\ told = "no" /\ leaving = FALSE
    /\ old = {} /\ used = {}
    /\ done = [k \in Kinds |-> 0]

Events == done["ssh"] + done["ownerWrite"] + done["tokenWrite"] + done["remove"] + done["stop"]
Counts(k) == done[k] < Bound[k] /\ Events < MaxEvents /\ done' = [done EXCEPT ![k] = @ + 1]

OnMachine == laidBy # Nobody
Active == installer.pc # "idle"
TurnTo(pc) == turn' = [turn EXCEPT !.pc = pc]

(***************************************************************************)
(* outcomeOf: how a deployment went, as its result says, or its absence     *)
(* past the grace.  Results are on tmpfs: a reboot takes them.              *)
(***************************************************************************)
OutcomeOf(d) ==
    LET r == result[d]
        over == d \in old /\ ~Active
    IN  CASE r.state = "absent"    -> IF over THEN "ended" ELSE "under-way"
          [] r.state = "running"   -> IF ~over THEN "under-way" ELSE IF r.laid THEN "laid" ELSE "ended"
          [] r.state = "succeeded" -> "succeeded"
          [] r.state = "failed"    -> IF r.laid THEN "laid" ELSE "ended"

ClaimOutcome == IF claim.dep = NoDep THEN "none" ELSE OutcomeOf(claim.dep)

(* Slip: how the deployment ended is not asked.                             *)
CreditedDeployer(holder, outcome) == holder # Nobody /\ claim.deployer = holder

\* credited: the project is the holder's own deployment's.
Credited(holder, outcome) ==
    holder # Nobody /\ claim.deployer = holder /\ outcome \in {"succeeded", "laid"}

\* releasedNow, and holderOf: whom the registry names, unless released.
Released == OnMachine /\ claim # NoClaim /\ ~Credited(owner, ClaimOutcome)
Holder == IF Released THEN Nobody ELSE owner

DeployingNow == Active \/ ClaimOutcome = "under-way"

\* leftoversReason: a store there is a leftover to every token but its maker.
Leftover(t) == store.there /\ claim.creator # t

------------------------------------------------------------------------------
(* A deployment that creates the name, accepted by the steward *)

(* decideSlug and judgeDeployment, in the tokens' queue.                    *)
Judge(t, d) ==
    /\ turn.pc = "idle" /\ d \in Deps \ used /\ \A e \in Deps \ used : d <= e
    /\ ~OnMachine /\ Holder \in {Nobody, t} /\ ~Leftover(t) /\ ~Active
    /\ turn' = [NoTurn EXCEPT !.pc = "note", !.token = t, !.dep = d]
    /\ used' = used \cup {d}
    /\ UNCHANGED <<machine, files, settling, made, told, leaving, old, done>>

\* notePending, in the creations' turn, which the tokens' queue waits on.
Note ==
    /\ turn.pc = "note" /\ settling.pc = "idle"
    /\ creations' = {[dep |-> turn.dep, token |-> turn.token]}
    /\ TurnTo("claim")
    /\ UNCHANGED <<machine, owner, claim, admin, settling, made, told, leaving, old, used, done>>

Claim ==
    /\ turn.pc = "claim"
    /\ claim' = [claim EXCEPT !.deployer = turn.token, !.dep = turn.dep]
    /\ TurnTo("own")
    /\ UNCHANGED <<machine, owner, creations, admin, settling, made, told, leaving, old, used, done>>

Own ==
    /\ turn.pc = "own"
    /\ owner' = turn.token
    /\ TurnTo("start")
    /\ UNCHANGED <<machine, claim, creations, admin, settling, made, told, leaving, old, used, done>>

(* The request written, and its unit started, or not.                       *)
Start ==
    /\ turn.pc = "start"
    /\ \/ installer' = [Resting EXCEPT !.pc = "start", !.token = turn.token, !.dep = turn.dep]
       \/ UNCHANGED installer
    /\ turn' = NoTurn
    /\ UNCHANGED <<laidBy, project, store, result, ssh, files, settling, made, told, leaving, old, used, done>>

------------------------------------------------------------------------------
(* The installer, for a creation *)

Ends(state) ==
    /\ result' = [result EXCEPT ![installer.dep].state = state]
    /\ installer' = Resting

Begin ==
    /\ installer.pc = "start"
    /\ IF project # Nobody THEN Ends("failed")
       ELSE /\ result' = [result EXCEPT ![installer.dep].state = "running"]
            /\ installer' = [installer EXCEPT !.pc = "tree"]
    /\ UNCHANGED <<laidBy, project, store, ssh, files, memory, old, used, done>>

(* prepareTree: a folder already there is taken meanwhile.                  *)
LayTree ==
    /\ installer.pc = "tree"
    /\ IF OnMachine THEN Ends("failed") /\ UNCHANGED laidBy
       ELSE /\ laidBy' = installer.token
            /\ installer' = [installer EXCEPT !.pc = "say"]
            /\ UNCHANGED result
    /\ UNCHANGED <<project, store, ssh, files, memory, old, used, done>>

SayLaid ==
    /\ installer.pc = "say"
    /\ result' = [result EXCEPT ![installer.dep].laid = TRUE]
    /\ installer' = [installer EXCEPT !.pc = "store"]
    /\ UNCHANGED <<laidBy, project, store, ssh, files, memory, old, used, done>>

(* prepareStore: the store laid, or already there and to be judged.         *)
PrepareStore ==
    /\ installer.pc = "store"
    /\ store' = [store EXCEPT !.there = TRUE]
    /\ installer' = [installer EXCEPT !.pc = IF store.there THEN "judge" ELSE "install", !.stores = ~store.there]
    /\ UNCHANGED <<laidBy, project, result, ssh, files, memory, old, used, done>>

(* judgeStoreOwn: a store already there is this token's when the claims say *)
(* that its write made it.                                                  *)
JudgeStoreOwn ==
    /\ installer.pc = "judge"
    /\ installer' = [installer EXCEPT !.pc = IF claim.creator = installer.token THEN "install" ELSE "undo"]
    /\ UNCHANGED <<laidBy, project, store, result, ssh, files, memory, old, used, done>>

(* The token's code runs, `install` first; then the files and the manifest  *)
(* are put in place, past which nothing is undone.                          *)
Deposit ==
    /\ installer.pc = "install" /\ OnMachine
    /\ project' = installer.token
    /\ installer' = [installer EXCEPT !.pc = "served"]
    /\ UNCHANGED <<laidBy, store, result, ssh, files, memory, old, used, done>>

Fail ==
    /\ \/ installer.pc \in {"store", "judge", "install"} /\ installer' = [installer EXCEPT !.pc = "undo"] /\ UNCHANGED result
       \/ installer.pc = "served" /\ Ends("failed")
    /\ UNCHANGED <<laidBy, project, store, ssh, files, memory, old, used, done>>

(* undoCreation: what it laid, unless a manifest was deposited meanwhile.   *)
Undo ==
    /\ installer.pc = "undo"
    /\ IF project # Nobody THEN Ends("failed") /\ UNCHANGED <<laidBy, store>>
       ELSE /\ laidBy' = Nobody
            /\ store' = IF installer.stores /\ store.by = {} THEN NoStore ELSE store
            /\ result' = [result EXCEPT ![installer.dep] = [state |-> "failed", laid |-> FALSE]]
            /\ installer' = Resting
    /\ UNCHANGED <<project, ssh, files, memory, old, used, done>>

Succeed ==
    /\ installer.pc = "served"
    /\ Ends("succeeded")
    /\ UNCHANGED <<laidBy, project, store, ssh, files, memory, old, used, done>>

------------------------------------------------------------------------------
(* The owner over SSH *)

(* settleClaim: no token holds the name, none of its deployments runs.      *)
SshAsk ==
    /\ ssh = "idle" /\ Counts("ssh")
    /\ Holder = Nobody /\ claim = NoClaim /\ ~DeployingNow
    /\ ssh' = "asked"
    /\ UNCHANGED <<laidBy, project, store, installer, result, files, memory, old, used>>

SshLay ==
    /\ ssh = "asked"
    /\ laidBy' = IF OnMachine THEN laidBy ELSE Owner
    /\ store' = [store EXCEPT !.there = TRUE]
    /\ ssh' = "laid"
    /\ UNCHANGED <<project, installer, result, files, memory, old, used, done>>

SshDeposit ==
    /\ ssh = "laid"
    /\ ssh' = "idle"
    /\ project' = IF OnMachine THEN Owner ELSE project
    /\ UNCHANGED <<laidBy, store, installer, result, files, memory, old, used, done>>

------------------------------------------------------------------------------
(* The store, written ahead of the project *)

(* A token's write: judged as the creation would be, under the store's lock.*)
TokenWrite(t) ==
    /\ Counts("tokenWrite")
    /\ ~OnMachine /\ Holder \in {Nobody, t} /\ ~Leftover(t)
    /\ store' = [there |-> TRUE, by |-> store.by \cup {t}]
    /\ made' = IF store.there THEN made ELSE made \cup {t}
    /\ UNCHANGED <<laidBy, project, installer, result, ssh, files, turn, settling, told, leaving, old, used>>

(* recordStoreMade: the claim, then the registry.                           *)
RecordMade(t) ==
    /\ turn.pc = "idle" /\ t \in made
    /\ made' = made \ {t}
    /\ IF OnMachine THEN UNCHANGED <<claim, turn>>
       ELSE /\ claim' = [claim EXCEPT !.creator = t]
            /\ turn' = [NoTurn EXCEPT !.pc = "ownMade", !.token = t]
    /\ UNCHANGED <<machine, owner, creations, admin, settling, told, leaving, old, used, done>>

OwnMade ==
    /\ turn.pc = "ownMade"
    /\ owner' = IF owner = Nobody THEN turn.token ELSE owner
    /\ turn' = NoTurn
    /\ UNCHANGED <<machine, claim, creations, admin, settling, made, told, leaving, old, used, done>>

(* The owner's write under a name the machine does not carry: a store that  *)
(* a token's write made is moved aside first.                               *)
OwnerWrite ==
    /\ Counts("ownerWrite") /\ ~OnMachine
    /\ store' = [there |-> TRUE, by |-> {Owner} \cup IF claim.creator = Nobody THEN store.by ELSE {}]
    /\ told' = "told"
    /\ UNCHANGED <<laidBy, project, installer, result, ssh, files, turn, settling, made, leaving, old, used>>

(* ownerWroteStore, once the write was answered: the name is taken back,    *)
(* unless the machine carries it by then.                                   *)
TakesBack == [NoTurn EXCEPT !.pc = "dropNote", !.drop = TRUE, !.forget = TRUE]
OwnerWrote ==
    /\ told = "told" /\ turn.pc = "idle"
    /\ LET nothing == OnMachine \/ (owner = Nobody /\ claim = NoClaim)
       IN  /\ turn' = IF nothing THEN turn ELSE TakesBack
           /\ told' = IF nothing THEN "no" ELSE "taking"
    /\ UNCHANGED <<machine, files, settling, made, leaving, old, used, done>>

(* DELETE /tokens/claim, for `sitesolide deploy --adopt`: refused while a   *)
(* deployment runs; the store is moved aside.                               *)
Adopt ==
    /\ turn.pc = "idle" /\ ~DeployingNow
    /\ owner # Nobody \/ claim # NoClaim
    /\ store' = [store EXCEPT !.by = {}]
    /\ turn' = TakesBack
    /\ UNCHANGED <<laidBy, project, installer, result, ssh, files, settling, made, told, leaving, old, used, done>>

------------------------------------------------------------------------------
(* The project removed, then let go by the steward (releaseRemoved). *)
Remove ==
    /\ turn.pc = "idle" /\ project # Nobody /\ ~Active /\ Counts("remove")
    /\ ssh # "idle" => Overlap
    /\ laidBy' = Nobody /\ project' = Nobody /\ store' = NoStore
    /\ UNCHANGED <<installer, result, ssh, files, memory, old, used>>

Release ==
    /\ turn.pc = "idle" /\ ~OnMachine /\ done["remove"] > 0
    /\ turn' = TakesBack
    /\ leaving' = TRUE
    /\ UNCHANGED <<machine, files, settling, made, told, old, used, done>>

\* Its people, once the registry has let its token go.
LetPeopleGo ==
    /\ leaving /\ turn.pc \notin {"dropNote", "drop", "forget"}
    /\ admin' = Nobody
    /\ leaving' = FALSE
    /\ UNCHANGED <<machine, owner, claim, creations, turn, settling, made, told, old, used, done>>

------------------------------------------------------------------------------
(* Names settled, and what is taken back *)

\* dropPending.
DropNote ==
    /\ turn.pc = "dropNote" /\ settling.pc = "idle"
    /\ creations' = {}
    /\ TurnTo("drop")
    /\ UNCHANGED <<machine, owner, claim, admin, settling, made, told, leaving, old, used, done>>

(* settleNames: the facts, read one after the other.                        *)
SeesMachine ==
    /\ turn.pc = "idle" /\ settling.pc = "idle"
    /\ owner # Nobody \/ claim # NoClaim
    /\ turn' = [NoTurn EXCEPT !.pc = "outcome", !.seen = OnMachine, !.noting = creations # {}]
    /\ UNCHANGED <<machine, files, settling, made, told, leaving, old, used, done>>

SeesOutcome ==
    /\ turn.pc = "outcome"
    /\ turn' = [turn EXCEPT !.pc = "store", !.outcome = ClaimOutcome,
                            !.noting = @ \/ ClaimOutcome = "under-way"]
    /\ UNCHANGED <<machine, files, settling, made, told, leaving, old, used, done>>

\* settle.
Settle(stored) ==
    LET pending == turn.noting
    IN  [forget |-> owner # Nobody /\ ~pending /\
                       IF turn.seen THEN claim # NoClaim /\ ~Credited(owner, turn.outcome)
                                    ELSE ~stored \/ claim.creator # owner,
         drop   |-> claim # NoClaim /\ ~pending /\ (turn.seen \/ ~stored \/ claim.creator = Nobody)]

SeesStore ==
    /\ turn.pc = "store"
    /\ LET settled == Settle(store.there)
       IN  turn' = [turn EXCEPT !.pc = "active", !.forget = settled.forget, !.drop = settled.drop]
    /\ UNCHANGED <<machine, files, settling, made, told, leaving, old, used, done>>

\* Asked last, of what would be let go: an installer still at work.
SeesActive ==
    /\ turn.pc = "active"
    /\ turn' = IF Active /\ ~turn.seen THEN NoTurn ELSE [turn EXCEPT !.pc = "drop"]
    /\ UNCHANGED <<machine, files, settling, made, told, leaving, old, used, done>>

(* The claims are written, then the registry.                               *)
Drop ==
    /\ turn.pc = "drop"
    /\ claim' = IF turn.drop THEN NoClaim ELSE claim
    /\ told' = IF told = "taking" THEN "no" ELSE told
    /\ TurnTo("forget")
    /\ UNCHANGED <<machine, owner, creations, admin, settling, made, leaving, old, used, done>>

Forget ==
    /\ turn.pc = "forget"
    /\ owner' = IF turn.forget THEN Nobody ELSE owner
    /\ turn' = NoTurn
    /\ UNCHANGED <<machine, claim, creations, admin, settling, made, told, leaving, old, used, done>>

------------------------------------------------------------------------------
(* Creations settled, in their turn *)

SettleBegins ==
    /\ settling.pc = "idle"
    /\ \E c \in creations :
          /\ OutcomeOf(c.dep) # "under-way"
          /\ settling' = [pc |-> "judge", dep |-> c.dep, token |-> c.token, outcome |-> OutcomeOf(c.dep)]
    /\ UNCHANGED <<machine, files, turn, made, told, leaving, old, used, done>>

(* Slip: how the creation went is not asked.                                *)
EarnsCarried == OnMachine /\ owner = settling.token

Earns == OnMachine /\ settling.outcome \in {"succeeded", "laid"} /\ owner = settling.token

(* Its person is made Admin, unless somebody has access; it is dropped.     *)
SettleEnds ==
    /\ settling.pc = "judge"
    /\ admin' = IF Earns /\ admin = Nobody THEN settling.token ELSE admin
    /\ creations' = {c \in creations : c.dep # settling.dep}
    /\ settling' = NotSettling
    /\ UNCHANGED <<machine, owner, claim, turn, made, told, leaving, old, used, done>>

------------------------------------------------------------------------------
(* The grace passes, within which a deployment accepted has started.        *)
GracePasses(d) ==
    /\ d \in used \ old /\ turn.dep # d
    /\ old' = old \cup {d}
    /\ UNCHANGED <<machine, files, memory, used, done>>

(* The steward is stopped, and started: what it had in memory is lost.      *)
Forgotten ==
    /\ turn.pc = "forget" => Torn
    /\ turn' = NoTurn /\ settling' = NotSettling /\ made' = {} /\ told' = "no" /\ leaving' = FALSE

StewardStops ==
    /\ Counts("stop") /\ Forgotten
    /\ UNCHANGED <<machine, files, old, used>>

InstallerStops ==
    /\ Counts("stop") /\ Active
    /\ installer' = Resting
    /\ UNCHANGED <<laidBy, project, store, result, ssh, files, memory, old, used>>

SshStops ==
    /\ Counts("stop") /\ ssh # "idle"
    /\ ssh' = "idle"
    /\ UNCHANGED <<laidBy, project, store, installer, result, files, memory, old, used>>

Reboot ==
    /\ Counts("stop") /\ Forgotten
    /\ installer' = Resting
    /\ result' = [d \in Deps |-> Absent]
    /\ ssh' = "idle"
    /\ UNCHANGED <<laidBy, project, store, files, old, used>>

Steward ==
    \/ Note \/ Claim \/ Own \/ Start \/ OwnMade \/ OwnerWrote
    \/ DropNote \/ SeesMachine \/ SeesOutcome \/ SeesStore \/ SeesActive \/ Drop \/ Forget
    \/ LetPeopleGo
    \/ \E t \in Tokens : RecordMade(t)

Creations == SettleBegins \/ SettleEnds

Installer == Begin \/ LayTree \/ SayLaid \/ PrepareStore \/ JudgeStoreOwn \/ Deposit \/ Fail \/ Undo \/ Succeed

Next ==
    \/ \E t \in Tokens, d \in Deps : Judge(t, d)
    \/ \E t \in Tokens : TokenWrite(t)
    \/ \E d \in Deps : GracePasses(d)
    \/ Steward \/ Creations \/ Installer
    \/ SshAsk \/ SshLay \/ SshDeposit \/ OwnerWrite \/ Adopt \/ Remove \/ Release
    \/ StewardStops \/ InstallerStops \/ SshStops \/ Reboot

Spec == Init /\ [][Next]_vars

(* The steward's queues go on, its settling is called at every tick, the    *)
(* installer ends and the grace passes; people ask for what they want.      *)
FairSpec ==
    /\ Spec /\ WF_vars(Steward) /\ WF_vars(Creations) /\ WF_vars(Installer)
    /\ \A d \in Deps : WF_vars(GracePasses(d))

------------------------------------------------------------------------------
(* Types: who and what each file names is one there is; the installer at    *)
(* work is that of an accepted deployment, whose result nothing has ended.  *)
TypeOK ==
    /\ {laidBy, project} \subseteq Tokens \cup {Owner, Nobody}
    /\ {owner, admin, claim.creator, claim.deployer} \subseteq Tokens \cup {Nobody}
    /\ store.there \in BOOLEAN /\ store.by \subseteq Tokens \cup {Owner}
    /\ result \in [Deps -> [state : {"absent", "running", "succeeded", "failed"}, laid : BOOLEAN]]
    /\ claim.dep \in used \cup {NoDep} /\ old \subseteq used /\ used \subseteq Deps
    /\ \A c \in creations : c.dep \in used /\ c.token \in Tokens
    /\ Active => installer.dep \in used /\ result[installer.dep].state \in {"absent", "running"}
    /\ claim.deployer = Nobody <=> claim.dep = NoDep

(* A token holds a project of the machine only if its own deployment laid   *)
(* its folder: the owner's project is nobody's, whatever a token claimed of *)
(* the name before, asked of the store, or had running meanwhile            *)
(* (claims.ts, `released` and `credited`).  Judged between two turns of the *)
(* tokens' queue, in which every deployment is judged: within one, the      *)
(* claims are written before the registry.                                  *)
HeldWasLaid == turn.pc # "forget" /\ OnMachine /\ Holder # Nobody => laidBy = Holder

(* A person is made Admin of a project only if their token's creation laid  *)
(* it: of the owner's, of another's, of one relaid since, never             *)
(* (settleCreations).                                                       *)
AdminCreated == [][admin' \notin {admin, Nobody} => laidBy = admin']_vars

(* No code of a token runs over what the owner wrote in the store ahead of  *)
(* the project: a write of the owner's takes the name back "even while a    *)
(* deployment of it by the token runs, which its installer then refuses"    *)
(* (steward.ts:1764-1766; pipeline.ts, judgeStoreOwn).                      *)
StoreOwn == installer.pc \in {"install", "served"} => Owner \notin store.by

(* Under FairSpec, of one token and one deployment with every overlap and   *)
(* stop: a name with nothing on the machine is free again, in the end, held *)
(* by no token, however its deployment ended (claims.ts, `settle`).         *)
Empty == ~OnMachine /\ ~store.there
GivenBack == [](Empty => <>(~Empty \/ owner = Nobody))

=============================================================================
