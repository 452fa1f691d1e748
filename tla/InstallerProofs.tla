--------------------------- MODULE InstallerProofs ---------------------------
(***************************************************************************)
(* Proofs about Installer, for any projects and ports, and any number of    *)
(* runs of each kind and of faults.                                         *)
(***************************************************************************)
EXTENDS Installer, TLAPS, SequenceTheorems

TokenPcs == {"idle", "asked", "prepare", "units", "lock", "block", "reload", "place", "deposit",
             "restart", "verify", "undoUnits", "undoTree", "removeTree", "undoAccount"}
SshPcs == {"idle", "prepare", "push", "lock", "block", "deposit", "restart"}
LifePcs == {"idle", "asked", "mark", "stop", "aside", "block", "reload", "start", "verify",
            "deleteUnits", "deleteTree", "undo"}
Undos == {"manifest", "start", "stop", "public", "block"}

Manifests == {NoManifest} \cup [port : Ports, portal : BOOLEAN, off : BOOLEAN]

(* The state of the machine, and of each run.                               *)
MachineTypes ==
    /\ manifest \in [Slugs -> Manifests]
    /\ public \in [Slugs -> SUBSET {"shown", "stale", "aside"}]
    /\ tree \in [Slugs -> BOOLEAN] /\ account \in [Slugs -> BOOLEAN]
    /\ unit \in [Slugs -> BOOLEAN] /\ running \in [Slugs -> BOOLEAN]
    /\ block \in [Slugs -> Blocks] /\ loaded \in [Slugs -> Blocks]
    /\ backup \subseteq Slugs
    /\ done \in [Kinds -> Nat]

TokenRun == [pc : TokenPcs, creating : BOOLEAN, port : Ports \cup {0}, door : BOOLEAN,
             made : SUBSET {"account", "tree", "unit"}, was : Blocks]
SshRun == [pc : SshPcs, port : Ports \cup {0}, door : BOOLEAN]
LifeRun == [pc : LifePcs, action : {"disable", "enable", "remove"}, was : Blocks,
            undos : Seq(Undos), tried : BOOLEAN, failed : BOOLEAN]

RunTypes ==
    /\ token \in [Slugs -> TokenRun] /\ ssh \in [Slugs -> SshRun] /\ life \in [Slugs -> LifeRun]
    /\ \A s \in Slugs :
          /\ token[s].pc \notin {"idle", "asked"} => token[s].port \in Ports
          /\ ssh[s].pc # "idle" => ssh[s].port \in Ports

(* The steps a run makes under the lock, which it then holds.               *)
TokenLocked(s) ==
    \/ token[s].pc \in {"block", "reload", "place", "deposit"}
    \/ token[s].pc = "restart" /\ ~token[s].door
SshLocked(s) ==
    \/ ssh[s].pc \in {"block", "deposit"}
    \/ ssh[s].pc = "push" /\ ssh[s].door
    \/ ssh[s].pc = "restart" /\ ~ssh[s].door

Holders ==
    \A s \in Slugs :
       /\ TokenLocked(s) => lock = <<"token", s>>
       /\ lock = <<"token", s>> => token[s].pc \in {"block", "reload", "place", "deposit", "restart", "verify"}
       /\ SshLocked(s) <=> lock = <<"ssh", s>>
       /\ LifecycleActive(s) <=> lock = <<"life", s>>

(* What was compared under the lock still holds under it.                   *)
Compared ==
    \A s \in Slugs :
       /\ TokenLocked(s) => /\ token[s].port \notin Taken(s)
                            /\ ~manifest[s].off
                            /\ ~token[s].door => ~manifest[s].portal
       /\ SshLocked(s) => /\ ssh[s].port \notin Taken(s)
                          /\ ~ssh[s].door => ~manifest[s].portal
       /\ LifecycleActive(s) => s \in Deposited

Trees == \A s \in Slugs : s \in Deposited \/ public[s] # {} => tree[s]

(* A tree a run laid was not there: no run of the lifecycle is about it, and *)
(* its owner has not turned it off; only such a run undoes a creation.      *)
CreationAt(s) ==
    /\ token[s].pc \in {"idle", "asked"} => token[s].made = {}
    /\ token[s].pc \in {"undoUnits", "undoTree", "removeTree", "undoAccount"} => "tree" \in token[s].made
    /\ "tree" \in token[s].made => life[s].pc = "idle" /\ ~manifest[s].off
    /\ life[s].pc # "idle" => s \in Deposited
Creations == \A s \in Slugs : CreationAt(s)

Running == MachineTypes /\ RunTypes /\ Holders /\ Compared /\ Trees /\ Creations /\ PortsApart

(* A removal is one all along, and a run at rest has nothing to undo.       *)
RemovalAt(s) ==
    /\ life[s].pc \in {"aside", "deleteUnits", "deleteTree"} => life[s].action = "remove"
    /\ life[s].pc = "mark" => life[s].action # "remove"
    /\ life[s].pc \in {"idle", "asked"} => life[s].undos = <<>>
Removals == \A s \in Slugs : RemovalAt(s)

(* Until it deletes, a run has what it undoes to: its pushed steps put the  *)
(* block back before the files, and without a fault to the block there was. *)
Undoable(s) == LifecycleActive(s) /\ life[s].pc \notin {"deleteUnits", "deleteTree"}

(* Caddy has loaded the blocks there are, unless a backup says otherwise:   *)
(* then those of the others, and what a run has not reloaded is as it was.  *)
Loaded ==
    /\ backup = {} => loaded = block
    /\ \A s \in Slugs :
          /\ token[s].pc = "reload" \/ LifecycleActive(s) =>
                backup = {s} /\ \A t \in Slugs \ {s} : loaded[t] = block[t]
          /\ life[s].pc \in {"start", "verify", "deleteUnits", "deleteTree"} => loaded[s] = block[s]
          /\ Undoable(s) /\ ~life[s].tried => loaded[s] = life[s].was

NoneOf(undo, q) == \A i \in 1..Len(q) : q[i] # undo

WayBackAt(s) ==
    LET q == life[s].undos IN
    /\ life[s].pc \in {"mark", "stop", "aside", "block"} => NoneOf("block", q)
    /\ \A i \in 1..Len(q) : q[i] = "public" => life[s].was # "none"
    /\ \A i, j \in 1..Len(q) : q[i] = "public" /\ q[j] = "block" => i < j
    /\ Undoable(s) /\ (done["undo"] = 0 \/ ~life[s].failed) /\ NoneOf("block", q) => block[s] = life[s].was
WayBack == \A s \in Slugs : WayBackAt(s)

(* b may be the block of s: it is not open, nor absent with files in sight. *)
Hidden(s, b) ==
    manifest[s].portal =>
       /\ b # "open"
       /\ done["undo"] = 0 /\ b = "none" => "shown" \notin public[s] \/ "stale" \in public[s]

(* The door is closed before anything is shown behind it, and stays so in   *)
(* whatever a run may put back.                                             *)
ClosedAt(s) ==
    /\ Hidden(s, block[s]) /\ (manifest[s].portal => loaded[s] # "open")
    /\ token[s].pc \in {"reload", "place", "deposit"} /\ token[s].door => block[s] = "closed"
    /\ token[s].pc \in {"place", "deposit"} /\ token[s].door => loaded[s] = "closed"
    /\ ssh[s].pc \in {"push", "deposit"} /\ ssh[s].door => block[s] = "closed" /\ loaded[s] = "closed"
    /\ token[s].pc = "reload" => Hidden(s, token[s].was)
    /\ Undoable(s) => Hidden(s, life[s].was)
    /\ life[s].pc = "block" /\ life[s].action = "remove" => Hidden(s, "none")
Closed == \A s \in Slugs : ClosedAt(s)

IInv == Running /\ Removals /\ Loaded /\ WayBack /\ Closed

-----------------------------------------------------------------------------
LEMMA PortsAre == Ports \subseteq Nat /\ 0 \notin Ports
BY PortsAssumption

LEMMA Begun ==
  ASSUME NEW k \in Kinds, done \in [Kinds -> Nat], Begins(k)
  PROVE /\ done' \in [Kinds -> Nat] /\ done'[k] = done[k] + 1
        /\ \A j \in Kinds : done'[j] = 0 => done[j] = 0
BY DEF Begins

LEMMA DepositedIs == \A s \in Slugs : s \in Deposited <=> manifest[s] # NoManifest
BY DEF Deposited

(* A manifest deposited is a record of a port, and none is not.             *)
LEMMA ManifestIs ==
  ASSUME NEW m \in Manifests
  PROVE /\ m.portal \in BOOLEAN /\ m.off \in BOOLEAN
        /\ m # NoManifest => m.port \in Ports /\ m \in [port : Ports, portal : BOOLEAN, off : BOOLEAN]
        /\ m.port \in Ports => m # NoManifest
<1>1. CASE m = NoManifest BY <1>1, PortsAre DEF NoManifest
<1>2. CASE m \in [port : Ports, portal : BOOLEAN, off : BOOLEAN]
  <2>1. m.port # NoManifest.port BY <1>2, PortsAre DEF NoManifest
  <2> QED BY <1>2, <2>1
<1> QED BY <1>1, <1>2 DEF Manifests

LEMMA OwnBlockIs == ASSUME NEW m PROVE OwnBlock(m) \in Blocks /\ OwnBlock(m) # "none"
BY DEF OwnBlock, Blocks

-----------------------------------------------------------------------------
(* The runs: what each step makes of its own, and of no other.              *)
LEMMA TokenBecomes ==
  ASSUME RunTypes, NEW s \in Slugs, NEW v \in TokenRun, token' = [token EXCEPT ![s] = v],
         v.pc \notin {"idle", "asked"} => v.port \in Ports, UNCHANGED <<ssh, life>>
  PROVE RunTypes' /\ token'[s] = v /\ \A t \in Slugs \ {s} : token'[t] = token[t]
BY DEF RunTypes

LEMMA NoTokenIs == NoToken \in TokenRun /\ NoToken.pc = "idle"
BY DEF NoToken, TokenRun, TokenPcs, Blocks

LEMMA StoppedIs ==
  ASSUME NEW t \in TokenRun
  PROVE /\ Stopped(t) \in TokenRun /\ Stopped(t).pc \in {"idle", "undoUnits"}
        /\ Stopped(t).pc = "undoUnits" => Stopped(t).port = t.port
BY NoTokenIs DEF Stopped, TokenRun, TokenPcs

TokenOnly(s) == UNCHANGED <<ssh, life>> /\ \A t \in Slugs \ {s} : token'[t] = token[t]
SshOnly(s) == UNCHANGED <<token, life>> /\ \A t \in Slugs \ {s} : ssh'[t] = ssh[t]
LifeOnly(s) == UNCHANGED <<token, ssh>> /\ \A t \in Slugs \ {s} : life'[t] = life[t]

LEMMA TokenRuns ==
  ASSUME RunTypes, MachineTypes, NEW s \in Slugs, Token(s) \/ KillToken(s)
  PROVE RunTypes' /\ TokenOnly(s)
<1>1. UNCHANGED <<ssh, life>>
  BY DEF Token, KillToken, TokenAsked, TokenReads, TokenRefused, TokenPrepares, TokenGivesUp, TokenLays,
     TokenTakes, TokenIsOver, TokenWritesBlock, TokenReloads, TokenPutsBlockBack, TokenLeavesBlock, TokenPlaces,
     TokenDeposits, TokenRestarts, TokenUndoesUnits, TokenChecksTree, TokenRemovesTree, TokenUndoesAccount
<1> SUFFICES \E v \in TokenRun : /\ token' = [token EXCEPT ![s] = v]
                                 /\ v.pc \notin {"idle", "asked"} => v.port \in Ports
  BY <1>1, TokenBecomes DEF TokenOnly
<1> USE NoTokenIs
<1> DEFINE t == token[s]
<1>2. t \in TokenRun /\ (t.pc \notin {"idle", "asked"} => t.port \in Ports) BY DEF RunTypes
<1>3. \A pc \in TokenPcs : t.pc \notin {"idle", "asked"} /\ TokenTo(s, pc) =>
         \E v \in TokenRun : /\ token' = [token EXCEPT ![s] = v]
                             /\ v.pc \notin {"idle", "asked"} => v.port \in Ports
  <2> SUFFICES ASSUME NEW pc \in TokenPcs, t.pc \notin {"idle", "asked"}, TokenTo(s, pc)
               PROVE \E v \in TokenRun : /\ token' = [token EXCEPT ![s] = v]
                                         /\ v.pc \notin {"idle", "asked"} => v.port \in Ports
    OBVIOUS
  <2>1. token' = [token EXCEPT ![s] = [t EXCEPT !.pc = pc]] BY DEF TokenTo, RunTypes
  <2>2. [t EXCEPT !.pc = pc] \in TokenRun /\ [t EXCEPT !.pc = pc].port = t.port BY <1>2 DEF TokenRun
  <2> QED BY <1>2, <2>1, <2>2
<1>4. CASE \E creating \in BOOLEAN : TokenAsked(s, creating)
  <2>1. PICK creating \in BOOLEAN : TokenAsked(s, creating) BY <1>4
  <2> DEFINE v == [NoToken EXCEPT !.pc = "asked", !.creating = creating]
  <2>2. v \in TokenRun /\ v.pc = "asked" BY DEF NoToken, TokenRun, TokenPcs, Blocks
  <2>3. token' = [token EXCEPT ![s] = v] BY <2>1 DEF TokenAsked
  <2> HIDE DEF v
  <2> QED BY <2>2, <2>3
<1>5. CASE \E port \in Ports, door \in BOOLEAN : TokenReads(s, port, door)
  <2>1. PICK port \in Ports, door \in BOOLEAN : TokenReads(s, port, door) BY <1>5
  <2> DEFINE v == [t EXCEPT !.pc = "prepare", !.port = port, !.door = door]
  <2>2. v \in TokenRun /\ v.port \in Ports BY <1>2 DEF TokenRun, TokenPcs
  <2>3. token' = [token EXCEPT ![s] = v] BY <2>1 DEF TokenReads, RunTypes
  <2> HIDE DEF v
  <2> QED BY <2>2, <2>3
<1>6. CASE \/ TokenRefused(s) \/ TokenIsOver(s) \/ TokenPutsBlockBack(s) \/ TokenUndoesAccount(s) \/ KillToken(s)
           \/ \E left, seen \in Blocks : TokenLeavesBlock(s, left, seen)
  BY <1>6 DEF TokenRefused, TokenIsOver, TokenPutsBlockBack, TokenLeavesBlock, TokenEnds, TokenUndoesAccount, KillToken
<1>7. CASE TokenPrepares(s)
  <2> DEFINE made == {x \in {"account", "tree"} : IF x = "tree" THEN ~tree[s] ELSE ~account[s]}
             v == IF t.creating /\ tree[s] THEN NoToken ELSE [t EXCEPT !.pc = "units", !.made = made]
  <2>1. t.port \in Ports BY <1>2, <1>7 DEF TokenPrepares
  <2>2. v \in TokenRun /\ (v.pc \notin {"idle", "asked"} => v.port \in Ports) BY <1>2, <2>1 DEF TokenRun, TokenPcs
  <2>3. token' = [token EXCEPT ![s] = v] BY <1>7 DEF TokenPrepares
  <2> HIDE DEF v
  <2> QED BY <2>2, <2>3
<1>8. CASE TokenGivesUp(s)
  <2>1. token' = [token EXCEPT ![s] = Stopped(t)] /\ t.port \in Ports BY <1>2, <1>8 DEF TokenGivesUp
  <2> QED BY <1>2, <2>1, StoppedIs
<1>9. CASE TokenLays(s)
  <2> DEFINE made == IF unit[s] THEN t.made ELSE t.made \cup {"unit"}
             v == [t EXCEPT !.pc = "lock", !.made = made]
  <2>1. t.port \in Ports BY <1>2, <1>9 DEF TokenLays
  <2>2. v \in TokenRun /\ v.port \in Ports BY <1>2, <2>1 DEF TokenRun, TokenPcs
  <2>3. token' = [token EXCEPT ![s] = v] BY <1>9 DEF TokenLays, RunTypes
  <2> HIDE DEF v
  <2> QED BY <2>2, <2>3
<1>10. CASE TokenTakes(s)
  <2>1. t.port \in Ports BY <1>2, <1>10 DEF TokenTakes
  <2>2. CASE TokenTo(s, IF token[s].door THEN "block" ELSE "place") BY <1>3, <1>10, <2>2 DEF TokenTakes, TokenPcs
  <2>3. CASE token' = [token EXCEPT ![s] = Stopped(t)] BY <1>2, <2>1, <2>3, StoppedIs
  <2> QED BY <1>10, <2>2, <2>3 DEF TokenTakes
<1>11. CASE TokenWritesBlock(s)
  <2>1. t.pc = "block" BY <1>11 DEF TokenWritesBlock
  <2>2. CASE TokenTo(s, IF token[s].door THEN "place" ELSE "verify") BY <1>3, <2>1, <2>2 DEF TokenPcs
  <2>3. CASE token' = [token EXCEPT ![s].pc = "reload", ![s].was = block[s]]
    <3> DEFINE v == [t EXCEPT !.pc = "reload", !.was = block[s]]
    <3>1. v \in TokenRun /\ v.port \in Ports BY <1>2, <2>1 DEF TokenRun, TokenPcs, MachineTypes
    <3>2. token' = [token EXCEPT ![s] = v] BY <2>3 DEF RunTypes
    <3> HIDE DEF v
    <3> QED BY <3>1, <3>2
  <2> QED BY <1>11, <2>2, <2>3 DEF TokenWritesBlock
<1>12. CASE TokenReloads(s) \/ TokenPlaces(s) \/ TokenDeposits(s) \/ TokenRestarts(s) \/ TokenUndoesUnits(s)
  BY <1>3, <1>12 DEF TokenReloads, TokenPlaces, TokenDeposits, TokenRestarts, TokenUndoesUnits, TokenPcs
<1>13. CASE TokenChecksTree(s) \/ TokenRemovesTree(s)
  BY <1>3, <1>13 DEF TokenChecksTree, TokenRemovesTree, TokenPcs
<1> QED BY <1>4, <1>5, <1>6, <1>7, <1>8, <1>9, <1>10, <1>11, <1>12, <1>13 DEF Token

LEMMA SshBecomes ==
  ASSUME RunTypes, NEW s \in Slugs, NEW v \in SshRun, ssh' = [ssh EXCEPT ![s] = v],
         v.pc # "idle" => v.port \in Ports, UNCHANGED <<token, life>>
  PROVE RunTypes' /\ SshOnly(s)
BY DEF RunTypes, SshOnly

LEMMA SshRuns ==
  ASSUME RunTypes, NEW s \in Slugs, Ssh(s)
  PROVE RunTypes' /\ SshOnly(s)
<1>1. UNCHANGED <<token, life>>
  BY DEF Ssh, SshReads, SshPrepares, SshTakes, SshInstallsBlock, SshPushes, SshDeposits, SshRestarts, SshStops
<1> SUFFICES \E v \in SshRun : /\ ssh' = [ssh EXCEPT ![s] = v]
                               /\ v.pc # "idle" => v.port \in Ports
  BY <1>1, SshBecomes
<1>2. NoShell \in SshRun /\ NoShell.pc = "idle" BY DEF NoShell, SshRun, SshPcs
<1>3. CASE \E port \in Ports, door \in BOOLEAN : SshReads(s, port, door)
  <2>1. PICK port \in Ports, door \in BOOLEAN : SshReads(s, port, door) BY <1>3
  <2> DEFINE v == [pc |-> "prepare", port |-> port, door |-> door]
  <2>2. v \in SshRun /\ v.port \in Ports BY DEF SshRun, SshPcs
  <2>3. ssh' = [ssh EXCEPT ![s] = v] BY <2>1 DEF SshReads
  <2> HIDE DEF v
  <2> QED BY <2>2, <2>3
<1>4. CASE ssh' = [ssh EXCEPT ![s] = NoShell] BY <1>2, <1>4
<1>5. CASE ssh[s].pc # "idle" /\ \E pc \in SshPcs : SshTo(s, pc)
  <2>1. PICK pc \in SshPcs : SshTo(s, pc) BY <1>5
  <2> DEFINE v == [ssh[s] EXCEPT !.pc = pc]
  <2>2. ssh[s] \in SshRun /\ ssh[s].port \in Ports BY <1>5 DEF RunTypes
  <2>3. v \in SshRun /\ v.port \in Ports BY <2>2 DEF SshRun
  <2>4. ssh' = [ssh EXCEPT ![s] = v] BY <2>1 DEF SshTo, RunTypes
  <2> HIDE DEF v
  <2> QED BY <2>3, <2>4
<1> QED BY <1>3, <1>4, <1>5 DEF Ssh, SshPrepares, SshTakes, SshInstallsBlock, SshPushes, SshDeposits, SshRestarts,
           SshStops, SshPcs

LEMMA LifeBecomes ==
  ASSUME RunTypes, NEW s \in Slugs, NEW v \in LifeRun, life' = [life EXCEPT ![s] = v], UNCHANGED <<token, ssh>>
  PROVE RunTypes' /\ LifeOnly(s)
BY DEF RunTypes, LifeOnly

LEMMA ShorterIs ==
  ASSUME NEW q \in Seq(Undos), q # <<>>
  PROVE /\ AllButLast(q) \in Seq(Undos) /\ Len(AllButLast(q)) = Len(q) - 1 /\ Len(q) \in Nat \ {0}
        /\ \A i \in 1..Len(q) - 1 : AllButLast(q)[i] = q[i]
        /\ Last(q) = q[Len(q)] /\ Last(q) \in Undos
<1>1. Len(q) \in Nat /\ Len(q) > 0 BY EmptySeq, LenProperties
<1>2. PICK n \in Nat : n = Len(q) - 1 BY <1>1
<1>3. /\ SubSeq(q, 1, n) \in Seq(Undos) /\ Len(SubSeq(q, 1, n)) = n
      /\ \A i \in 1..n : SubSeq(q, 1, n)[i] = q[i]
  <2>1. n \in Int /\ 1 \in Int /\ \A i \in 1..n : q[i] \in Undos BY <1>1, <1>2, ElementOfSeq
  <2>2. /\ SubSeq(q, 1, n) \in Seq(Undos)
        /\ Len(SubSeq(q, 1, n)) = IF 1 <= n THEN n - 1 + 1 ELSE 0
        /\ \A i \in 1..n - 1 + 1 : SubSeq(q, 1, n)[i] = q[1 + i - 1]
    BY <2>1, SubSeqProperties
  <2>3. n - 1 + 1 = n /\ (1 <= n \/ n = 0) /\ \A i \in 1..n : 1 + i - 1 = i BY <1>2
  <2> QED BY <2>2, <2>3
<1>4. q[Len(q)] \in Undos BY <1>1, ElementOfSeq
<1> QED BY <1>1, <1>2, <1>3, <1>4 DEF AllButLast, Last

LEMMA LongerIs ==
  ASSUME NEW q \in Seq(Undos), NEW u \in Undos
  PROVE /\ Append(q, u) \in Seq(Undos) /\ Len(Append(q, u)) = Len(q) + 1 /\ Len(q) \in Nat
        /\ \A i \in 1..Len(q) : Append(q, u)[i] = q[i]
        /\ Append(q, u)[Len(q) + 1] = u
BY AppendProperties, LenProperties

LEMMA LifeRuns ==
  ASSUME RunTypes, MachineTypes, NEW s \in Slugs, Life(s) \/ KillLife(s)
  PROVE RunTypes' /\ LifeOnly(s)
<1>1. UNCHANGED <<token, ssh>>
  BY DEF Life, KillLife, LifeAsked, LifeTakes, LifeMarks, LifeStops, LifeSetsAside, LifeBlocks, LifeReloads,
     LifeStarts, LifeVerifies, LifeDeletesUnits, LifeDeletesTree, LifeFails, LifeUndoesBlock, LifeUndoesPublic,
     LifeUndoesServices, LifeUndoesManifest, LifeUndoFails, LifeUndone, LifeNotRestored
<1> SUFFICES \E v \in LifeRun : life' = [life EXCEPT ![s] = v]
  BY <1>1, LifeBecomes
<1> DEFINE l == life[s]
<1>2. l \in LifeRun /\ l.undos \in Seq(Undos) BY DEF RunTypes, LifeRun
<1>3. NoLife \in LifeRun BY DEF NoLife, LifeRun, LifePcs, Blocks
<1>4. CASE \E action \in {"disable", "enable", "remove"} : LifeAsked(s, action)
  <2>1. PICK action \in {"disable", "enable", "remove"} : LifeAsked(s, action) BY <1>4
  <2> DEFINE v == [NoLife EXCEPT !.pc = "asked", !.action = action]
  <2>2. v \in LifeRun BY <1>3 DEF LifeRun, LifePcs
  <2>3. life' = [life EXCEPT ![s] = v] BY <2>1 DEF LifeAsked
  <2> HIDE DEF v
  <2> QED BY <2>2, <2>3
<1>5. CASE life' = [life EXCEPT ![s] = NoLife] BY <1>3, <1>5
<1>6. CASE LifeTakes(s) /\ life' # [life EXCEPT ![s] = NoLife]
  <2> DEFINE v == [l EXCEPT !.pc = FirstStep(l.action), !.was = block[s]]
  <2>1. v \in LifeRun BY <1>2 DEF LifeRun, LifePcs, FirstStep, MachineTypes
  <2>2. life' = [life EXCEPT ![s] = v] BY <1>6 DEF LifeTakes, RunTypes
  <2> HIDE DEF v
  <2> QED BY <2>1, <2>2
<1>7. CASE \E pc \in LifePcs : LifeTo(s, pc)
  <2>1. PICK pc \in LifePcs : LifeTo(s, pc) BY <1>7
  <2> DEFINE v == [l EXCEPT !.pc = pc]
  <2>2. v \in LifeRun BY <1>2 DEF LifeRun
  <2>3. life' = [life EXCEPT ![s] = v] BY <2>1 DEF LifeTo, RunTypes
  <2> HIDE DEF v
  <2> QED BY <2>2, <2>3
<1>8. CASE \E undo \in Undos, pc \in LifePcs : LifeDoes(s, undo, pc)
  <2>1. PICK undo \in Undos, pc \in LifePcs : LifeDoes(s, undo, pc) BY <1>8
  <2> DEFINE v == [l EXCEPT !.pc = pc, !.undos = Append(l.undos, undo)]
  <2>2. Append(l.undos, undo) \in Seq(Undos) BY <1>2, LongerIs
  <2>3. v \in LifeRun BY <1>2, <2>2 DEF LifeRun
  <2>4. life' = [life EXCEPT ![s] = v] BY <2>1 DEF LifeDoes, RunTypes
  <2> HIDE DEF v
  <2> QED BY <2>3, <2>4
<1>9. CASE LifeVerifies(s) /\ life' # [life EXCEPT ![s] = NoLife]
  <2> DEFINE v == [l EXCEPT !.pc = "deleteUnits", !.undos = <<>>]
  <2>1. v \in LifeRun
    <3>1. <<>> \in Seq(Undos) BY EmptySeq
    <3> QED BY <1>2, <3>1 DEF LifeRun, LifePcs
  <2>2. life' = [life EXCEPT ![s] = v] BY <1>9 DEF LifeVerifies, RunTypes
  <2> HIDE DEF v
  <2> QED BY <2>1, <2>2
<1>10. CASE \E undo \in Undos : Undone(s, undo)
  <2> DEFINE v == [l EXCEPT !.undos = AllButLast(l.undos)]
  <2>1. l.undos # <<>> BY <1>10 DEF Undone
  <2>2. AllButLast(l.undos) \in Seq(Undos) BY <1>2, <2>1, ShorterIs
  <2>3. v \in LifeRun BY <1>2, <2>2 DEF LifeRun
  <2>4. life' = [life EXCEPT ![s] = v] BY <1>10 DEF Undone, RunTypes
  <2> HIDE DEF v
  <2> QED BY <2>3, <2>4
<1>11. CASE LifeUndoFails(s)
  <2> DEFINE v == [l EXCEPT !.undos = AllButLast(l.undos), !.failed = TRUE]
  <2>1. l.undos # <<>> BY <1>11 DEF LifeUndoFails
  <2>2. AllButLast(l.undos) \in Seq(Undos) BY <1>2, <2>1, ShorterIs
  <2>3. v \in LifeRun BY <1>2, <2>2 DEF LifeRun
  <2>4. life' = [life EXCEPT ![s] = v] BY <1>11 DEF LifeUndoFails, RunTypes
  <2> HIDE DEF v
  <2> QED BY <2>3, <2>4
<1>12. CASE LifeReloads(s) \/ \E tried \in BOOLEAN : LifeFails(s, tried)
  <2>1. PICK pc \in LifePcs, tried \in BOOLEAN : life' = [life EXCEPT ![s].pc = pc, ![s].tried = tried]
    BY <1>12 DEF LifeReloads, LifeFails, LifePcs
  <2> DEFINE v == [l EXCEPT !.pc = pc, !.tried = tried]
  <2>2. v \in LifeRun BY <1>2 DEF LifeRun
  <2>3. life' = [life EXCEPT ![s] = v] BY <2>1 DEF RunTypes
  <2> HIDE DEF v
  <2> QED BY <2>2, <2>3
<1> QED
  <2>1. CASE LifeMarks(s) \/ LifeStops(s) \/ LifeSetsAside(s) \/ LifeBlocks(s) \/ LifeStarts(s)
    BY <1>7, <1>8, <2>1 DEF LifeMarks, LifeStops, LifeSetsAside, LifeBlocks, LifeStarts, Undos, LifePcs
  <2>2. CASE LifeDeletesUnits(s) BY <1>7, <2>2 DEF LifeDeletesUnits, LifePcs
  <2>3. CASE LifeUndoesBlock(s) \/ LifeUndoesPublic(s) \/ LifeUndoesServices(s) \/ LifeUndoesManifest(s)
    BY <1>10, <2>3 DEF LifeUndoesBlock, LifeUndoesPublic, LifeUndoesServices, LifeUndoesManifest, Undos
  <2>4. CASE LifeUndone(s) \/ LifeNotRestored(s) \/ KillLife(s) \/ \E t, a \in BOOLEAN : LifeDeletesTree(s, t, a)
    BY <1>5, <2>4 DEF LifeDeletesTree, LifeUndone, LifeNotRestored, KillLife
  <2> QED BY <1>4, <1>5, <1>6, <1>9, <1>11, <1>12, <2>1, <2>2, <2>3, <2>4 DEF Life

-----------------------------------------------------------------------------
(* The machine: its types, and whose manifest a step may write.             *)
ManifestOnly(s) == \A t \in Slugs \ {s} : manifest'[t] = manifest[t]

LEMMA Deposits ==
  ASSUME manifest \in [Slugs -> Manifests], NEW s \in Slugs, NEW m \in Manifests,
         manifest' = [manifest EXCEPT ![s] = m]
  PROVE manifest' \in [Slugs -> Manifests] /\ manifest'[s] = m /\ ManifestOnly(s)
BY DEF ManifestOnly

(* A field of a manifest deposited, written in its place.                   *)
LEMMA Rewrites ==
  ASSUME manifest \in [Slugs -> Manifests], NEW s \in Slugs, s \in Deposited, NEW b \in BOOLEAN,
         \/ manifest' = [manifest EXCEPT ![s].off = b]
         \/ manifest' = [manifest EXCEPT ![s].portal = b]
  PROVE /\ manifest' \in [Slugs -> Manifests] /\ ManifestOnly(s)
        /\ manifest'[s].port = manifest[s].port /\ manifest'[s] # NoManifest
        /\ manifest' = [manifest EXCEPT ![s].off = b] => manifest'[s].portal = manifest[s].portal
<1> DEFINE m == manifest[s]
<1>1. m \in [port : Ports, portal : BOOLEAN, off : BOOLEAN] /\ m.port \in Ports BY DepositedIs, ManifestIs
<1>2. CASE manifest' = [manifest EXCEPT ![s].off = b]
  <2> DEFINE n == [m EXCEPT !.off = b]
  <2>1. n \in Manifests /\ n.port = m.port /\ n.portal = m.portal BY <1>1 DEF Manifests
  <2>2. manifest' = [manifest EXCEPT ![s] = n] BY <1>2
  <2> HIDE DEF n, m
  <2>3. manifest'[s] = n /\ manifest' \in [Slugs -> Manifests] /\ ManifestOnly(s) BY <2>1, <2>2, Deposits
  <2>4. n # NoManifest BY <1>1, <2>1, ManifestIs
  <2> QED BY <2>1, <2>3, <2>4 DEF m
<1>3. CASE manifest' = [manifest EXCEPT ![s].portal = b] /\ manifest' # [manifest EXCEPT ![s].off = b]
  <2> DEFINE n == [m EXCEPT !.portal = b]
  <2>1. n \in Manifests /\ n.port = m.port BY <1>1 DEF Manifests
  <2>2. manifest' = [manifest EXCEPT ![s] = n] BY <1>3
  <2> HIDE DEF n, m
  <2>3. manifest'[s] = n /\ manifest' \in [Slugs -> Manifests] /\ ManifestOnly(s) BY <2>1, <2>2, Deposits
  <2>4. n # NoManifest BY <1>1, <2>1, ManifestIs
  <2> QED BY <1>3, <2>1, <2>3, <2>4 DEF m
<1> QED BY <1>2, <1>3

LEMMA TokenMachine ==
  ASSUME MachineTypes, RunTypes, NEW s \in Slugs, Token(s) \/ KillToken(s)
  PROVE MachineTypes' /\ ManifestOnly(s)
<1> DEFINE Files == /\ public' \in [Slugs -> SUBSET {"shown", "stale", "aside"}]
                    /\ tree' \in [Slugs -> BOOLEAN] /\ account' \in [Slugs -> BOOLEAN]
                    /\ unit' \in [Slugs -> BOOLEAN] /\ running' \in [Slugs -> BOOLEAN]
           Caddy == block' \in [Slugs -> Blocks] /\ loaded' \in [Slugs -> Blocks] /\ backup' \subseteq Slugs
           Rest == manifest' \in [Slugs -> Manifests] /\ ManifestOnly(s) /\ done' \in [Kinds -> Nat]
<1>1. UNCHANGED <<public, tree, account, unit, running>> => Files BY DEF MachineTypes
<1>2. UNCHANGED <<block, loaded, backup>> => Caddy BY DEF MachineTypes
<1>3. UNCHANGED <<manifest, done>> => Rest BY DEF MachineTypes, ManifestOnly
<1>4. Files /\ Caddy /\ Rest => MachineTypes' /\ ManifestOnly(s) BY DEF MachineTypes
<1> HIDE DEF Files, Caddy, Rest
<1>5. CASE (\E creating \in BOOLEAN : TokenAsked(s, creating)) \/ KillToken(s)
  <2>1. Begins("token") \/ Begins("fault") BY <1>5 DEF TokenAsked, KillToken
  <2>2. done' \in [Kinds -> Nat] BY <2>1, Begun DEF MachineTypes, Kinds
  <2>3. UNCHANGED disk /\ UNCHANGED <<running, block, backup>> /\ loaded' \in {loaded, block}
    BY <1>5 DEF TokenAsked, KillToken, disk
  <2>4. Files BY <1>1, <2>3 DEF disk
  <2>5. Caddy BY <2>3 DEF Caddy, MachineTypes
  <2>6. Rest BY <2>2, <2>3 DEF Rest, MachineTypes, ManifestOnly, disk
  <2> QED BY <1>4, <2>4, <2>5, <2>6
<1>6. CASE \/ \E port \in Ports, door \in BOOLEAN : TokenReads(s, port, door)
           \/ TokenRefused(s) \/ TokenGivesUp(s) \/ TokenTakes(s) \/ TokenIsOver(s) \/ TokenChecksTree(s)
  BY <1>1, <1>2, <1>3, <1>4, <1>6 DEF TokenReads, TokenRefused, TokenGivesUp, TokenTakes, TokenIsOver,
     TokenChecksTree, disk
<1>7. CASE \/ TokenPrepares(s) \/ TokenLays(s) \/ TokenPlaces(s) \/ TokenRestarts(s)
           \/ TokenUndoesUnits(s) \/ TokenUndoesAccount(s)
  <2>1. UNCHANGED <<block, loaded, backup, manifest, done>>
    BY <1>7 DEF TokenPrepares, TokenLays, TokenPlaces, TokenRestarts, TokenUndoesUnits, TokenUndoesAccount, disk
  <2> SUFFICES Files BY <1>2, <1>3, <1>4, <2>1
  <2>2. CASE TokenPrepares(s) \/ TokenLays(s) BY <2>2 DEF TokenPrepares, TokenLays, Files, MachineTypes
  <2>3. CASE TokenPlaces(s) \/ TokenRestarts(s) BY <2>3 DEF TokenPlaces, TokenRestarts, disk, Files, MachineTypes
  <2>4. CASE TokenUndoesUnits(s) BY <2>4 DEF TokenUndoesUnits, Files, MachineTypes
  <2>5. CASE TokenUndoesAccount(s) BY <2>5 DEF TokenUndoesAccount, Files, MachineTypes
  <2> QED BY <1>7, <2>2, <2>3, <2>4, <2>5
<1>8. CASE TokenWritesBlock(s)
  <2>1. UNCHANGED <<public, tree, account, unit, running, manifest, done>> BY <1>8 DEF TokenWritesBlock
  <2>2. Caddy BY <1>8, OwnBlockIs DEF TokenWritesBlock, Caddy, MachineTypes
  <2> QED BY <1>1, <1>3, <1>4, <2>1, <2>2
<1>9. CASE TokenReloads(s) \/ TokenPutsBlockBack(s)
  <2>1. UNCHANGED <<public, tree, account, unit, running, manifest, done>>
    BY <1>9 DEF TokenReloads, TokenPutsBlockBack, disk
  <2>2. token[s].was \in Blocks BY DEF RunTypes, TokenRun
  <2>3. Caddy BY <1>9, <2>2 DEF TokenReloads, TokenPutsBlockBack, disk, Caddy, MachineTypes
  <2> QED BY <1>1, <1>3, <1>4, <2>1, <2>3
<1>10. CASE TokenDeposits(s)
  <2> DEFINE m == [port |-> token[s].port, portal |-> token[s].door, off |-> FALSE]
  <2>1. token[s].pc = "deposit" /\ token[s] \in TokenRun /\ token[s].port \in Ports
    BY <1>10 DEF TokenDeposits, RunTypes
  <2>2. m \in Manifests BY <2>1 DEF TokenRun, Manifests
  <2>3. manifest' = [manifest EXCEPT ![s] = m] /\ UNCHANGED <<public, tree, account, unit, running, block, loaded, backup, done>>
    BY <1>10 DEF TokenDeposits
  <2> HIDE DEF m
  <2>4. Rest BY <2>2, <2>3, Deposits DEF Rest, MachineTypes
  <2> QED BY <1>1, <1>2, <1>4, <2>3, <2>4
<1>11. CASE \E left, seen \in Blocks : TokenLeavesBlock(s, left, seen)
  <2>1. PICK left \in Blocks, seen \in Blocks : TokenLeavesBlock(s, left, seen) BY <1>11
  <2>2. UNCHANGED <<public, tree, account, unit, running, manifest, backup>> /\ Begins("fault")
    BY <2>1 DEF TokenLeavesBlock
  <2>3. Caddy BY <2>1, <2>2 DEF TokenLeavesBlock, Caddy, MachineTypes
  <2>4. Rest BY <2>2, Begun DEF Rest, MachineTypes, ManifestOnly, Kinds
  <2> QED BY <1>1, <1>4, <2>2, <2>3, <2>4
<1>12. CASE TokenRemovesTree(s)
  <2>1. manifest' = [manifest EXCEPT ![s] = NoManifest] /\ UNCHANGED <<account, unit, running, block, loaded, backup, done>>
    BY <1>12 DEF TokenRemovesTree
  <2>2. NoManifest \in Manifests BY DEF Manifests
  <2>3. Rest BY <2>1, <2>2, Deposits DEF Rest, MachineTypes
  <2>4. Files BY <1>12, <2>1 DEF TokenRemovesTree, Files, MachineTypes
  <2> QED BY <1>2, <1>4, <2>1, <2>3, <2>4
<1> QED BY <1>5, <1>6, <1>7, <1>8, <1>9, <1>10, <1>11, <1>12 DEF Token

LEMMA SshMachine ==
  ASSUME MachineTypes, RunTypes, NEW s \in Slugs, Ssh(s)
  PROVE MachineTypes' /\ ManifestOnly(s)
<1>1. CASE \E port \in Ports, door \in BOOLEAN : SshReads(s, port, door)
  BY <1>1, Begun DEF SshReads, disk, MachineTypes, ManifestOnly, Kinds
<1>2. CASE SshPrepares(s) BY <1>2 DEF SshPrepares, MachineTypes, ManifestOnly
<1>3. CASE SshTakes(s) \/ SshStops(s) \/ SshRestarts(s)
  BY <1>3 DEF SshTakes, SshStops, SshRestarts, disk, MachineTypes, ManifestOnly
<1>4. CASE SshInstallsBlock(s) BY <1>4 DEF SshInstallsBlock, MachineTypes, ManifestOnly, Blocks
<1>5. CASE SshPushes(s)
  <2>1. public' \in [Slugs -> SUBSET {"shown", "stale", "aside"}] BY <1>5 DEF SshPushes, MachineTypes
  <2> QED BY <1>5, <2>1 DEF SshPushes, MachineTypes, ManifestOnly
<1>6. CASE SshDeposits(s)
  <2> DEFINE m == [port |-> ssh[s].port, portal |-> ssh[s].door, off |-> FALSE]
  <2>1. ssh[s].pc = "deposit" /\ ssh[s] \in SshRun /\ ssh[s].port \in Ports
    BY <1>6 DEF SshDeposits, RunTypes
  <2>2. m \in Manifests BY <2>1 DEF SshRun, Manifests
  <2>3. manifest' = [manifest EXCEPT ![s] = m] /\ UNCHANGED <<public, tree, account, unit, running, block, loaded, backup, done>>
    BY <1>6 DEF SshDeposits
  <2> HIDE DEF m
  <2>4. manifest' \in [Slugs -> Manifests] /\ ManifestOnly(s) BY <2>2, <2>3, Deposits DEF MachineTypes
  <2> QED BY <2>3, <2>4 DEF MachineTypes
<1> QED BY <1>1, <1>2, <1>3, <1>4, <1>5, <1>6 DEF Ssh

LEMMA LifeMachine ==
  ASSUME MachineTypes, RunTypes, NEW s \in Slugs, LifecycleActive(s) => s \in Deposited,
         Life(s) \/ KillLife(s) \/ SetDoor(s)
  PROVE MachineTypes' /\ ManifestOnly(s)
<1> DEFINE Files == /\ public' \in [Slugs -> SUBSET {"shown", "stale", "aside"}]
                    /\ tree' \in [Slugs -> BOOLEAN] /\ account' \in [Slugs -> BOOLEAN]
                    /\ unit' \in [Slugs -> BOOLEAN] /\ running' \in [Slugs -> BOOLEAN]
           Caddy == block' \in [Slugs -> Blocks] /\ loaded' \in [Slugs -> Blocks] /\ backup' \subseteq Slugs
           Rest == manifest' \in [Slugs -> Manifests] /\ ManifestOnly(s) /\ done' \in [Kinds -> Nat]
<1>1. UNCHANGED <<public, tree, account, unit, running>> => Files BY DEF MachineTypes
<1>2. UNCHANGED <<block, loaded, backup>> => Caddy BY DEF MachineTypes
<1>3. UNCHANGED <<manifest, done>> => Rest BY DEF MachineTypes, ManifestOnly
<1>4. Files /\ Caddy /\ Rest => MachineTypes' /\ ManifestOnly(s) BY DEF MachineTypes
<1>5. UNCHANGED manifest /\ (UNCHANGED done \/ \E k \in Kinds : Begins(k)) => Rest
  BY Begun DEF MachineTypes, ManifestOnly
<1> HIDE DEF Files, Caddy, Rest
<1>6. CASE \/ \E action \in {"disable", "enable", "remove"} : LifeAsked(s, action)
           \/ LifeUndoFails(s) \/ LifeNotRestored(s) \/ KillLife(s)
  <2>1. UNCHANGED disk /\ UNCHANGED <<running, backup>> /\ loaded' \in {loaded, block}
    BY <1>6 DEF LifeAsked, LifeUndoFails, LifeNotRestored, KillLife, disk
  <2>2. UNCHANGED done \/ \E k \in Kinds : Begins(k)
    BY <1>6 DEF LifeAsked, LifeUndoFails, LifeNotRestored, KillLife, Kinds
  <2>3. Caddy BY <2>1 DEF Caddy, disk, MachineTypes
  <2> QED BY <1>1, <1>4, <1>5, <2>1, <2>2, <2>3 DEF disk
<1>7. CASE \/ LifeTakes(s) \/ LifeReloads(s) \/ LifeVerifies(s) \/ LifeUndone(s)
           \/ \E tried \in BOOLEAN : LifeFails(s, tried)
  <2>1. UNCHANGED disk /\ UNCHANGED <<running, done>> /\ loaded' \in {loaded, block}
        /\ backup' \in {backup, {s}, {}}
    BY <1>7 DEF LifeTakes, LifeReloads, LifeVerifies, LifeFails, LifeUndone, disk
  <2>2. Caddy BY <2>1 DEF Caddy, disk, MachineTypes
  <2> QED BY <1>1, <1>3, <1>4, <2>1, <2>2 DEF disk
<1>8. CASE LifeMarks(s) \/ LifeUndoesManifest(s)
  <2>1. PICK b \in BOOLEAN : manifest' = [manifest EXCEPT ![s].off = b]
    <3>1. manifest[s].off \in BOOLEAN BY ManifestIs DEF MachineTypes
    <3> QED BY <1>8, <3>1 DEF LifeMarks, LifeUndoesManifest
  <2>2. LifecycleActive(s) BY <1>8 DEF LifeMarks, LifeUndoesManifest, Undone, LifecycleActive
  <2>3. UNCHANGED <<public, tree, account, unit, running, block, loaded, backup, done>>
    BY <1>8 DEF LifeMarks, LifeUndoesManifest
  <2>4. Rest BY <2>1, <2>2, <2>3, Rewrites DEF Rest, MachineTypes
  <2> QED BY <1>1, <1>2, <1>4, <2>3, <2>4
<1>9. CASE LifeStops(s) \/ LifeStarts(s) \/ LifeUndoesServices(s) \/ LifeDeletesUnits(s)
  <2>1. UNCHANGED <<block, loaded, backup, manifest, done>>
    BY <1>9 DEF LifeStops, LifeStarts, LifeUndoesServices, LifeDeletesUnits, disk
  <2> SUFFICES Files BY <1>2, <1>3, <1>4, <2>1
  <2> QED BY <1>9 DEF LifeStops, LifeStarts, LifeUndoesServices, LifeDeletesUnits, disk, Files, MachineTypes
<1>10. CASE LifeSetsAside(s) \/ LifeUndoesPublic(s)
  <2>1. UNCHANGED <<block, loaded, backup, manifest, done>> BY <1>10 DEF LifeSetsAside, LifeUndoesPublic
  <2> SUFFICES Files BY <1>2, <1>3, <1>4, <2>1
  <2> QED BY <1>10 DEF LifeSetsAside, LifeUndoesPublic, Files, MachineTypes
<1>11. CASE LifeBlocks(s) \/ LifeUndoesBlock(s)
  <2>1. UNCHANGED <<public, tree, account, unit, running, loaded, backup, manifest, done>>
    BY <1>11 DEF LifeBlocks, LifeUndoesBlock
  <2>2. "none" \in Blocks /\ life[s].was \in Blocks BY DEF RunTypes, LifeRun, Blocks
  <2>3. PICK b \in Blocks : block' = [block EXCEPT ![s] = b]
    BY <1>11, <2>2, OwnBlockIs DEF LifeBlocks, LifeUndoesBlock
  <2>4. Caddy BY <2>1, <2>3 DEF Caddy, MachineTypes
  <2> QED BY <1>1, <1>3, <1>4, <2>1, <2>4
<1>12. CASE \E t, a \in BOOLEAN : LifeDeletesTree(s, t, a)
  <2>1. UNCHANGED <<unit, running, block, loaded, done>> /\ backup' = {} BY <1>12 DEF LifeDeletesTree
  <2>2. NoManifest \in Manifests BY DEF Manifests
  <2>3. Rest
    <3>1. UNCHANGED manifest \/ manifest' = [manifest EXCEPT ![s] = NoManifest] BY <1>12 DEF LifeDeletesTree
    <3> QED BY <1>3, <2>1, <2>2, <3>1, Deposits DEF Rest, MachineTypes
  <2>4. Files BY <1>12, <2>1 DEF LifeDeletesTree, Files, MachineTypes
  <2>5. Caddy BY <2>1 DEF Caddy, MachineTypes
  <2> QED BY <1>4, <2>3, <2>4, <2>5
<1>13. CASE SetDoor(s)
  <2>1. PICK b \in BOOLEAN : manifest' = [manifest EXCEPT ![s].portal = b]
    <3>1. manifest[s].portal \in BOOLEAN BY ManifestIs DEF MachineTypes
    <3> QED BY <1>13, <3>1 DEF SetDoor
  <2>2. s \in Deposited /\ Begins("door") BY <1>13 DEF SetDoor
  <2>3. Rest BY <2>1, <2>2, Rewrites, Begun DEF Rest, MachineTypes, Kinds
  <2>4. UNCHANGED <<public, tree, account, unit, running>> BY <1>13 DEF SetDoor
  <2>5. Caddy BY <1>13, OwnBlockIs DEF SetDoor, Caddy, MachineTypes
  <2> QED BY <1>1, <1>4, <2>3, <2>4, <2>5
<1> QED BY <1>6, <1>7, <1>8, <1>9, <1>10, <1>11, <1>12, <1>13 DEF Life

-----------------------------------------------------------------------------
(* The lock: taken when free, given back by its holder.                     *)
LEMMA Names ==
  /\ \A s, t : (<<"token", s>> = <<"token", t>>) => s = t
  /\ \A s, t : (<<"ssh", s>> = <<"ssh", t>>) => s = t
  /\ \A s, t : (<<"life", s>> = <<"life", t>>) => s = t
  /\ \A s, t : <<"token", s>> # <<"ssh", t>> /\ <<"token", s>> # <<"life", t>> /\ <<"ssh", s>> # <<"life", t>>
  /\ \A s : Nobody # <<"token", s>> /\ Nobody # <<"ssh", s>> /\ Nobody # <<"life", s>>
BY DEF Nobody

LEMMA TokenHolds ==
  ASSUME Holders, NEW s \in Slugs, TokenOnly(s),
         \/ lock' = lock /\ (TokenLocked(s)' => TokenLocked(s))
                         /\ (lock = <<"token", s>> =>
                                token'[s].pc \in {"block", "reload", "place", "deposit", "restart", "verify"})
         \/ lock = Nobody /\ lock' = <<"token", s>> /\ token'[s].pc \in {"block", "place"}
         \/ LetGo(<<"token", s>>) /\ ~TokenLocked(s)'
  PROVE Holders'
<1>1. \A t \in Slugs \ {s} : (TokenLocked(t)' <=> TokenLocked(t)) BY DEF TokenLocked, TokenOnly
<1>2. \A t \in Slugs : (SshLocked(t)' <=> SshLocked(t)) /\ (LifecycleActive(t)' <=> LifecycleActive(t))
  BY DEF SshLocked, LifecycleActive, TokenOnly
<1>3. \A t \in Slugs \ {s} : token'[t] = token[t] /\ <<"token", t>> # <<"token", s>> BY Names DEF TokenOnly
<1>4. lock' = lock \/ (lock' = <<"token", s>> /\ lock = Nobody) \/ (lock' = Nobody /\ lock = <<"token", s>>)
  BY DEF LetGo
<1>5. ASSUME NEW t \in Slugs \ {s}
      PROVE /\ TokenLocked(t)' => lock' = <<"token", t>>
            /\ lock' = <<"token", t>> => token'[t].pc \in {"block", "reload", "place", "deposit", "restart", "verify"}
  BY <1>1, <1>3, <1>4, Names DEF Holders
<1>6. ASSUME NEW t \in Slugs
      PROVE /\ SshLocked(t)' <=> lock' = <<"ssh", t>>
            /\ LifecycleActive(t)' <=> lock' = <<"life", t>>
  BY <1>2, <1>4, Names DEF Holders, TokenOnly
<1>7. /\ TokenLocked(s)' => lock' = <<"token", s>>
      /\ lock' = <<"token", s>> => token'[s].pc \in {"block", "reload", "place", "deposit", "restart", "verify"}
  BY Names DEF Holders, LetGo
<1> QED BY <1>5, <1>6, <1>7 DEF Holders

LEMMA SshHolds ==
  ASSUME Holders, NEW s \in Slugs, SshOnly(s),
         \/ lock' = lock /\ (SshLocked(s)' <=> SshLocked(s))
         \/ lock = Nobody /\ lock' = <<"ssh", s>> /\ SshLocked(s)'
         \/ LetGo(<<"ssh", s>>) /\ ~SshLocked(s)'
  PROVE Holders'
<1>1. \A t \in Slugs \ {s} : (SshLocked(t)' <=> SshLocked(t)) BY DEF SshLocked, SshOnly
<1>2. \A t \in Slugs : (TokenLocked(t)' <=> TokenLocked(t)) /\ (LifecycleActive(t)' <=> LifecycleActive(t))
  BY DEF TokenLocked, LifecycleActive, SshOnly
<1>3. \A t \in Slugs \ {s} : <<"ssh", t>> # <<"ssh", s>> BY Names
<1>4. lock' = lock \/ (lock' = <<"ssh", s>> /\ lock = Nobody) \/ (lock' = Nobody /\ lock = <<"ssh", s>>)
  BY DEF LetGo
<1>5. ASSUME NEW t \in Slugs \ {s} PROVE SshLocked(t)' <=> lock' = <<"ssh", t>>
  BY <1>1, <1>3, <1>4, Names DEF Holders
<1>6. ASSUME NEW t \in Slugs
      PROVE /\ TokenLocked(t)' => lock' = <<"token", t>>
            /\ lock' = <<"token", t>> => token'[t].pc \in {"block", "reload", "place", "deposit", "restart", "verify"}
            /\ LifecycleActive(t)' <=> lock' = <<"life", t>>
  BY <1>2, <1>4, Names DEF Holders, SshOnly
<1>7. SshLocked(s)' <=> lock' = <<"ssh", s>>
  BY Names DEF Holders, LetGo
<1> QED BY <1>5, <1>6, <1>7 DEF Holders

LEMMA LifeHolds ==
  ASSUME Holders, NEW s \in Slugs, LifeOnly(s),
         \/ lock' = lock /\ (LifecycleActive(s)' <=> LifecycleActive(s))
         \/ lock = Nobody /\ lock' = <<"life", s>> /\ LifecycleActive(s)'
         \/ LetGo(<<"life", s>>) /\ ~LifecycleActive(s)'
  PROVE Holders'
<1>1. \A t \in Slugs \ {s} : (LifecycleActive(t)' <=> LifecycleActive(t)) BY DEF LifecycleActive, LifeOnly
<1>2. \A t \in Slugs : (TokenLocked(t)' <=> TokenLocked(t)) /\ (SshLocked(t)' <=> SshLocked(t))
  BY DEF TokenLocked, SshLocked, LifeOnly
<1>3. \A t \in Slugs \ {s} : <<"life", t>> # <<"life", s>> BY Names
<1>4. lock' = lock \/ (lock' = <<"life", s>> /\ lock = Nobody) \/ (lock' = Nobody /\ lock = <<"life", s>>)
  BY DEF LetGo
<1>5. ASSUME NEW t \in Slugs \ {s} PROVE LifecycleActive(t)' <=> lock' = <<"life", t>>
  BY <1>1, <1>3, <1>4, Names DEF Holders
<1>6. ASSUME NEW t \in Slugs
      PROVE /\ TokenLocked(t)' => lock' = <<"token", t>>
            /\ lock' = <<"token", t>> => token'[t].pc \in {"block", "reload", "place", "deposit", "restart", "verify"}
            /\ SshLocked(t)' <=> lock' = <<"ssh", t>>
  BY <1>2, <1>4, Names DEF Holders, LifeOnly
<1>7. LifecycleActive(s)' <=> lock' = <<"life", s>>
  BY Names DEF Holders, LetGo
<1> QED BY <1>5, <1>6, <1>7 DEF Holders

LEMMA TokenNext ==
  ASSUME RunTypes, NEW s \in Slugs, NEW pc, TokenTo(s, pc)
  PROVE /\ token'[s].pc = pc /\ token'[s].door = token[s].door /\ token'[s].port = token[s].port
        /\ token'[s].was = token[s].was /\ token'[s].creating = token[s].creating
        /\ token'[s].made = token[s].made
BY DEF TokenTo, RunTypes, TokenRun

LEMMA SshNext ==
  ASSUME RunTypes, NEW s \in Slugs, NEW pc, SshTo(s, pc)
  PROVE ssh'[s].pc = pc /\ ssh'[s].door = ssh[s].door /\ ssh'[s].port = ssh[s].port
BY DEF SshTo, RunTypes, SshRun

LEMMA LifeNext ==
  ASSUME RunTypes, NEW s \in Slugs, NEW pc, LifeTo(s, pc)
  PROVE /\ life'[s].pc = pc /\ life'[s].action = life[s].action /\ life'[s].was = life[s].was
        /\ life'[s].undos = life[s].undos /\ life'[s].tried = life[s].tried /\ life'[s].failed = life[s].failed
BY DEF LifeTo, RunTypes, LifeRun

LEMMA LifePushes ==
  ASSUME RunTypes, NEW s \in Slugs, NEW undo, NEW pc, LifeDoes(s, undo, pc)
  PROVE /\ life'[s].pc = pc /\ life'[s].action = life[s].action /\ life'[s].was = life[s].was
        /\ life'[s].undos = Append(life[s].undos, undo)
        /\ life'[s].tried = life[s].tried /\ life'[s].failed = life[s].failed
BY DEF LifeDoes, RunTypes, LifeRun

LEMMA LifePops ==
  ASSUME RunTypes, NEW s \in Slugs, NEW undo, Undone(s, undo)
  PROVE /\ life[s].pc = "undo" /\ life[s].undos # <<>> /\ undo = Last(life[s].undos)
        /\ life'[s].pc = "undo" /\ life'[s].action = life[s].action /\ life'[s].was = life[s].was
        /\ life'[s].undos = AllButLast(life[s].undos)
        /\ life'[s].tried = life[s].tried /\ life'[s].failed = life[s].failed
BY DEF Undone, RunTypes, LifeRun

(* Caddy reloaded, or a step that failed.                                   *)
LEMMA LifeTries ==
  ASSUME RunTypes, NEW s \in Slugs, LifeReloads(s) \/ \E tried \in BOOLEAN : LifeFails(s, tried)
  PROVE /\ life[s].pc \notin {"idle", "asked", "deleteUnits", "deleteTree"}
        /\ LifeReloads(s) => life'[s].pc \in {"start", "verify"} /\ life'[s].tried
        /\ ~LifeReloads(s) => life'[s].pc = "undo"
        /\ life'[s].action = life[s].action /\ life'[s].was = life[s].was
        /\ life'[s].undos = life[s].undos /\ life'[s].failed = life[s].failed
        /\ UNCHANGED <<disk, running, backup, lock, token, ssh, done>>
        /\ loaded' \in {loaded, IF life'[s].tried THEN block ELSE loaded}
        /\ ~life'[s].tried => ~life[s].tried
        /\ LifeReloads(s) => loaded' = block
<1>1. CASE LifeReloads(s) BY <1>1 DEF LifeReloads, RunTypes, LifeRun
<1>2. CASE ~LifeReloads(s)
  <2>1. PICK tried \in BOOLEAN : LifeFails(s, tried) BY <1>2
  <2>2. life'[s] = [life[s] EXCEPT !.pc = "undo", !.tried = tried] BY <2>1 DEF LifeFails, RunTypes
  <2>3. life[s] \in LifeRun BY DEF RunTypes
  <2>4. life'[s].pc = "undo" /\ life'[s].tried = tried /\ life'[s].action = life[s].action /\ life'[s].was = life[s].was
        /\ life'[s].undos = life[s].undos /\ life'[s].failed = life[s].failed
    BY <2>2, <2>3 DEF LifeRun
  <2> QED BY <1>2, <2>1, <2>3, <2>4 DEF LifeFails, LifeRun
<1> QED BY <1>1, <1>2

LEMMA TokenGone ==
  ASSUME RunTypes, NEW s \in Slugs,
         token' = [token EXCEPT ![s] = NoToken] \/ token' = [token EXCEPT ![s] = Stopped(@)]
  PROVE token'[s].pc \in {"idle", "undoUnits"} /\ ~TokenLocked(s)'
<1>1. token'[s].pc \in {"idle", "undoUnits"} BY NoTokenIs, StoppedIs DEF RunTypes
<1> QED BY <1>1 DEF TokenLocked

LEMMA TokenHolders ==
  ASSUME RunTypes, MachineTypes, Holders, NEW s \in Slugs, Token(s) \/ KillToken(s)
  PROVE Holders'
<1> DEFINE me == <<"token", s>>
<1>1. TokenOnly(s) BY TokenRuns
<1>2. /\ TokenLocked(s) => lock = me
      /\ lock = me => token[s].pc \in {"block", "reload", "place", "deposit", "restart", "verify"}
  BY DEF Holders
<1>3. ASSUME lock' = lock, token[s].pc \notin {"block", "reload", "place", "deposit", "restart", "verify"},
             token'[s].pc \notin {"block", "reload", "place", "deposit", "restart", "verify"} PROVE Holders'
  <2>1. ~TokenLocked(s)' BY <1>3 DEF TokenLocked
  <2> QED BY <1>1, <1>2, <1>3, <2>1, TokenHolds
<1>4. CASE \/ \E creating \in BOOLEAN : TokenAsked(s, creating)
           \/ \E port \in Ports, door \in BOOLEAN : TokenReads(s, port, door)
  <2>1. CASE \E creating \in BOOLEAN : TokenAsked(s, creating)
    <3>1. token[s].pc = "idle" /\ token'[s].pc = "asked" /\ lock' = lock
      BY <2>1 DEF TokenAsked, RunTypes, NoToken
    <3> QED BY <1>3, <3>1
  <2>2. CASE \E port \in Ports, door \in BOOLEAN : TokenReads(s, port, door)
    <3>1. PICK port \in Ports, door \in BOOLEAN : TokenReads(s, port, door) BY <2>2
    <3>2. token[s].pc = "asked" /\ token'[s].pc = "prepare" /\ lock' = lock
      BY <3>1 DEF TokenReads, RunTypes, TokenRun
    <3> QED BY <1>3, <3>2
  <2> QED BY <1>4, <2>1, <2>2
<1>5. CASE TokenRefused(s) \/ TokenGivesUp(s) \/ TokenUndoesAccount(s)
  BY <1>3, <1>5, TokenGone DEF TokenRefused, TokenGivesUp, TokenUndoesAccount
<1>6. CASE TokenPrepares(s)
  <2>1. CASE token'[s] = NoToken BY <1>3, <1>6, <2>1, NoTokenIs DEF TokenPrepares
  <2>2. CASE token'[s] # NoToken
    <3>1. token'[s].pc = "units" BY <1>6, <2>2 DEF TokenPrepares, RunTypes, TokenRun
    <3> QED BY <1>3, <1>6, <3>1 DEF TokenPrepares
  <2> QED BY <2>1, <2>2
<1>7. CASE TokenLays(s)
  BY <1>3, <1>7 DEF TokenLays, RunTypes, TokenRun
<1>8. CASE TokenTakes(s)
  <2>1. CASE lock = Nobody /\ lock' = me /\ TokenTo(s, IF token[s].door THEN "block" ELSE "place")
    <3>1. token'[s].pc \in {"block", "place"} BY <2>1, TokenNext
    <3> QED BY <1>1, <2>1, <3>1, TokenHolds
  <2>2. CASE token' = [token EXCEPT ![s] = Stopped(@)] /\ lock' = lock
    BY <1>3, <1>8, <2>2, TokenGone DEF TokenTakes
  <2> QED BY <1>8, <2>1, <2>2 DEF TokenTakes
<1>9. CASE \/ TokenIsOver(s) \/ TokenPutsBlockBack(s) \/ KillToken(s)
           \/ \E left, seen \in Blocks : TokenLeavesBlock(s, left, seen)
  <2>1. LetGo(me) /\ token' = [token EXCEPT ![s] = NoToken]
    BY <1>9 DEF TokenIsOver, TokenPutsBlockBack, TokenLeavesBlock, KillToken, TokenEnds
  <2>2. ~TokenLocked(s)' BY <2>1, TokenGone
  <2> QED BY <1>1, <2>1, <2>2, TokenHolds
<1>10. CASE \/ TokenWritesBlock(s) \/ TokenReloads(s) \/ TokenPlaces(s) \/ TokenRestarts(s)
  <2>1. lock' = lock BY <1>10 DEF TokenWritesBlock, TokenReloads, TokenPlaces, TokenRestarts
  <2>2. token'[s].pc \in {"block", "reload", "place", "deposit", "restart", "verify"}
    <3>1. CASE TokenWritesBlock(s) /\ token' = [token EXCEPT ![s].pc = "reload", ![s].was = block[s]]
      BY <3>1 DEF RunTypes, TokenRun
    <3> QED BY <1>10, <3>1, TokenNext DEF TokenWritesBlock, TokenReloads, TokenPlaces, TokenRestarts
  <2>3. TokenLocked(s)' => TokenLocked(s)
    <3>1. CASE TokenRestarts(s) BY <3>1, TokenNext DEF TokenRestarts, TokenLocked
    <3>2. CASE ~TokenRestarts(s) BY <1>10, <3>2 DEF TokenWritesBlock, TokenReloads, TokenPlaces, TokenLocked
    <3> QED BY <3>1, <3>2
  <2> QED BY <1>1, <2>1, <2>2, <2>3, TokenHolds
<1>11. CASE TokenDeposits(s)
  <2>1. token'[s].pc = "restart" /\ token'[s].door = token[s].door BY <1>11, TokenNext DEF TokenDeposits
  <2>2. CASE token[s].door
    <3>1. LetGo(me) /\ ~TokenLocked(s)' BY <1>11, <2>1, <2>2 DEF TokenDeposits, TokenLocked
    <3> QED BY <1>1, <3>1, TokenHolds
  <2>3. CASE ~token[s].door
    <3>1. lock' = lock /\ TokenLocked(s) BY <1>11, <2>3 DEF TokenDeposits, TokenLocked
    <3> QED BY <1>1, <2>1, <3>1, TokenHolds
  <2> QED BY <2>2, <2>3
<1>12. CASE TokenUndoesUnits(s) \/ TokenChecksTree(s) \/ TokenRemovesTree(s)
  <2>1. token'[s].pc \in {"undoTree", "removeTree", "undoAccount", "idle"} /\ lock' = lock
    BY <1>12, TokenNext, TokenGone, NoTokenIs DEF TokenUndoesUnits, TokenChecksTree, TokenRemovesTree, RunTypes
  <2> QED BY <1>3, <1>12, <2>1 DEF TokenUndoesUnits, TokenChecksTree, TokenRemovesTree
<1> QED BY <1>4, <1>5, <1>6, <1>7, <1>8, <1>9, <1>10, <1>11, <1>12 DEF Token

LEMMA SshGone ==
  ASSUME RunTypes, NEW s \in Slugs, ssh' = [ssh EXCEPT ![s] = NoShell]
  PROVE ssh'[s].pc = "idle" /\ ~SshLocked(s)'
<1>1. ssh'[s].pc = "idle" BY DEF RunTypes, NoShell
<1> QED BY <1>1 DEF SshLocked

LEMMA SshHolders ==
  ASSUME RunTypes, MachineTypes, Holders, NEW s \in Slugs, Ssh(s)
  PROVE Holders'
<1> DEFINE me == <<"ssh", s>>
<1>1. SshOnly(s) BY SshRuns
<1>2. SshLocked(s) <=> lock = me BY DEF Holders
<1>3. ssh[s].door \in BOOLEAN BY DEF RunTypes, SshRun
<1>4. CASE \E port \in Ports, door \in BOOLEAN : SshReads(s, port, door)
  <2>1. ssh[s].pc = "idle" /\ lock' = lock /\ ssh'[s].pc = "prepare" BY <1>4 DEF SshReads, RunTypes
  <2>2. ~SshLocked(s) /\ ~SshLocked(s)' BY <2>1 DEF SshLocked
  <2> QED BY <1>1, <2>1, <2>2, SshHolds
<1>5. CASE SshPrepares(s)
  <2>1. ssh[s].pc = "prepare" /\ lock' = lock /\ ssh'[s].door = ssh[s].door
        /\ ssh'[s].pc = IF ssh[s].door THEN "lock" ELSE "push" BY <1>5, SshNext DEF SshPrepares
  <2>2. ~SshLocked(s) /\ ~SshLocked(s)' BY <1>3, <2>1 DEF SshLocked
  <2> QED BY <1>1, <2>1, <2>2, SshHolds
<1>6. CASE SshTakes(s)
  <2>1. CASE lock = Nobody /\ lock' = me /\ SshTo(s, IF ssh[s].door THEN "block" ELSE "deposit")
    <3>1. ssh'[s].pc \in {"block", "deposit"} BY <2>1, SshNext
    <3>2. SshLocked(s)' BY <3>1 DEF SshLocked
    <3> QED BY <1>1, <2>1, <3>2, SshHolds
  <2>2. CASE lock' = lock /\ ssh' = [ssh EXCEPT ![s] = NoShell]
    <3>1. ssh[s].pc = "lock" BY <1>6 DEF SshTakes
    <3>2. ~SshLocked(s) BY <3>1 DEF SshLocked
    <3> QED BY <1>1, <2>2, <3>2, SshGone, SshHolds
  <2> QED BY <1>6, <2>1, <2>2 DEF SshTakes
<1>7. CASE SshStops(s)
  BY <1>1, <1>7, SshGone, SshHolds DEF SshStops
<1>8. CASE SshInstallsBlock(s)
  <2>1. CASE ssh[s].door
    <3>1. ssh[s].pc = "block" /\ lock' = lock /\ ssh'[s].pc = "push" /\ ssh'[s].door
      BY <1>8, <2>1, SshNext DEF SshInstallsBlock
    <3>2. SshLocked(s) /\ SshLocked(s)' BY <3>1 DEF SshLocked
    <3> QED BY <1>1, <3>1, <3>2, SshHolds
  <2>2. CASE ~ssh[s].door BY <1>1, <1>8, <2>2, SshGone, SshHolds DEF SshInstallsBlock
  <2> QED BY <2>1, <2>2
<1>9. CASE SshPushes(s)
  <2>1. lock' = lock /\ ssh[s].pc = "push" /\ ssh'[s].door = ssh[s].door
        /\ ssh'[s].pc = IF ssh[s].door THEN "deposit" ELSE "lock" BY <1>9, SshNext DEF SshPushes
  <2>2. SshLocked(s)' <=> SshLocked(s) BY <1>3, <2>1 DEF SshLocked
  <2> QED BY <1>1, <2>1, <2>2, SshHolds
<1>10. CASE SshDeposits(s)
  <2>1. ssh[s].pc = "deposit" /\ ssh'[s].pc = "restart" /\ ssh'[s].door = ssh[s].door
    BY <1>10, SshNext DEF SshDeposits
  <2>2. CASE ssh[s].door
    <3>1. LetGo(me) /\ ~SshLocked(s)' BY <1>10, <2>1, <2>2 DEF SshDeposits, SshLocked
    <3> QED BY <1>1, <3>1, SshHolds
  <2>3. CASE ~ssh[s].door
    <3>1. lock' = lock /\ SshLocked(s) /\ SshLocked(s)' BY <1>10, <2>1, <2>3 DEF SshDeposits, SshLocked
    <3> QED BY <1>1, <3>1, SshHolds
  <2> QED BY <2>2, <2>3
<1>11. CASE SshRestarts(s)
  <2>1. ssh[s].pc = "restart" /\ lock' = lock BY <1>11 DEF SshRestarts
  <2>2. CASE ssh[s].door
    <3>1. ssh' = [ssh EXCEPT ![s] = NoShell] BY <1>11, <2>2 DEF SshRestarts
    <3>2. ~SshLocked(s) BY <2>1, <2>2 DEF SshLocked
    <3> QED BY <1>1, <2>1, <3>1, <3>2, SshGone, SshHolds
  <2>3. CASE ~ssh[s].door
    <3>1. ssh'[s].pc = "block" BY <1>11, <2>3, SshNext DEF SshRestarts
    <3>2. SshLocked(s) /\ SshLocked(s)' BY <2>1, <2>3, <3>1 DEF SshLocked
    <3> QED BY <1>1, <2>1, <3>2, SshHolds
  <2> QED BY <2>2, <2>3
<1> QED BY <1>4, <1>5, <1>6, <1>7, <1>8, <1>9, <1>10, <1>11 DEF Ssh

LEMMA LifeGone ==
  ASSUME RunTypes, NEW s \in Slugs, life' = [life EXCEPT ![s] = NoLife]
  PROVE life'[s] = NoLife /\ life'[s].pc = "idle" /\ ~LifecycleActive(s)'
<1>1. life'[s] = NoLife /\ life'[s].pc = "idle" BY DEF RunTypes, NoLife
<1> QED BY <1>1 DEF LifecycleActive

LEMMA LifeHolders ==
  ASSUME RunTypes, MachineTypes, Holders, NEW s \in Slugs, Life(s) \/ KillLife(s)
  PROVE Holders'
<1> DEFINE me == <<"life", s>>
<1>1. LifeOnly(s) BY LifeRuns
<1>2. ASSUME lock' = lock, life[s].pc \notin {"idle", "asked"}, life'[s].pc \notin {"idle", "asked"} PROVE Holders'
  <2>1. LifecycleActive(s)' <=> LifecycleActive(s) BY <1>2 DEF LifecycleActive
  <2> QED BY <1>1, <1>2, <2>1, LifeHolds
<1>3. CASE \E action \in {"disable", "enable", "remove"} : LifeAsked(s, action)
  <2>1. lock' = lock /\ life[s].pc = "idle" /\ life'[s].pc = "asked" BY <1>3 DEF LifeAsked, RunTypes, NoLife
  <2>2. ~LifecycleActive(s) /\ ~LifecycleActive(s)' BY <2>1 DEF LifecycleActive
  <2> QED BY <1>1, <2>1, <2>2, LifeHolds
<1>4. CASE LifeTakes(s)
  <2>1. CASE lock = Nobody /\ lock' = me /\ life' = [life EXCEPT ![s].pc = FirstStep(life[s].action), ![s].was = block[s]]
    <3>1. life'[s].pc = FirstStep(life[s].action) BY <2>1 DEF RunTypes, LifeRun
    <3>2. LifecycleActive(s)' BY <3>1 DEF FirstStep, LifecycleActive
    <3> QED BY <1>1, <2>1, <3>2, LifeHolds
  <2>2. CASE lock' = lock /\ life' = [life EXCEPT ![s] = NoLife]
    <3>1. ~LifecycleActive(s) BY <1>4 DEF LifeTakes, LifecycleActive
    <3> QED BY <1>1, <2>2, <3>1, LifeGone, LifeHolds
  <2> QED BY <1>4, <2>1, <2>2 DEF LifeTakes
<1>5. CASE LetGo(me) /\ life' = [life EXCEPT ![s] = NoLife] BY <1>1, <1>5, LifeGone, LifeHolds
<1>6. CASE LifeVerifies(s) /\ life[s].action = "remove"
  <2>1. lock' = lock /\ life[s].pc = "verify" /\ life'[s].pc = "deleteUnits"
    BY <1>6 DEF LifeVerifies, RunTypes, LifeRun
  <2> QED BY <1>2, <2>1
<1>7. CASE LifeMarks(s) \/ LifeStops(s) \/ LifeSetsAside(s) \/ LifeBlocks(s) \/ LifeStarts(s)
  <2>1. lock' = lock /\ life[s].pc \notin {"idle", "asked"}
    BY <1>7 DEF LifeMarks, LifeStops, LifeSetsAside, LifeBlocks, LifeStarts
  <2>2. life'[s].pc \in {"stop", "block", "aside", "reload", "verify"}
    BY <1>7, LifePushes, LifeNext DEF LifeMarks, LifeStops, LifeSetsAside, LifeBlocks, LifeStarts
  <2> QED BY <1>2, <2>1, <2>2
<1>8. CASE LifeReloads(s) \/ LifeDeletesUnits(s) \/ \E tried \in BOOLEAN : LifeFails(s, tried)
  <2>1. CASE LifeDeletesUnits(s)
    <3>1. lock' = lock /\ life[s].pc = "deleteUnits" /\ life'[s].pc = "deleteTree"
      BY <2>1, LifeNext DEF LifeDeletesUnits
    <3> QED BY <1>2, <3>1
  <2>2. CASE ~LifeDeletesUnits(s)
    <3>1. lock' = lock /\ life[s].pc \notin {"idle", "asked"} /\ life'[s].pc \in {"start", "verify", "undo"}
      BY <1>8, <2>2, LifeTries
    <3> QED BY <1>2, <3>1
  <2> QED BY <2>1, <2>2
<1>9. CASE LifeUndoesBlock(s) \/ LifeUndoesPublic(s) \/ LifeUndoesServices(s) \/ LifeUndoesManifest(s)
  <2>1. lock' = lock BY <1>9 DEF LifeUndoesBlock, LifeUndoesPublic, LifeUndoesServices, LifeUndoesManifest
  <2>2. life[s].pc = "undo" /\ life'[s].pc = "undo"
    BY <1>9, LifePops DEF LifeUndoesBlock, LifeUndoesPublic, LifeUndoesServices, LifeUndoesManifest
  <2> QED BY <1>2, <2>1, <2>2
<1>10. CASE LifeUndoFails(s)
  <2>1. lock' = lock /\ life[s].pc = "undo" /\ life'[s].pc = "undo" BY <1>10 DEF LifeUndoFails, RunTypes, LifeRun
  <2> QED BY <1>2, <2>1
<1> QED
  <2>1. CASE LifeVerifies(s) BY <1>5, <1>6, <2>1 DEF LifeVerifies
  <2>2. CASE (\E t, a \in BOOLEAN : LifeDeletesTree(s, t, a)) \/ LifeUndone(s) \/ LifeNotRestored(s) \/ KillLife(s)
    BY <1>5, <2>2 DEF LifeDeletesTree, LifeUndone, LifeNotRestored, KillLife
  <2> QED BY <1>3, <1>4, <1>7, <1>8, <1>9, <1>10, <2>1, <2>2 DEF Life

-----------------------------------------------------------------------------
(* The manifests: written by the holder of the lock, others being at none   *)
(* of the steps that need it, or by the gatekeeper when nobody is.          *)
LEMMA Alone ==
  ASSUME Holders, NEW s \in Slugs, lock \in {Nobody, <<"token", s>>, <<"ssh", s>>, <<"life", s>>}
  PROVE /\ \A t \in Slugs : ~(lock = <<"token", s>> /\ t = s) => ~TokenLocked(t)
        /\ \A t \in Slugs : ~(lock = <<"ssh", s>> /\ t = s) => ~SshLocked(t)
        /\ \A t \in Slugs : ~(lock = <<"life", s>> /\ t = s) => ~LifecycleActive(t)
BY Names DEF Holders

LEMMA TakenIs ==
  ASSUME NEW s \in Slugs
  PROVE \A p : p \in Taken(s) <=> \E t \in Slugs \ {s} : manifest[t] # NoManifest /\ manifest[t].port = p
BY DEF Taken, Deposited

LEMMA TakenStays ==
  ASSUME NEW s \in Slugs, ManifestOnly(s)
  PROVE \A p : p \in Taken(s) <=> p \in Taken(s)'
<1>1. \A p : p \in Taken(s)' <=> \E t \in Slugs \ {s} : manifest'[t] # NoManifest /\ manifest'[t].port = p
  BY DEF Taken, Deposited
<1> QED BY <1>1, TakenIs DEF ManifestOnly

LEMMA ApartStays ==
  ASSUME PortsApart, NEW s \in Slugs, ManifestOnly(s),
         manifest'[s] = NoManifest \/ manifest'[s].port \notin Taken(s)
  PROVE PortsApart'
<1>1. \A t, u \in Slugs : t # u /\ manifest[t] # NoManifest /\ manifest[u] # NoManifest
                             => manifest[t].port # manifest[u].port
  BY DEF PortsApart, Deposited
<1> SUFFICES \A t, u \in Slugs : t # u /\ manifest'[t] # NoManifest /\ manifest'[u] # NoManifest
                                    => manifest'[t].port # manifest'[u].port
  BY DEF PortsApart, Deposited
<1> QED BY <1>1, TakenIs DEF ManifestOnly

LEMMA ApartSame == ASSUME PortsApart, UNCHANGED manifest PROVE PortsApart'
BY DEF PortsApart, Deposited

LEMMA OwnPort ==
  ASSUME PortsApart, NEW s \in Slugs, s \in Deposited
  PROVE manifest[s].port \notin Taken(s)
BY TakenIs DEF PortsApart, Deposited

(* What a run compared, when the manifests are as they were.                *)
LEMMA ComparedSame ==
  ASSUME Compared, UNCHANGED manifest, NEW s \in Slugs,
         \/ UNCHANGED <<token, ssh, life>>
         \/ /\ TokenOnly(s)
            /\ TokenLocked(s)' => /\ TokenLocked(s) \/ StillHolds(s, token[s])
                                  /\ token'[s].port = token[s].port /\ token'[s].door = token[s].door
         \/ /\ SshOnly(s)
            /\ SshLocked(s)' => /\ SshLocked(s) \/ StillDeploys(s)
                                /\ ssh'[s].port = ssh[s].port /\ ssh'[s].door = ssh[s].door
         \/ LifeOnly(s) /\ (LifecycleActive(s)' => LifecycleActive(s) \/ s \in Deposited)
  PROVE Compared'
<1>1. \A t \in Slugs : Taken(t)' = Taken(t) /\ (t \in Deposited' <=> t \in Deposited) BY DEF Taken, Deposited
<1>2. s \notin Deposited => ~manifest[s].off /\ ~manifest[s].portal BY DEF Deposited, NoManifest
<1>3. CASE UNCHANGED <<token, ssh, life>>
  BY <1>1, <1>3 DEF Compared, TokenLocked, SshLocked, LifecycleActive
<1>4. CASE /\ TokenOnly(s)
           /\ TokenLocked(s)' => /\ TokenLocked(s) \/ StillHolds(s, token[s])
                                 /\ token'[s].port = token[s].port /\ token'[s].door = token[s].door
  <2>1. \A t \in Slugs : t # s => token'[t] = token[t] /\ (TokenLocked(t)' <=> TokenLocked(t))
    BY <1>4 DEF TokenOnly, TokenLocked
  <2>2. \A t \in Slugs : (SshLocked(t)' <=> SshLocked(t)) /\ (LifecycleActive(t)' <=> LifecycleActive(t))
    BY <1>4 DEF TokenOnly, SshLocked, LifecycleActive
  <2>3. TokenLocked(s)' => /\ token'[s].port \notin Taken(s)'
                           /\ ~manifest'[s].off
                           /\ ~token'[s].door => ~manifest'[s].portal
    BY <1>1, <1>2, <1>4 DEF Compared, StillHolds
  <2> QED BY <1>1, <1>4, <2>1, <2>2, <2>3 DEF Compared, TokenOnly
<1>5. CASE /\ SshOnly(s)
           /\ SshLocked(s)' => /\ SshLocked(s) \/ StillDeploys(s)
                               /\ ssh'[s].port = ssh[s].port /\ ssh'[s].door = ssh[s].door
  <2>1. \A t \in Slugs : t # s => ssh'[t] = ssh[t] /\ (SshLocked(t)' <=> SshLocked(t))
    BY <1>5 DEF SshOnly, SshLocked
  <2>2. \A t \in Slugs : (TokenLocked(t)' <=> TokenLocked(t)) /\ (LifecycleActive(t)' <=> LifecycleActive(t))
    BY <1>5 DEF SshOnly, TokenLocked, LifecycleActive
  <2>3. SshLocked(s)' => ssh'[s].port \notin Taken(s)' /\ (~ssh'[s].door => ~manifest'[s].portal)
    BY <1>1, <1>2, <1>5 DEF Compared, StillDeploys
  <2> QED BY <1>1, <1>5, <2>1, <2>2, <2>3 DEF Compared, SshOnly
<1>6. CASE LifeOnly(s) /\ (LifecycleActive(s)' => LifecycleActive(s) \/ s \in Deposited)
  <2>1. \A t \in Slugs : t # s => (LifecycleActive(t)' <=> LifecycleActive(t)) BY <1>6 DEF LifeOnly, LifecycleActive
  <2>2. \A t \in Slugs : (TokenLocked(t)' <=> TokenLocked(t)) /\ (SshLocked(t)' <=> SshLocked(t))
    BY <1>6 DEF LifeOnly, TokenLocked, SshLocked
  <2>3. LifecycleActive(s)' => s \in Deposited' BY <1>1, <1>6 DEF Compared
  <2> QED BY <1>1, <1>6, <2>1, <2>2, <2>3 DEF Compared, LifeOnly
<1> QED BY <1>3, <1>4, <1>5, <1>6

(* A manifest written: nobody else stands on what was compared.             *)
LEMMA ComparedWritten ==
  ASSUME NEW s \in Slugs,
         \A t \in Slugs \ {s} : ~TokenLocked(t)' /\ ~SshLocked(t)' /\ ~LifecycleActive(t)',
         TokenLocked(s)' => /\ token'[s].port \notin Taken(s)'
                            /\ ~manifest'[s].off
                            /\ ~token'[s].door => ~manifest'[s].portal,
         SshLocked(s)' => ssh'[s].port \notin Taken(s)' /\ (~ssh'[s].door => ~manifest'[s].portal),
         LifecycleActive(s)' => s \in Deposited'
  PROVE Compared'
BY DEF Compared

(* A creation undone while others hold the lock: they lose nothing by it.   *)
LEMMA TreeRemoved ==
  ASSUME RunTypes, MachineTypes, Compared, PortsApart, NEW s \in Slugs, CreationAt(s), TokenRemovesTree(s)
  PROVE Compared' /\ PortsApart'
<1>1. TokenOnly(s) /\ ManifestOnly(s) BY TokenRuns, TokenMachine DEF Token
<1>2. manifest'[s] = NoManifest BY DEF TokenRemovesTree, MachineTypes
<1>3. ~NoManifest.portal BY DEF NoManifest
<1>4. token'[s].pc = "undoAccount" BY TokenNext DEF TokenRemovesTree
<1>5. life[s].pc = "idle" BY DEF TokenRemovesTree, CreationAt
<1>6. \A t \in Slugs : \A p : p \in Taken(t)' => p \in Taken(t)
  <2> TAKE t \in Slugs
  <2>1. \A p : p \in Taken(t)' <=> \E u \in Slugs \ {t} : manifest'[u] # NoManifest /\ manifest'[u].port = p
    BY DEF Taken, Deposited
  <2> QED BY <1>1, <1>2, <2>1, TakenIs DEF ManifestOnly
<1>7. PortsApart' BY <1>1, <1>2, ApartStays
<1>8. ASSUME NEW t \in Slugs
      PROVE /\ TokenLocked(t)' => t # s /\ TokenLocked(t) /\ token'[t] = token[t]
            /\ (SshLocked(t)' <=> SshLocked(t)) /\ ssh'[t] = ssh[t]
            /\ LifecycleActive(t)' => t # s /\ LifecycleActive(t)
  BY <1>1, <1>4, <1>5 DEF TokenOnly, TokenLocked, SshLocked, LifecycleActive
<1>9. ASSUME NEW t \in Slugs, t # s PROVE manifest'[t] = manifest[t] /\ (t \in Deposited' <=> t \in Deposited)
  BY <1>1, <1>9 DEF ManifestOnly, Deposited
<1>10. Compared'
  <2> SUFFICES ASSUME NEW t \in Slugs
               PROVE /\ TokenLocked(t)' => /\ token'[t].port \notin Taken(t)'
                                           /\ ~manifest'[t].off
                                           /\ ~token'[t].door => ~manifest'[t].portal
                     /\ SshLocked(t)' => ssh'[t].port \notin Taken(t)' /\ (~ssh'[t].door => ~manifest'[t].portal)
                     /\ LifecycleActive(t)' => t \in Deposited'
    BY DEF Compared
  <2>1. TokenLocked(t)' => /\ token'[t].port \notin Taken(t)'
                           /\ ~manifest'[t].off
                           /\ ~token'[t].door => ~manifest'[t].portal
    BY <1>6, <1>8, <1>9 DEF Compared
  <2>2. SshLocked(t)' => ssh'[t].port \notin Taken(t)' /\ (~ssh'[t].door => ~manifest'[t].portal)
    <3>1. CASE t = s BY <1>2, <1>3, <1>6, <1>8, <3>1 DEF Compared
    <3>2. CASE t # s BY <1>6, <1>8, <1>9, <3>2 DEF Compared
    <3> QED BY <3>1, <3>2
  <2>3. LifecycleActive(t)' => t \in Deposited' BY <1>8, <1>9 DEF Compared
  <2> QED BY <2>1, <2>2, <2>3
<1> QED BY <1>7, <1>10

LEMMA TokenCompared ==
  ASSUME RunTypes, MachineTypes, Holders, Compared, Creations, PortsApart, NEW s \in Slugs, Token(s) \/ KillToken(s)
  PROVE Compared' /\ PortsApart'
<1>1. TokenOnly(s) /\ Holders' BY TokenRuns, TokenHolders
<1>2. CASE TokenDeposits(s)
  <2>1. token[s].pc = "deposit" /\ token[s] \in TokenRun BY <1>2 DEF TokenDeposits, RunTypes
  <2>2. TokenLocked(s) /\ lock = <<"token", s>> BY <2>1 DEF TokenLocked, Holders
  <2>3. token[s].port \notin Taken(s) BY <2>2 DEF Compared
  <2>4. manifest'[s] = [port |-> token[s].port, portal |-> token[s].door, off |-> FALSE]
    BY <1>2 DEF TokenDeposits, MachineTypes
  <2>5. token'[s].port = token[s].port /\ token'[s].door = token[s].door BY <1>2, TokenNext DEF TokenDeposits
  <2>6. ManifestOnly(s) BY TokenMachine
  <2>7. \A t \in Slugs \ {s} : ~TokenLocked(t)' /\ ~SshLocked(t)' /\ ~LifecycleActive(t)'
    BY <1>1, <2>2, Alone DEF TokenOnly, TokenLocked, SshLocked, LifecycleActive
  <2>8. ~SshLocked(s)' /\ ~LifecycleActive(s)'
    BY <1>1, <2>2, Alone DEF TokenOnly, SshLocked, LifecycleActive
  <2>9. token'[s].port \notin Taken(s)' BY <2>3, <2>5, <2>6, TakenStays
  <2>10. Compared' BY <1>1, <2>2, <2>4, <2>5, <2>7, <2>8, <2>9, ComparedWritten
  <2>11. PortsApart' BY <2>3, <2>4, <2>6, ApartStays
  <2> QED BY <2>10, <2>11
<1>3. CASE TokenRemovesTree(s) BY <1>3, TreeRemoved DEF Creations
<1>4. CASE ~TokenDeposits(s) /\ ~TokenRemovesTree(s)
  <2>1. UNCHANGED manifest
    BY <1>4 DEF Token, KillToken, TokenAsked, TokenReads, TokenRefused, TokenPrepares, TokenGivesUp, TokenLays,
       TokenTakes, TokenIsOver, TokenWritesBlock, TokenReloads, TokenPutsBlockBack, TokenLeavesBlock, TokenPlaces,
       TokenRestarts, TokenUndoesUnits, TokenChecksTree, TokenUndoesAccount, disk
  <2>2. PortsApart' BY <2>1, ApartSame
  <2> SUFFICES ASSUME TokenLocked(s)'
               PROVE /\ TokenLocked(s) \/ StillHolds(s, token[s])
                     /\ token'[s].port = token[s].port /\ token'[s].door = token[s].door
    BY <1>1, <2>1, <2>2, ComparedSame
  <2>3. token'[s].pc \in {"block", "reload", "place", "deposit", "restart"} BY DEF TokenLocked
  <2>4. CASE (\E creating \in BOOLEAN : TokenAsked(s, creating)) \/ TokenLays(s) \/ TokenPrepares(s)
             \/ \E port \in Ports, door \in BOOLEAN : TokenReads(s, port, door)
    <3>1. CASE \E creating \in BOOLEAN : TokenAsked(s, creating)
      BY <2>3, <3>1 DEF TokenAsked, RunTypes, NoToken
    <3>2. CASE TokenLays(s) BY <2>3, <3>2 DEF TokenLays, RunTypes, TokenRun
    <3>3. CASE \E port \in Ports, door \in BOOLEAN : TokenReads(s, port, door)
      <4>1. PICK port \in Ports, door \in BOOLEAN : TokenReads(s, port, door) BY <3>3
      <4> QED BY <2>3, <4>1 DEF TokenReads, RunTypes, TokenRun
    <3>4. CASE TokenPrepares(s)
      <4>1. token'[s].pc \in {"units", "idle"} BY <3>4, NoTokenIs DEF TokenPrepares, RunTypes, TokenRun
      <4> QED BY <2>3, <4>1
    <3> QED BY <2>4, <3>1, <3>2, <3>3, <3>4
  <2>5. CASE \/ TokenRefused(s) \/ TokenGivesUp(s) \/ TokenIsOver(s) \/ TokenPutsBlockBack(s) \/ TokenUndoesAccount(s)
             \/ KillToken(s) \/ \E left, seen \in Blocks : TokenLeavesBlock(s, left, seen)
    BY <2>5, TokenGone DEF TokenRefused, TokenGivesUp, TokenIsOver, TokenEnds, TokenPutsBlockBack, TokenLeavesBlock,
       TokenUndoesAccount, KillToken
  <2>6. CASE TokenTakes(s)
    <3>1. CASE token' = [token EXCEPT ![s] = Stopped(@)] BY <3>1, TokenGone
    <3>2. CASE StillHolds(s, token[s]) /\ TokenTo(s, IF token[s].door THEN "block" ELSE "place")
      BY <3>2, TokenNext
    <3> QED BY <2>6, <3>1, <3>2 DEF TokenTakes
  <2>7. CASE TokenWritesBlock(s)
    <3>1. TokenLocked(s) BY <2>7 DEF TokenWritesBlock, TokenLocked
    <3>2. CASE token' = [token EXCEPT ![s].pc = "reload", ![s].was = block[s]]
      BY <3>1, <3>2 DEF RunTypes, TokenRun
    <3>3. CASE TokenTo(s, IF token[s].door THEN "place" ELSE "verify") BY <3>1, <3>3, TokenNext
    <3> QED BY <2>7, <3>2, <3>3 DEF TokenWritesBlock
  <2>8. CASE TokenReloads(s) \/ TokenPlaces(s)
    <3>1. TokenLocked(s) BY <2>8 DEF TokenReloads, TokenPlaces, TokenLocked
    <3> QED BY <2>8, <3>1, TokenNext DEF TokenReloads, TokenPlaces
  <2>9. CASE TokenRestarts(s)
    <3>1. token[s].pc = "restart" /\ token'[s].pc = (IF token[s].door THEN "verify" ELSE "block")
          /\ token'[s].port = token[s].port /\ token'[s].door = token[s].door
      BY <2>9, TokenNext DEF TokenRestarts
    <3>2. TokenLocked(s) BY <2>3, <3>1 DEF TokenLocked
    <3> QED BY <3>1, <3>2
  <2>10. CASE TokenUndoesUnits(s) \/ TokenChecksTree(s)
    <3>1. token'[s].pc \in {"undoTree", "removeTree", "idle"}
      BY <2>10, TokenNext, TokenGone, NoTokenIs DEF TokenUndoesUnits, TokenChecksTree, RunTypes
    <3> QED BY <2>3, <3>1
  <2> QED BY <1>4, <2>4, <2>5, <2>6, <2>7, <2>8, <2>9, <2>10 DEF Token
<1> QED BY <1>2, <1>3, <1>4

LEMMA SshCompared ==
  ASSUME RunTypes, MachineTypes, Holders, Compared, PortsApart, NEW s \in Slugs, Ssh(s)
  PROVE Compared' /\ PortsApart'
<1>1. SshOnly(s) /\ Holders' BY SshRuns, SshHolders
<1>2. CASE SshDeposits(s)
  <2>1. ssh[s].pc = "deposit" /\ ssh[s] \in SshRun BY <1>2 DEF SshDeposits, RunTypes
  <2>2. SshLocked(s) /\ lock = <<"ssh", s>> BY <2>1 DEF SshLocked, Holders
  <2>3. ssh[s].port \notin Taken(s) BY <2>2 DEF Compared
  <2>4. manifest'[s] = [port |-> ssh[s].port, portal |-> ssh[s].door, off |-> FALSE]
    BY <1>2 DEF SshDeposits, MachineTypes
  <2>5. ssh'[s].port = ssh[s].port /\ ssh'[s].door = ssh[s].door BY <1>2, SshNext DEF SshDeposits
  <2>6. ManifestOnly(s) BY SshMachine
  <2>7. \A t \in Slugs \ {s} : ~TokenLocked(t)' /\ ~SshLocked(t)' /\ ~LifecycleActive(t)'
    BY <1>1, <2>2, Alone DEF SshOnly, TokenLocked, SshLocked, LifecycleActive
  <2>8. ~TokenLocked(s)' /\ ~LifecycleActive(s)'
    BY <1>1, <2>2, Alone DEF SshOnly, TokenLocked, LifecycleActive
  <2>9. ssh'[s].port \notin Taken(s)' BY <2>3, <2>5, <2>6, TakenStays
  <2>10. Compared' BY <2>4, <2>5, <2>7, <2>8, <2>9, ComparedWritten
  <2>11. PortsApart' BY <2>3, <2>4, <2>6, ApartStays
  <2> QED BY <2>10, <2>11
<1>3. CASE ~SshDeposits(s)
  <2>1. UNCHANGED manifest
    BY <1>3 DEF Ssh, SshReads, SshPrepares, SshTakes, SshInstallsBlock, SshPushes, SshRestarts, SshStops, disk
  <2>2. PortsApart' BY <2>1, ApartSame
  <2> SUFFICES ASSUME SshLocked(s)'
               PROVE /\ SshLocked(s) \/ StillDeploys(s)
                     /\ ssh'[s].port = ssh[s].port /\ ssh'[s].door = ssh[s].door
    BY <1>1, <2>1, <2>2, ComparedSame
  <2>3. ssh'[s].pc \in {"block", "deposit", "push", "restart"} /\ (ssh'[s].pc = "push" => ssh'[s].door) BY DEF SshLocked
  <2>4. CASE \E port \in Ports, door \in BOOLEAN : SshReads(s, port, door)
    BY <2>3, <2>4 DEF SshReads, RunTypes
  <2>5. CASE SshPrepares(s)
    <3>1. ssh'[s].pc = (IF ssh[s].door THEN "lock" ELSE "push") /\ ssh'[s].door = ssh[s].door
      BY <2>5, SshNext DEF SshPrepares
    <3> QED BY <2>3, <3>1
  <2>6. CASE SshTakes(s)
    <3>1. CASE ssh' = [ssh EXCEPT ![s] = NoShell] BY <3>1, SshGone
    <3>2. CASE StillDeploys(s) /\ SshTo(s, IF ssh[s].door THEN "block" ELSE "deposit") BY <3>2, SshNext
    <3> QED BY <2>6, <3>1, <3>2 DEF SshTakes
  <2>7. CASE SshInstallsBlock(s)
    <3>1. SshLocked(s) BY <2>7 DEF SshInstallsBlock, SshLocked
    <3> QED BY <2>7, <3>1, SshGone, SshNext DEF SshInstallsBlock
  <2>8. CASE SshPushes(s)
    <3>1. ssh[s].pc = "push" /\ ssh'[s].pc = (IF ssh[s].door THEN "deposit" ELSE "lock")
          /\ ssh'[s].port = ssh[s].port /\ ssh'[s].door = ssh[s].door BY <2>8, SshNext DEF SshPushes
    <3>2. SshLocked(s) BY <2>3, <3>1 DEF SshLocked
    <3> QED BY <3>1, <3>2
  <2>9. CASE SshRestarts(s)
    <3>1. CASE ssh' = [ssh EXCEPT ![s] = NoShell] BY <3>1, SshGone
    <3>2. CASE ~ssh[s].door /\ SshTo(s, "block") BY <2>9, <3>2, SshNext DEF SshRestarts, SshLocked
    <3> QED BY <2>9, <3>1, <3>2 DEF SshRestarts
  <2>10. CASE SshStops(s) BY <2>10, SshGone DEF SshStops
  <2> QED BY <1>3, <2>4, <2>5, <2>6, <2>7, <2>8, <2>9, <2>10 DEF Ssh
<1> QED BY <1>2, <1>3

LEMMA LifeCompared ==
  ASSUME RunTypes, MachineTypes, Holders, Compared, PortsApart, NEW s \in Slugs, Life(s) \/ KillLife(s)
  PROVE Compared' /\ PortsApart'
<1>1. LifeOnly(s) /\ Holders' BY LifeRuns, LifeHolders
<1>2. LifecycleActive(s) => s \in Deposited BY DEF Compared
<1>3. ManifestOnly(s) /\ manifest' \in [Slugs -> Manifests] BY <1>2, LifeMachine DEF MachineTypes
<1>4. ASSUME LifecycleActive(s), LifecycleActive(s)' => s \in Deposited',
             manifest'[s] = NoManifest \/ manifest'[s].port = manifest[s].port
      PROVE Compared' /\ PortsApart'
  <2>1. lock = <<"life", s>> BY <1>4 DEF Holders
  <2>2. \A t \in Slugs \ {s} : ~TokenLocked(t)' /\ ~SshLocked(t)' /\ ~LifecycleActive(t)'
    BY <1>1, <2>1, Alone DEF LifeOnly, TokenLocked, SshLocked, LifecycleActive
  <2>3. ~TokenLocked(s)' /\ ~SshLocked(s)' BY <1>1, <2>1, Alone DEF LifeOnly, TokenLocked, SshLocked
  <2>4. Compared' BY <1>4, <2>2, <2>3, ComparedWritten
  <2>5. manifest'[s] = NoManifest \/ manifest'[s].port \notin Taken(s) BY <1>2, <1>4, OwnPort
  <2> QED BY <1>3, <2>4, <2>5, ApartStays
<1>5. CASE LifeMarks(s) \/ LifeUndoesManifest(s)
  <2>1. LifecycleActive(s) BY <1>5 DEF LifeMarks, LifeUndoesManifest, Undone, LifecycleActive
  <2>2. PICK b \in BOOLEAN : manifest' = [manifest EXCEPT ![s].off = b]
    <3>1. manifest[s].off \in BOOLEAN BY ManifestIs DEF MachineTypes
    <3> QED BY <1>5, <3>1 DEF LifeMarks, LifeUndoesManifest
  <2>3. manifest'[s].port = manifest[s].port /\ manifest'[s] # NoManifest
    BY <1>2, <2>1, <2>2, Rewrites DEF MachineTypes
  <2>4. s \in Deposited' BY <2>3 DEF Deposited
  <2> QED BY <1>4, <2>1, <2>3, <2>4
<1>6. CASE \E t, a \in BOOLEAN : LifeDeletesTree(s, t, a)
  <2>1. LifecycleActive(s) BY <1>6 DEF LifeDeletesTree, LifecycleActive
  <2>2. ~LifecycleActive(s)' BY <1>6, LifeGone DEF LifeDeletesTree
  <2>3. manifest'[s] = NoManifest \/ manifest' = manifest BY <1>6 DEF LifeDeletesTree, MachineTypes
  <2> QED BY <1>4, <2>1, <2>2, <2>3
<1>7. CASE ~(LifeMarks(s) \/ LifeUndoesManifest(s) \/ \E t, a \in BOOLEAN : LifeDeletesTree(s, t, a))
  <2>1. UNCHANGED manifest
    BY <1>7 DEF Life, KillLife, LifeAsked, LifeTakes, LifeStops, LifeSetsAside, LifeBlocks, LifeReloads,
       LifeStarts, LifeVerifies, LifeDeletesUnits, LifeFails, LifeUndoesBlock, LifeUndoesPublic,
       LifeUndoesServices, LifeUndoFails, LifeUndone, LifeNotRestored, disk
  <2>2. PortsApart' BY <2>1, ApartSame
  <2>3. CASE LifecycleActive(s) BY <1>1, <1>2, <2>1, <2>2, <2>3, ComparedSame
  <2>4. CASE ~LifecycleActive(s)
    <3>1. (\E action \in {"disable", "enable", "remove"} : LifeAsked(s, action)) \/ LifeTakes(s)
      BY <2>4 DEF Life, KillLife, LifecycleActive, LifeMarks, LifeStops, LifeSetsAside, LifeBlocks, LifeReloads,
         LifeStarts, LifeVerifies, LifeDeletesUnits, LifeDeletesTree, LifeFails, LifeUndoesBlock, LifeUndoesPublic,
         LifeUndoesServices, LifeUndoesManifest, Undone, LifeUndoFails, LifeUndone, LifeNotRestored
    <3>2. CASE LifeTakes(s) /\ life' # [life EXCEPT ![s] = NoLife]
      <4>1. s \in Deposited BY <3>2 DEF LifeTakes, MayDo
      <4> QED BY <1>1, <2>1, <2>2, <4>1, ComparedSame
    <3>3. CASE life' = [life EXCEPT ![s] = NoLife] BY <1>1, <2>1, <2>2, <3>3, LifeGone, ComparedSame
    <3>4. CASE \E action \in {"disable", "enable", "remove"} : LifeAsked(s, action)
      <4>1. life'[s].pc = "asked" BY <3>4 DEF LifeAsked, RunTypes, NoLife
      <4>2. ~LifecycleActive(s)' BY <4>1 DEF LifecycleActive
      <4> QED BY <1>1, <2>1, <2>2, <4>2, ComparedSame
    <3> QED BY <3>1, <3>2, <3>3, <3>4
  <2> QED BY <2>3, <2>4
<1> QED BY <1>5, <1>6, <1>7

LEMMA DoorCompared ==
  ASSUME RunTypes, MachineTypes, Holders, Compared, PortsApart, NEW s \in Slugs, SetDoor(s)
  PROVE Holders' /\ Compared' /\ PortsApart' /\ RunTypes'
<1>1. lock = Nobody /\ UNCHANGED <<lock, token, ssh, life>> /\ s \in Deposited BY DEF SetDoor
<1>2. Holders' /\ RunTypes' BY <1>1 DEF Holders, RunTypes, TokenLocked, SshLocked, LifecycleActive
<1>3. \A t \in Slugs : ~TokenLocked(t)' /\ ~SshLocked(t)' /\ ~LifecycleActive(t)'
  BY <1>1, Names DEF Holders, TokenLocked, SshLocked, LifecycleActive
<1>4. PICK b \in BOOLEAN : manifest' = [manifest EXCEPT ![s].portal = b]
  <2>1. manifest[s].portal \in BOOLEAN BY ManifestIs DEF MachineTypes
  <2> QED BY <2>1 DEF SetDoor
<1>5. ManifestOnly(s) /\ manifest'[s].port = manifest[s].port BY <1>1, <1>4, Rewrites DEF MachineTypes
<1>6. Compared' BY <1>3 DEF Compared
<1>7. PortsApart' BY <1>1, <1>5, OwnPort, ApartStays
<1> QED BY <1>2, <1>6, <1>7

-----------------------------------------------------------------------------
(* What is deposited or public is under a tree that is there.               *)
LEMMA TreesStay ==
  ASSUME Trees, NEW s \in Slugs, ManifestOnly(s),
         \A t \in Slugs \ {s} : public'[t] = public[t] /\ tree'[t] = tree[t],
         \/ tree'[s]
         \/ manifest'[s] = NoManifest /\ public'[s] = {}
         \/ UNCHANGED <<manifest, public, tree>>
  PROVE Trees'
BY DEF Trees, ManifestOnly, Deposited

LEMMA TokenTrees ==
  ASSUME MachineTypes, RunTypes, Trees, NEW s \in Slugs, Token(s) \/ KillToken(s)
  PROVE Trees'
<1>1. ManifestOnly(s) BY TokenMachine
<1>2. CASE TokenPrepares(s) BY <1>1, <1>2, TreesStay DEF TokenPrepares, MachineTypes
<1>3. CASE TokenPlaces(s) BY <1>1, <1>3, TreesStay DEF TokenPlaces, MachineTypes
<1>4. CASE TokenDeposits(s) BY <1>1, <1>4, TreesStay DEF TokenDeposits, MachineTypes
<1>5. CASE TokenRemovesTree(s) BY <1>1, <1>5, TreesStay DEF TokenRemovesTree, MachineTypes
<1>6. CASE ~(TokenPrepares(s) \/ TokenPlaces(s) \/ TokenDeposits(s) \/ TokenRemovesTree(s))
  <2>1. UNCHANGED <<manifest, public, tree>>
    BY <1>6 DEF Token, KillToken, TokenAsked, TokenReads, TokenRefused, TokenGivesUp, TokenLays,
       TokenTakes, TokenIsOver, TokenWritesBlock, TokenReloads, TokenPutsBlockBack, TokenLeavesBlock,
       TokenRestarts, TokenUndoesUnits, TokenChecksTree, TokenUndoesAccount, disk
  <2> QED BY <1>1, <2>1, TreesStay
<1> QED BY <1>2, <1>3, <1>4, <1>5, <1>6

LEMMA SshTrees ==
  ASSUME MachineTypes, RunTypes, Trees, NEW s \in Slugs, Ssh(s)
  PROVE Trees'
<1>1. ManifestOnly(s) BY SshMachine
<1>2. CASE SshPrepares(s) BY <1>1, <1>2, TreesStay DEF SshPrepares, MachineTypes
<1>3. CASE SshPushes(s) BY <1>1, <1>3, TreesStay DEF SshPushes, MachineTypes
<1>4. CASE SshDeposits(s) BY <1>1, <1>4, TreesStay DEF SshDeposits, MachineTypes
<1>5. CASE ~(SshPrepares(s) \/ SshPushes(s) \/ SshDeposits(s))
  <2>1. UNCHANGED <<manifest, public, tree>>
    BY <1>5 DEF Ssh, SshReads, SshTakes, SshInstallsBlock, SshRestarts, SshStops, disk
  <2> QED BY <1>1, <2>1, TreesStay
<1> QED BY <1>2, <1>3, <1>4, <1>5

LEMMA LifeTrees ==
  ASSUME MachineTypes, RunTypes, Compared, Trees, NEW s \in Slugs, Life(s) \/ KillLife(s) \/ SetDoor(s)
  PROVE Trees'
<1>1. LifecycleActive(s) => s \in Deposited BY DEF Compared
<1>2. ManifestOnly(s) BY <1>1, LifeMachine
<1>3. s \in Deposited => tree[s] BY DEF Trees
<1>4. CASE LifeMarks(s) \/ LifeUndoesManifest(s) \/ LifeSetsAside(s) \/ LifeUndoesPublic(s) \/ SetDoor(s)
  <2>1. s \in Deposited
    BY <1>1, <1>4 DEF LifeMarks, LifeUndoesManifest, LifeSetsAside, LifeUndoesPublic, Undone, SetDoor, LifecycleActive
  <2>2. tree' = tree /\ \A t \in Slugs \ {s} : public'[t] = public[t]
    BY <1>4 DEF LifeMarks, LifeUndoesManifest, LifeSetsAside, LifeUndoesPublic, SetDoor, MachineTypes
  <2> QED BY <1>2, <1>3, <2>1, <2>2, TreesStay
<1>5. CASE \E t, a \in BOOLEAN : LifeDeletesTree(s, t, a)
  <2>1. \/ manifest'[s] = NoManifest /\ public'[s] = {} /\ \A t \in Slugs \ {s} : public'[t] = public[t] /\ tree'[t] = tree[t]
        \/ UNCHANGED <<manifest, public, tree>>
    BY <1>5 DEF LifeDeletesTree, MachineTypes
  <2> QED BY <1>2, <2>1, TreesStay
<1>6. CASE ~(LifeMarks(s) \/ LifeUndoesManifest(s) \/ LifeSetsAside(s) \/ LifeUndoesPublic(s) \/ SetDoor(s)
             \/ \E t, a \in BOOLEAN : LifeDeletesTree(s, t, a))
  <2>1. UNCHANGED <<manifest, public, tree>>
    BY <1>6 DEF Life, KillLife, LifeAsked, LifeTakes, LifeStops, LifeBlocks, LifeReloads,
       LifeStarts, LifeVerifies, LifeDeletesUnits, LifeFails, LifeUndoesBlock,
       LifeUndoesServices, LifeUndoFails, LifeUndone, LifeNotRestored, disk
  <2> QED BY <1>2, <2>1, TreesStay
<1> QED BY <1>4, <1>5, <1>6

-----------------------------------------------------------------------------
(* A creation: what a run made of it, and undoes.                           *)
LEMMA CreationsStay ==
  ASSUME Creations, NEW s \in Slugs, ManifestOnly(s), CreationAt(s)',
         TokenOnly(s) \/ SshOnly(s) \/ LifeOnly(s)
  PROVE Creations'
<1>1. ASSUME NEW t \in Slugs, t # s PROVE CreationAt(t)'
  <2>1. token'[t] = token[t] /\ life'[t] = life[t] /\ manifest'[t] = manifest[t]
    BY <1>1 DEF TokenOnly, SshOnly, LifeOnly, ManifestOnly
  <2> QED BY <1>1, <2>1 DEF Creations, CreationAt, Deposited
<1> QED BY <1>1 DEF Creations

LEMMA TokenCreations ==
  ASSUME MachineTypes, RunTypes, Trees, Creations, NEW s \in Slugs, Token(s) \/ KillToken(s)
  PROVE Creations'
<1>1. TokenOnly(s) /\ ManifestOnly(s) BY TokenRuns, TokenMachine
<1> SUFFICES CreationAt(s)' BY <1>1, CreationsStay
<1>2. CreationAt(s) /\ life' = life BY <1>1 DEF Creations, TokenOnly
<1>3. ASSUME UNCHANGED manifest,
             token'[s].pc \in {"idle", "asked"} => token'[s].made = {},
             token'[s].pc \in {"undoUnits", "undoTree", "removeTree", "undoAccount"} => "tree" \in token'[s].made,
             "tree" \in token'[s].made => "tree" \in token[s].made
      PROVE CreationAt(s)'
  BY <1>2, <1>3 DEF CreationAt, Deposited
<1>4. NoToken.made = {} /\ NoToken.pc = "idle" BY DEF NoToken
<1>5. \/ TokenDeposits(s) \/ TokenRemovesTree(s) \/ UNCHANGED manifest
  BY DEF Token, KillToken, TokenAsked, TokenReads, TokenRefused, TokenPrepares, TokenGivesUp, TokenLays,
     TokenTakes, TokenIsOver, TokenWritesBlock, TokenReloads, TokenPutsBlockBack, TokenLeavesBlock, TokenPlaces,
     TokenRestarts, TokenUndoesUnits, TokenChecksTree, TokenUndoesAccount, disk
<1>6. CASE TokenDeposits(s)
  <2>1. token'[s].pc = "restart" /\ token'[s].made = token[s].made BY <1>6, TokenNext DEF TokenDeposits
  <2>2. manifest'[s] = [port |-> token[s].port, portal |-> token[s].door, off |-> FALSE] /\ token[s].pc = "deposit"
    BY <1>6 DEF TokenDeposits, MachineTypes
  <2>3. manifest'[s] # NoManifest
    <3>1. token[s].port \in Ports BY <2>2 DEF RunTypes
    <3> QED BY <2>2, <3>1, PortsAre DEF NoManifest
  <2> QED BY <1>2, <2>1, <2>2, <2>3 DEF CreationAt, Deposited
<1>7. CASE TokenRemovesTree(s)
  <2>1. token'[s].pc = "undoAccount" /\ token'[s].made = token[s].made BY <1>7, TokenNext DEF TokenRemovesTree
  <2>2. manifest'[s] = NoManifest /\ token[s].pc = "removeTree" BY <1>7 DEF TokenRemovesTree, MachineTypes
  <2> QED BY <1>2, <2>1, <2>2 DEF CreationAt, NoManifest
<1>8. CASE UNCHANGED manifest /\ token'[s] = NoToken BY <1>3, <1>4, <1>8
<1>9. CASE UNCHANGED manifest /\ token'[s] = Stopped(token[s])
  <2>1. CASE "tree" \in token[s].made
    <3>1. token'[s].pc = "undoUnits" /\ token'[s].made = token[s].made BY <1>9, <2>1 DEF Stopped, RunTypes, TokenRun
    <3> QED BY <1>3, <1>9, <2>1, <3>1
  <2>2. CASE "tree" \notin token[s].made BY <1>8, <1>9, <2>2 DEF Stopped
  <2> QED BY <2>1, <2>2
<1>10. CASE \E creating \in BOOLEAN : TokenAsked(s, creating)
  <2>1. token'[s].pc = "asked" /\ token'[s].made = {} BY <1>10 DEF TokenAsked, RunTypes, NoToken
  <2>2. UNCHANGED manifest BY <1>10 DEF TokenAsked, disk
  <2> QED BY <1>3, <2>1, <2>2
<1>11. CASE \E port \in Ports, door \in BOOLEAN : TokenReads(s, port, door)
  <2>1. PICK port \in Ports, door \in BOOLEAN : TokenReads(s, port, door) BY <1>11
  <2>2. token'[s].pc = "prepare" /\ token'[s].made = token[s].made BY <2>1 DEF TokenReads, RunTypes, TokenRun
  <2>3. UNCHANGED manifest BY <2>1 DEF TokenReads, disk
  <2> QED BY <1>3, <2>2, <2>3
<1>12. CASE TokenPrepares(s) /\ token'[s] # NoToken
  <2> DEFINE made == {x \in {"account", "tree"} : IF x = "tree" THEN ~tree[s] ELSE ~account[s]}
  <2>1. token'[s].pc = "units" /\ token'[s].made = made BY <1>12 DEF TokenPrepares, RunTypes, TokenRun
  <2>2. UNCHANGED manifest BY <1>12 DEF TokenPrepares
  <2>3. "tree" \in made => s \notin Deposited BY DEF Trees
  <2>4. s \notin Deposited => life[s].pc = "idle" /\ ~manifest[s].off
    BY <1>2 DEF CreationAt, Deposited, NoManifest
  <2> HIDE DEF made
  <2> QED BY <1>2, <2>1, <2>2, <2>3, <2>4 DEF CreationAt, Deposited
<1>13. CASE TokenLays(s)
  <2>1. token'[s].pc = "lock" /\ token'[s].made \subseteq token[s].made \cup {"unit"}
    BY <1>13 DEF TokenLays, RunTypes, TokenRun
  <2>2. UNCHANGED manifest BY <1>13 DEF TokenLays
  <2> QED BY <1>3, <2>1, <2>2
<1>14. CASE TokenWritesBlock(s) /\ token' = [token EXCEPT ![s].pc = "reload", ![s].was = block[s]]
  <2>1. token'[s].pc = "reload" /\ token'[s].made = token[s].made BY <1>14 DEF RunTypes, TokenRun
  <2>2. UNCHANGED manifest BY <1>14 DEF TokenWritesBlock
  <2> QED BY <1>3, <2>1, <2>2
<1>15. ASSUME UNCHANGED manifest,
              NEW pc \in {"block", "place", "verify", "deposit", "undoTree", "removeTree"}, TokenTo(s, pc),
              pc \in {"undoTree", "removeTree"} => token[s].pc \in {"undoUnits", "undoTree"}
       PROVE CreationAt(s)'
  <2>1. token'[s].pc = pc /\ token'[s].made = token[s].made BY <1>15, TokenNext
  <2>2. pc \in {"undoTree", "removeTree"} => "tree" \in token[s].made BY <1>2, <1>15 DEF CreationAt
  <2> QED BY <1>3, <1>15, <2>1, <2>2
<1>16. CASE UNCHANGED manifest
  <2>1. CASE \/ TokenRefused(s) \/ TokenIsOver(s) \/ TokenPutsBlockBack(s) \/ TokenUndoesAccount(s) \/ KillToken(s)
             \/ \E left, seen \in Blocks : TokenLeavesBlock(s, left, seen)
    <3>1. token' = [token EXCEPT ![s] = NoToken]
      BY <2>1 DEF TokenRefused, TokenIsOver, TokenPutsBlockBack, TokenLeavesBlock, TokenEnds, TokenUndoesAccount, KillToken
    <3> QED BY <1>8, <1>16, <3>1 DEF RunTypes
  <2>2. CASE TokenPrepares(s) BY <1>8, <1>12, <1>16, <2>2
  <2>3. CASE TokenGivesUp(s)
    <3>1. token'[s] = Stopped(token[s]) BY <2>3 DEF TokenGivesUp, RunTypes
    <3> QED BY <1>9, <1>16, <3>1
  <2>4. CASE TokenTakes(s)
    <3>1. \/ token'[s] = Stopped(token[s])
          \/ TokenTo(s, IF token[s].door THEN "block" ELSE "place")
      BY <2>4 DEF TokenTakes, RunTypes
    <3> QED BY <1>9, <1>15, <1>16, <3>1
  <2>5. CASE TokenWritesBlock(s)
    <3>1. \/ token' = [token EXCEPT ![s].pc = "reload", ![s].was = block[s]]
          \/ TokenTo(s, IF token[s].door THEN "place" ELSE "verify")
      BY <2>5 DEF TokenWritesBlock
    <3> QED BY <1>14, <1>15, <1>16, <2>5, <3>1
  <2>6. CASE TokenReloads(s) \/ TokenPlaces(s) \/ TokenRestarts(s)
    BY <1>15, <1>16, <2>6 DEF TokenReloads, TokenPlaces, TokenRestarts
  <2>7. CASE TokenUndoesUnits(s) \/ TokenChecksTree(s)
    <3>1. token[s].pc \in {"undoUnits", "undoTree"} BY <2>7 DEF TokenUndoesUnits, TokenChecksTree
    <3>2. \/ token'[s] = NoToken
          \/ \E pc \in {"undoTree", "removeTree"} : TokenTo(s, pc)
      BY <2>7 DEF TokenUndoesUnits, TokenChecksTree, RunTypes
    <3> QED BY <1>8, <1>15, <1>16, <3>1, <3>2
  <2> QED BY <1>6, <1>7, <1>10, <1>11, <1>13, <2>1, <2>2, <2>3, <2>4, <2>5, <2>6, <2>7 DEF Token
<1> QED BY <1>5, <1>6, <1>7, <1>16

LEMMA SshCreations ==
  ASSUME MachineTypes, RunTypes, Creations, NEW s \in Slugs, Ssh(s)
  PROVE Creations'
<1>1. SshOnly(s) /\ ManifestOnly(s) BY SshRuns, SshMachine
<1>2. CreationAt(s) /\ UNCHANGED <<token, life>> BY <1>1 DEF Creations, SshOnly
<1>3. CASE SshDeposits(s)
  <2>1. manifest'[s] = [port |-> ssh[s].port, portal |-> ssh[s].door, off |-> FALSE] /\ ssh[s].pc = "deposit"
    BY <1>3 DEF SshDeposits, MachineTypes
  <2>2. manifest'[s] # NoManifest
    <3>1. ssh[s].port \in Ports BY <2>1 DEF RunTypes
    <3> QED BY <2>1, <3>1, PortsAre DEF NoManifest
  <2>3. CreationAt(s)' BY <1>2, <2>1, <2>2 DEF CreationAt, Deposited
  <2> QED BY <1>1, <2>3, CreationsStay
<1>4. CASE ~SshDeposits(s)
  <2>1. UNCHANGED manifest
    BY <1>4 DEF Ssh, SshReads, SshPrepares, SshTakes, SshInstallsBlock, SshPushes, SshRestarts, SshStops, disk
  <2>2. CreationAt(s)' BY <1>2, <2>1 DEF CreationAt, Deposited
  <2> QED BY <1>1, <2>2, CreationsStay
<1> QED BY <1>3, <1>4

LEMMA LifeCreations ==
  ASSUME MachineTypes, RunTypes, Compared, Creations, NEW s \in Slugs, Life(s) \/ KillLife(s) \/ SetDoor(s)
  PROVE Creations'
<1>1. LifecycleActive(s) => s \in Deposited BY DEF Compared
<1>2. ManifestOnly(s) BY <1>1, LifeMachine
<1>3. LifeOnly(s)
  <2>1. CASE SetDoor(s) BY <2>1 DEF SetDoor, LifeOnly
  <2> QED BY <2>1, LifeRuns
<1> SUFFICES CreationAt(s)' BY <1>2, <1>3, CreationsStay
<1>4. CreationAt(s) /\ token' = token BY <1>3 DEF Creations, LifeOnly
<1>5. CASE SetDoor(s)
  <2>1. PICK b \in BOOLEAN : manifest' = [manifest EXCEPT ![s].portal = b]
    <3>1. manifest[s].portal \in BOOLEAN BY ManifestIs DEF MachineTypes
    <3> QED BY <1>5, <3>1 DEF SetDoor
  <2>2. s \in Deposited /\ ~manifest[s].off /\ life' = life BY <1>5 DEF SetDoor
  <2>3. manifest'[s] # NoManifest BY <2>1, <2>2, Rewrites DEF MachineTypes
  <2>4. manifest'[s].off = manifest[s].off
    <3>1. manifest[s] \in [port : Ports, portal : BOOLEAN, off : BOOLEAN] BY <2>2, ManifestIs DEF MachineTypes, Deposited
    <3> QED BY <2>1, <3>1 DEF MachineTypes
  <2> QED BY <1>4, <2>2, <2>3, <2>4 DEF CreationAt, Deposited
<1>6. CASE LifeMarks(s) \/ LifeUndoesManifest(s)
  <2>1. LifecycleActive(s) BY <1>6 DEF LifeMarks, LifeUndoesManifest, Undone, LifecycleActive
  <2>2. life[s].pc # "idle" BY <2>1 DEF LifecycleActive
  <2>3. PICK b \in BOOLEAN : manifest' = [manifest EXCEPT ![s].off = b]
    <3>1. manifest[s].off \in BOOLEAN BY ManifestIs DEF MachineTypes
    <3> QED BY <1>6, <3>1 DEF LifeMarks, LifeUndoesManifest
  <2>4. manifest'[s] # NoManifest BY <1>1, <2>1, <2>3, Rewrites DEF MachineTypes
  <2> QED BY <1>4, <2>2, <2>4 DEF CreationAt, Deposited
<1>7. CASE \E t, a \in BOOLEAN : LifeDeletesTree(s, t, a)
  <2>1. life'[s].pc = "idle" /\ life[s].pc = "deleteTree" BY <1>7, LifeGone DEF LifeDeletesTree
  <2> QED BY <1>4, <2>1 DEF CreationAt
<1>8. CASE \E action \in {"disable", "enable", "remove"} : LifeAsked(s, action)
  <2>1. UNCHANGED manifest /\ s \in Deposited /\ token[s].pc \in {"idle", "asked"}
    BY <1>8 DEF LifeAsked, MayDo, InstallerActive, disk
  <2> QED BY <1>4, <2>1 DEF CreationAt, Deposited
<1>9. CASE ~(\/ LifeMarks(s) \/ LifeUndoesManifest(s) \/ SetDoor(s)
             \/ \E t, a \in BOOLEAN : LifeDeletesTree(s, t, a)
             \/ \E action \in {"disable", "enable", "remove"} : LifeAsked(s, action))
  <2>1. UNCHANGED manifest
    BY <1>9 DEF Life, KillLife, LifeTakes, LifeStops, LifeSetsAside, LifeBlocks, LifeReloads, LifeStarts,
       LifeVerifies, LifeDeletesUnits, LifeFails, LifeUndoesBlock, LifeUndoesPublic, LifeUndoesServices,
       LifeUndoFails, LifeUndone, LifeNotRestored, disk
  <2>2. life[s].pc # "idle"
    BY <1>9 DEF Life, KillLife, LifecycleActive, LifeTakes, LifeStops, LifeSetsAside, LifeBlocks, LifeReloads,
       LifeStarts, LifeVerifies, LifeDeletesUnits, LifeFails, LifeUndoesBlock, LifeUndoesPublic, LifeUndoesServices,
       Undone, LifeUndoFails, LifeUndone, LifeNotRestored
  <2> QED BY <1>4, <2>1, <2>2 DEF CreationAt, Deposited
<1> QED BY <1>5, <1>6, <1>7, <1>8, <1>9

LEMMA RunningInit == Init => Running
<1> SUFFICES ASSUME Init PROVE Running OBVIOUS
<1>1. manifest \in [Slugs -> Manifests] BY DEF Init, Manifests
<1>2. MachineTypes
  <2>1. \A s \in Slugs : OwnBlock(manifest[s]) \in Blocks BY OwnBlockIs
  <2>2. block \in [Slugs -> Blocks] /\ loaded \in [Slugs -> Blocks] BY <2>1 DEF Init, Blocks
  <2>3. running \in [Slugs -> BOOLEAN]
    <3>1. \A s \in Slugs : (s \in Deposited /\ ~manifest[s].off) \in BOOLEAN OBVIOUS
    <3> QED BY <3>1, Zenon DEF Init
  <2>4. tree \in [Slugs -> BOOLEAN]
    <3>1. \A s \in Slugs : (s \in Deposited) \in BOOLEAN OBVIOUS
    <3> QED BY <3>1, Zenon DEF Init
  <2>5. account = tree /\ unit = tree /\ backup = {} BY DEF Init
  <2>6. done \in [Kinds -> Nat] /\ public \in [Slugs -> SUBSET {"shown", "stale", "aside"}] BY DEF Init
  <2> QED BY <1>1, <2>2, <2>3, <2>4, <2>5, <2>6 DEF MachineTypes
<1>3. /\ \A s \in Slugs : token[s] = NoToken /\ ssh[s] = NoShell /\ life[s] = NoLife
      /\ lock = Nobody BY DEF Init
<1>4. NoToken.pc = "idle" /\ NoShell.pc = "idle" /\ NoLife.pc = "idle" BY DEF NoToken, NoShell, NoLife
<1>5. RunTypes
  <2>1. NoToken \in TokenRun /\ NoShell \in SshRun BY NoTokenIs DEF NoShell, SshRun, SshPcs
  <2>2. NoLife \in LifeRun
    <3>1. <<>> \in Seq(Undos) BY EmptySeq
    <3> QED BY <3>1 DEF NoLife, LifeRun, LifePcs, Blocks
  <2>3. token \in [Slugs -> TokenRun] /\ ssh \in [Slugs -> SshRun] /\ life \in [Slugs -> LifeRun]
    BY <2>1, <2>2 DEF Init
  <2> QED BY <1>3, <1>4, <2>3 DEF RunTypes
<1>6. \A s \in Slugs : ~TokenLocked(s) /\ ~SshLocked(s) /\ ~LifecycleActive(s)
  BY <1>3, <1>4 DEF TokenLocked, SshLocked, LifecycleActive
<1>7. Holders BY <1>3, <1>6, Names DEF Holders
<1>8. Compared BY <1>6 DEF Compared
<1>9. Trees BY DEF Trees, Init
<1>10. Creations
  <2>1. ASSUME NEW s \in Slugs PROVE CreationAt(s)
    <3>1. token[s].pc = "idle" /\ token[s].made = {} /\ ~token[s].creating BY <1>3 DEF NoToken
    <3>2. life[s].pc = "idle" BY <1>3, <1>4
    <3> QED BY <3>1, <3>2 DEF CreationAt
  <2> QED BY <2>1 DEF Creations
<1>11. PortsApart BY DEF Init, PortsApart, Deposited
<1> QED BY <1>2, <1>5, <1>7, <1>8, <1>9, <1>10, <1>11 DEF Running

LEMMA RunningNext == Running /\ [Next]_vars => Running'
<1> SUFFICES ASSUME Running, [Next]_vars PROVE Running' OBVIOUS
<1> USE DEF Running
<1>1. ASSUME NEW s \in Slugs, Token(s) \/ KillToken(s) PROVE Running'
  <2>1. RunTypes' /\ MachineTypes' BY <1>1, TokenRuns, TokenMachine
  <2>2. Holders' BY <1>1, TokenHolders
  <2>3. Compared' /\ PortsApart' BY <1>1, TokenCompared
  <2>4. Trees' /\ Creations' BY <1>1, TokenTrees, TokenCreations
  <2> QED BY <2>1, <2>2, <2>3, <2>4
<1>2. ASSUME NEW s \in Slugs, Ssh(s) PROVE Running'
  <2>1. RunTypes' /\ MachineTypes' BY <1>2, SshRuns, SshMachine
  <2>2. Holders' BY <1>2, SshHolders
  <2>3. Compared' /\ PortsApart' BY <1>2, SshCompared
  <2>4. Trees' /\ Creations' BY <1>2, SshTrees, SshCreations
  <2> QED BY <2>1, <2>2, <2>3, <2>4
<1>3. ASSUME NEW s \in Slugs, Life(s) \/ KillLife(s) PROVE Running'
  <2>1. LifecycleActive(s) => s \in Deposited BY DEF Compared
  <2>2. RunTypes' /\ MachineTypes' BY <1>3, <2>1, LifeRuns, LifeMachine
  <2>3. Holders' BY <1>3, LifeHolders
  <2>4. Compared' /\ PortsApart' BY <1>3, LifeCompared
  <2>5. Trees' /\ Creations' BY <1>3, LifeTrees, LifeCreations
  <2> QED BY <2>2, <2>3, <2>4, <2>5
<1>4. ASSUME NEW s \in Slugs, SetDoor(s) PROVE Running'
  <2>1. LifecycleActive(s) => s \in Deposited BY DEF Compared
  <2>2. MachineTypes' BY <1>4, <2>1, LifeMachine
  <2>3. Holders' /\ Compared' /\ PortsApart' /\ RunTypes' BY <1>4, DoorCompared
  <2>4. Trees' /\ Creations' BY <1>4, LifeTrees, LifeCreations
  <2> QED BY <2>2, <2>3, <2>4
<1>5. CASE UNCHANGED vars
  <2>1. MachineTypes' /\ RunTypes' BY <1>5 DEF vars, MachineTypes, RunTypes
  <2>2. Holders' BY <1>5 DEF vars, Holders, TokenLocked, SshLocked, LifecycleActive
  <2>3. Compared' BY <1>5 DEF vars, Compared, TokenLocked, SshLocked, LifecycleActive, Taken, Deposited
  <2>4. Trees' /\ Creations' /\ PortsApart' BY <1>5 DEF vars, Trees, Creations, CreationAt, PortsApart, Deposited
  <2> QED BY <2>1, <2>2, <2>3, <2>4
<1> QED BY <1>1, <1>2, <1>3, <1>4, <1>5 DEF Next

LEMMA AlwaysRunning == Spec => []Running
BY RunningInit, RunningNext, PTL DEF Spec

(* What Installer calls type-correct, in whatever state the runs are in.    *)
THEOREM TypeCorrect == Spec => []TypeOK
<1>1. Running => TypeOK
  <2> SUFFICES ASSUME Running PROVE TypeOK OBVIOUS
  <2>1. \A s \in Slugs : s \in Deposited \/ public[s] # {} => tree[s] BY DEF Running, Trees
  <2>2. \A s \in Slugs :
          /\ lock = <<"token", s>> => token[s].pc \in {"block", "reload", "place", "deposit", "restart", "verify"}
          /\ lock = <<"ssh", s>> => ssh[s].pc \in {"block", "push", "deposit", "restart"}
          /\ (lock = <<"life", s>>) = LifecycleActive(s)
    <3> TAKE s \in Slugs
    <3>1. lock = <<"ssh", s>> => ssh[s].pc \in {"block", "push", "deposit", "restart"}
      BY DEF Running, Holders, SshLocked
    <3>2. (lock = <<"life", s>>) = LifecycleActive(s)
      <4>1. LifecycleActive(s) \in BOOLEAN BY DEF LifecycleActive
      <4> QED BY <4>1 DEF Running, Holders
    <3> QED BY <3>1, <3>2 DEF Running, Holders
  <2>3. MachineTypes BY DEF Running
  <2> QED BY <2>1, <2>2, <2>3 DEF TypeOK, MachineTypes, Manifests
<1> QED BY <1>1, AlwaysRunning, PTL

(* Two projects never declare one port, however many deployments choose     *)
(* theirs from one reading: each compares again under the lock.             *)
THEOREM NoPortTwice == Spec => []PortsApart
<1>1. Running => PortsApart BY DEF Running
<1> QED BY <1>1, AlwaysRunning, PTL

-----------------------------------------------------------------------------
(* What the steps of one project leave of the others.                       *)
Apart(s) ==
    /\ \A t \in Slugs \ {s} :
          /\ manifest'[t] = manifest[t] /\ public'[t] = public[t] /\ block'[t] = block[t]
          /\ loaded'[t] \in {loaded[t], block[t]}
          /\ token'[t] = token[t] /\ ssh'[t] = ssh[t] /\ life'[t] = life[t]
    /\ done'["undo"] = 0 => done["undo"] = 0

LEMMA ApartIs ==
  ASSUME MachineTypes, NEW s \in Slugs, ManifestOnly(s), TokenOnly(s) \/ SshOnly(s) \/ LifeOnly(s),
         \A t \in Slugs \ {s} : public'[t] = public[t] /\ block'[t] = block[t],
         loaded' \in {loaded, block, block'} \/ \A t \in Slugs \ {s} : loaded'[t] = loaded[t],
         UNCHANGED done \/ \E k \in Kinds : Begins(k)
  PROVE Apart(s)
<1>1. \A t \in Slugs \ {s} : token'[t] = token[t] /\ ssh'[t] = ssh[t] /\ life'[t] = life[t]
  BY DEF TokenOnly, SshOnly, LifeOnly
<1>2. done'["undo"] = 0 => done["undo"] = 0 BY Begun DEF MachineTypes, Kinds
<1> QED BY <1>1, <1>2 DEF Apart, ManifestOnly

LEMMA TokenApart ==
  ASSUME MachineTypes, RunTypes, NEW s \in Slugs, Token(s) \/ KillToken(s)
  PROVE Apart(s)
<1>1. ManifestOnly(s) /\ TokenOnly(s) BY TokenMachine, TokenRuns
<1>2. UNCHANGED done \/ \E k \in Kinds : Begins(k)
  BY DEF Kinds, Token, KillToken, TokenAsked, TokenReads, TokenRefused, TokenPrepares, TokenGivesUp, TokenLays,
     TokenTakes, TokenIsOver, TokenWritesBlock, TokenReloads, TokenPutsBlockBack, TokenLeavesBlock, TokenPlaces,
     TokenDeposits, TokenRestarts, TokenUndoesUnits, TokenChecksTree, TokenRemovesTree, TokenUndoesAccount
<1>3. loaded' \in {loaded, block, block'} \/ \A t \in Slugs \ {s} : loaded'[t] = loaded[t]
  BY DEF MachineTypes, disk, Token, KillToken, TokenAsked, TokenReads, TokenRefused, TokenPrepares, TokenGivesUp, TokenLays,
     TokenTakes, TokenIsOver, TokenWritesBlock, TokenReloads, TokenPutsBlockBack, TokenLeavesBlock, TokenPlaces,
     TokenDeposits, TokenRestarts, TokenUndoesUnits, TokenChecksTree, TokenRemovesTree, TokenUndoesAccount
<1>4. \A t \in Slugs \ {s} : public'[t] = public[t] /\ block'[t] = block[t]
  BY DEF MachineTypes, disk, Token, KillToken, TokenAsked, TokenReads, TokenRefused, TokenPrepares, TokenGivesUp,
     TokenLays, TokenTakes, TokenIsOver, TokenWritesBlock, TokenReloads, TokenPutsBlockBack, TokenLeavesBlock,
     TokenPlaces, TokenDeposits, TokenRestarts, TokenUndoesUnits, TokenChecksTree, TokenRemovesTree, TokenUndoesAccount
<1> QED BY <1>1, <1>2, <1>3, <1>4, ApartIs

LEMMA SshApart ==
  ASSUME MachineTypes, RunTypes, NEW s \in Slugs, Ssh(s)
  PROVE Apart(s)
<1>1. ManifestOnly(s) /\ SshOnly(s) BY SshMachine, SshRuns
<1>2. UNCHANGED done \/ \E k \in Kinds : Begins(k)
  BY DEF Kinds, Ssh, SshReads, SshPrepares, SshTakes, SshInstallsBlock, SshPushes, SshDeposits, SshRestarts, SshStops
<1>3. loaded' \in {loaded, block, block'}
  BY DEF disk, Ssh, SshReads, SshPrepares, SshTakes, SshInstallsBlock, SshPushes, SshDeposits, SshRestarts, SshStops
<1>4. \A t \in Slugs \ {s} : public'[t] = public[t] /\ block'[t] = block[t]
  BY DEF MachineTypes, disk, Ssh, SshReads, SshPrepares, SshTakes, SshInstallsBlock, SshPushes, SshDeposits,
     SshRestarts, SshStops
<1> QED BY <1>1, <1>2, <1>3, <1>4, ApartIs

LEMMA LifeApart ==
  ASSUME MachineTypes, RunTypes, Compared, NEW s \in Slugs, Life(s) \/ KillLife(s) \/ SetDoor(s)
  PROVE Apart(s)
<1>1. LifecycleActive(s) => s \in Deposited BY DEF Compared
<1>2. ManifestOnly(s) BY <1>1, LifeMachine
<1>3. LifeOnly(s)
  <2>1. CASE SetDoor(s) BY <2>1 DEF SetDoor, LifeOnly
  <2> QED BY <2>1, LifeRuns
<1>4. UNCHANGED done \/ \E k \in Kinds : Begins(k)
  BY DEF Kinds, Life, KillLife, SetDoor, LifeAsked, LifeTakes, LifeMarks, LifeStops, LifeSetsAside, LifeBlocks,
     LifeReloads, LifeStarts, LifeVerifies, LifeDeletesUnits, LifeDeletesTree, LifeFails, LifeUndoesBlock,
     LifeUndoesPublic, LifeUndoesServices, LifeUndoesManifest, LifeUndoFails, LifeUndone, LifeNotRestored
<1>5. loaded' \in {loaded, block, block'}
  BY DEF disk, Life, KillLife, SetDoor, LifeAsked, LifeTakes, LifeMarks, LifeStops, LifeSetsAside, LifeBlocks,
     LifeReloads, LifeStarts, LifeVerifies, LifeDeletesUnits, LifeDeletesTree, LifeFails, LifeUndoesBlock,
     LifeUndoesPublic, LifeUndoesServices, LifeUndoesManifest, LifeUndoFails, LifeUndone, LifeNotRestored
<1>6. \A t \in Slugs \ {s} : public'[t] = public[t] /\ block'[t] = block[t]
  BY DEF MachineTypes, disk, Life, KillLife, SetDoor, LifeAsked, LifeTakes, LifeMarks, LifeStops, LifeSetsAside,
     LifeBlocks, LifeReloads, LifeStarts, LifeVerifies, LifeDeletesUnits, LifeDeletesTree, LifeFails, LifeUndoesBlock,
     LifeUndoesPublic, LifeUndoesServices, LifeUndoesManifest, LifeUndoFails, LifeUndone, LifeNotRestored
<1> QED BY <1>2, <1>3, <1>4, <1>5, <1>6, ApartIs

LEMMA OthersStay ==
  ASSUME NEW s \in Slugs, Apart(s), NEW t \in Slugs, t # s
  PROVE /\ RemovalAt(t) => RemovalAt(t)'
        /\ WayBackAt(t) => WayBackAt(t)'
        /\ ClosedAt(t) => ClosedAt(t)'
<1>1. /\ manifest'[t] = manifest[t] /\ public'[t] = public[t] /\ block'[t] = block[t]
      /\ loaded'[t] \in {loaded[t], block[t]}
      /\ token'[t] = token[t] /\ ssh'[t] = ssh[t] /\ life'[t] = life[t]
      /\ done'["undo"] = 0 => done["undo"] = 0
  BY DEF Apart
<1>2. RemovalAt(t) => RemovalAt(t)' BY <1>1 DEF RemovalAt
<1>3. WayBackAt(t) => WayBackAt(t)' BY <1>1 DEF WayBackAt, NoneOf, Undoable, LifecycleActive
<1>4. ClosedAt(t) => ClosedAt(t)' BY <1>1 DEF ClosedAt, Hidden, Undoable, LifecycleActive
<1> QED BY <1>2, <1>3, <1>4

-----------------------------------------------------------------------------
(* Each step of a run of the lifecycle, for what follows it.                *)
LEMMA RemovalsNext ==
  ASSUME Running, Removals, [Next]_vars
  PROVE Removals'
<1> USE DEF Running
<1>1. ASSUME NEW s \in Slugs, Token(s) \/ KillToken(s) \/ Ssh(s) \/ SetDoor(s) PROVE Removals'
  <2>1. UNCHANGED life
    <3>1. CASE SetDoor(s) BY <3>1 DEF SetDoor
    <3> QED BY <1>1, <3>1, TokenRuns, SshRuns DEF TokenOnly, SshOnly
  <2> QED BY <2>1 DEF Removals, RemovalAt
<1>2. ASSUME NEW s \in Slugs, Life(s) \/ KillLife(s) PROVE Removals'
  <2>1. Apart(s) BY <1>2, LifeApart
  <2>2. RemovalAt(s) BY DEF Removals
  <2> SUFFICES RemovalAt(s)' BY <2>1, OthersStay DEF Removals
  <2>3. CASE \E action \in {"disable", "enable", "remove"} : LifeAsked(s, action)
    <3>1. life'[s].pc = "asked" /\ life'[s].undos = <<>> BY <2>3 DEF LifeAsked, RunTypes, NoLife
    <3> QED BY <3>1 DEF RemovalAt
  <2>4. CASE life' = [life EXCEPT ![s] = NoLife]
    <3>1. life'[s].pc = "idle" /\ life'[s].undos = <<>> BY <2>4 DEF RunTypes, NoLife
    <3> QED BY <3>1 DEF RemovalAt
  <2>5. CASE LifeTakes(s) /\ life' # [life EXCEPT ![s] = NoLife]
    <3>1. life'[s].pc = FirstStep(life[s].action) /\ life'[s].action = life[s].action
      BY <2>5 DEF LifeTakes, RunTypes, LifeRun
    <3> QED BY <3>1 DEF RemovalAt, FirstStep
  <2>6. CASE LifeMarks(s) \/ LifeStops(s) \/ LifeSetsAside(s) \/ LifeBlocks(s) \/ LifeStarts(s)
    <3>1. /\ life'[s].action = life[s].action
          /\ \/ life'[s].pc \in {"stop", "block", "reload", "verify"}
             \/ life'[s].pc = "aside" /\ life[s].action = "remove"
      BY <2>6, LifePushes, LifeNext DEF LifeMarks, LifeStops, LifeSetsAside, LifeBlocks, LifeStarts
    <3> QED BY <3>1 DEF RemovalAt
  <2>7. CASE LifeReloads(s) \/ LifeDeletesUnits(s) \/ \E tried \in BOOLEAN : LifeFails(s, tried)
    <3>1. CASE LifeDeletesUnits(s)
      BY <2>2, <3>1, LifeNext DEF LifeDeletesUnits, RemovalAt
    <3>2. CASE ~LifeDeletesUnits(s)
      <4>1. life'[s].pc \in {"start", "verify", "undo"} BY <2>7, <3>2, LifeTries
      <4> QED BY <4>1 DEF RemovalAt
    <3> QED BY <3>1, <3>2
  <2>8. CASE LifeVerifies(s) /\ life[s].action = "remove"
    <3>1. life'[s].pc = "deleteUnits" /\ life'[s].action = "remove" BY <2>8 DEF LifeVerifies, RunTypes, LifeRun
    <3> QED BY <3>1 DEF RemovalAt
  <2>9. CASE LifeUndoesBlock(s) \/ LifeUndoesPublic(s) \/ LifeUndoesServices(s) \/ LifeUndoesManifest(s) \/ LifeUndoFails(s)
    <3>1. life'[s].pc = "undo"
      <4>1. CASE LifeUndoFails(s) BY <4>1 DEF LifeUndoFails, RunTypes, LifeRun
      <4> QED BY <2>9, <4>1, LifePops DEF LifeUndoesBlock, LifeUndoesPublic, LifeUndoesServices, LifeUndoesManifest
    <3> QED BY <3>1 DEF RemovalAt
  <2> QED
    <3>1. CASE LifeVerifies(s) BY <2>4, <2>8, <3>1 DEF LifeVerifies
    <3>2. CASE (\E t, a \in BOOLEAN : LifeDeletesTree(s, t, a)) \/ LifeUndone(s) \/ LifeNotRestored(s) \/ KillLife(s)
      BY <2>4, <3>2 DEF LifeDeletesTree, LifeUndone, LifeNotRestored, KillLife
    <3> QED BY <1>2, <2>3, <2>4, <2>5, <2>6, <2>7, <2>9, <3>1, <3>2 DEF Life
<1>3. CASE UNCHANGED vars BY <1>3 DEF vars, Removals, RemovalAt
<1> QED BY <1>1, <1>2, <1>3 DEF Next

LEMMA RemovalsInit == Init => Removals
<1>1. NoLife.pc = "idle" /\ NoLife.undos = <<>> BY DEF NoLife
<1> QED BY <1>1 DEF Init, Removals, RemovalAt

-----------------------------------------------------------------------------
(* A token's deployment, and what Caddy serves.                             *)
LEMMA TokenLoaded ==
  ASSUME Running, Loaded, NEW s \in Slugs, Token(s) \/ KillToken(s)
  PROVE Loaded'
<1> USE DEF Running
<1>1. TokenOnly(s) BY TokenRuns
<1>2. \A t \in Slugs : /\ t # s => token'[t] = token[t]
                       /\ life'[t] = life[t] /\ (LifecycleActive(t)' <=> LifecycleActive(t))
                       /\ (Undoable(t)' <=> Undoable(t))
  BY <1>1 DEF TokenOnly, LifecycleActive, Undoable
<1>3. ASSUME UNCHANGED <<block, loaded, backup>>, token'[s].pc # "reload" PROVE Loaded'
  BY <1>2, <1>3 DEF Loaded
<1>4. ASSUME token[s].pc \in {"block", "reload"}
      PROVE \A t \in Slugs : /\ ~LifecycleActive(t) /\ ~Undoable(t)
                             /\ life[t].pc \notin {"start", "verify", "deleteUnits", "deleteTree"}
                             /\ t # s => token[t].pc # "reload"
  <2>1. TokenLocked(s) /\ lock = <<"token", s>> BY <1>4 DEF TokenLocked, Holders
  <2>2. \A t \in Slugs : ~LifecycleActive(t) /\ (t # s => ~TokenLocked(t)) BY <2>1, Alone
  <2> QED BY <2>2 DEF LifecycleActive, Undoable, TokenLocked
<1>5. ASSUME token[s].pc = "reload", token'[s].pc # "reload",
             \/ backup' = backup
             \/ backup' = backup \ {s} /\ loaded' = block'
      PROVE Loaded'
  <2>1. backup = {s} BY <1>5 DEF Loaded
  <2> QED BY <1>2, <1>4, <1>5, <2>1 DEF Loaded
<1>6. CASE TokenWritesBlock(s)
  <2>1. token[s].pc = "block" /\ backup = {} /\ loaded = block /\ loaded' = loaded BY <1>6 DEF TokenWritesBlock, Loaded
  <2>2. CASE UNCHANGED <<block, backup>> /\ TokenTo(s, IF token[s].door THEN "place" ELSE "verify")
    <3>1. token'[s].pc # "reload" BY <2>2, TokenNext
    <3> QED BY <1>3, <2>1, <2>2, <3>1
  <2>3. CASE /\ backup' = backup \cup {s}
             /\ block' = [block EXCEPT ![s] =
                             OwnBlock([port |-> token[s].port, portal |-> token[s].door, off |-> FALSE])]
    <3>1. backup' = {s} /\ \A t \in Slugs \ {s} : loaded'[t] = block'[t] BY <2>1, <2>3 DEF MachineTypes
    <3> QED BY <1>2, <1>4, <2>1, <3>1 DEF Loaded
  <2> QED BY <1>6, <2>2, <2>3 DEF TokenWritesBlock
<1>7. CASE TokenReloads(s) \/ TokenPutsBlockBack(s)
  <2>1. token[s].pc = "reload" /\ backup' = backup \ {s} /\ loaded' = block'
    BY <1>7 DEF TokenReloads, TokenPutsBlockBack, disk
  <2>2. token'[s].pc # "reload"
    BY <1>7, TokenNext, TokenGone DEF TokenReloads, TokenPutsBlockBack, TokenEnds
  <2> QED BY <1>5, <2>1, <2>2
<1>8. CASE \E left, seen \in Blocks : TokenLeavesBlock(s, left, seen)
  <2>1. token[s].pc = "reload" /\ backup' = backup /\ token' = [token EXCEPT ![s] = NoToken]
    BY <1>8 DEF TokenLeavesBlock, TokenEnds
  <2> QED BY <1>5, <2>1, TokenGone
<1>9. CASE KillToken(s)
  <2>1. token'[s].pc # "reload" BY <1>9, TokenGone DEF KillToken
  <2> QED BY <1>3, <1>5, <1>9, <2>1 DEF KillToken, disk
<1>10. CASE ~(\/ TokenWritesBlock(s) \/ TokenReloads(s) \/ TokenPutsBlockBack(s) \/ KillToken(s)
              \/ \E left, seen \in Blocks : TokenLeavesBlock(s, left, seen))
  <2>1. UNCHANGED <<block, loaded, backup>>
    BY <1>10 DEF disk, Token, TokenAsked, TokenReads, TokenRefused, TokenPrepares, TokenGivesUp, TokenLays,
       TokenTakes, TokenIsOver, TokenPlaces, TokenDeposits, TokenRestarts, TokenUndoesUnits, TokenChecksTree,
       TokenRemovesTree, TokenUndoesAccount
  <2>2. token'[s].pc # "reload"
    <3>1. CASE \E creating \in BOOLEAN : TokenAsked(s, creating) BY <3>1 DEF TokenAsked, RunTypes, NoToken
    <3>2. CASE \E port \in Ports, door \in BOOLEAN : TokenReads(s, port, door)
      <4>1. PICK port \in Ports, door \in BOOLEAN : TokenReads(s, port, door) BY <3>2
      <4> QED BY <4>1 DEF TokenReads, RunTypes, TokenRun
    <3>3. CASE TokenLays(s) BY <3>3 DEF TokenLays, RunTypes, TokenRun
    <3>4. CASE TokenPrepares(s) BY <3>4, NoTokenIs DEF TokenPrepares, RunTypes, TokenRun
    <3>5. CASE TokenRefused(s) \/ TokenGivesUp(s) \/ TokenIsOver(s) \/ TokenUndoesAccount(s)
      BY <3>5, TokenGone DEF TokenRefused, TokenGivesUp, TokenIsOver, TokenEnds, TokenUndoesAccount
    <3>6. CASE TokenTakes(s) BY <3>6, TokenGone, TokenNext DEF TokenTakes
    <3>7. CASE TokenPlaces(s) \/ TokenDeposits(s) \/ TokenRestarts(s)
      BY <3>7, TokenNext DEF TokenPlaces, TokenDeposits, TokenRestarts
    <3>8. CASE TokenUndoesUnits(s) \/ TokenChecksTree(s) \/ TokenRemovesTree(s)
      BY <3>8, TokenGone, TokenNext DEF TokenUndoesUnits, TokenChecksTree, TokenRemovesTree
    <3> QED BY <1>10, <3>1, <3>2, <3>3, <3>4, <3>5, <3>6, <3>7, <3>8 DEF Token
  <2> QED BY <1>3, <2>1, <2>2
<1> QED BY <1>6, <1>7, <1>8, <1>9, <1>10

LEMMA TokenWayBack ==
  ASSUME Running, NEW s \in Slugs, WayBackAt(s), Token(s) \/ KillToken(s)
  PROVE WayBackAt(s)'
<1> USE DEF Running
<1>1. life' = life BY TokenRuns DEF TokenOnly
<1>2. done'["undo"] = 0 => done["undo"] = 0 BY TokenApart DEF Apart
<1>3. block'[s] = block[s] \/ ~LifecycleActive(s)
  <2>1. CASE TokenWritesBlock(s) \/ TokenPutsBlockBack(s) \/ \E left, seen \in Blocks : TokenLeavesBlock(s, left, seen)
    <3>1. TokenLocked(s) BY <2>1 DEF TokenWritesBlock, TokenPutsBlockBack, TokenLeavesBlock, TokenLocked
    <3> QED BY <3>1, Alone DEF Holders
  <2>2. CASE ~(\/ TokenWritesBlock(s) \/ TokenPutsBlockBack(s)
               \/ \E left, seen \in Blocks : TokenLeavesBlock(s, left, seen))
    BY <2>2 DEF disk, Token, KillToken, TokenAsked, TokenReads, TokenRefused, TokenPrepares, TokenGivesUp, TokenLays,
       TokenTakes, TokenIsOver, TokenReloads, TokenPlaces, TokenDeposits, TokenRestarts, TokenUndoesUnits,
       TokenChecksTree, TokenRemovesTree, TokenUndoesAccount
  <2> QED BY <2>1, <2>2
<1> QED BY <1>1, <1>2, <1>3 DEF WayBackAt, NoneOf, Undoable, LifecycleActive

LEMMA TokenClosed ==
  ASSUME Running, Loaded, NEW s \in Slugs, ClosedAt(s), Token(s) \/ KillToken(s)
  PROVE ClosedAt(s)'
<1> USE DEF Running
<1>1. UNCHANGED <<ssh, life>> /\ (Undoable(s)' <=> Undoable(s))
  BY TokenRuns DEF TokenOnly, Undoable, LifecycleActive
<1>2. done'["undo"] = 0 => done["undo"] = 0 BY TokenApart DEF Apart
<1>3. ASSUME UNCHANGED <<manifest, public, block>>, loaded'[s] \in {loaded[s], block[s]}, token'[s].pc # "reload",
             token'[s].pc \in {"place", "deposit"} /\ token'[s].door => block[s] = "closed" /\ loaded'[s] = "closed"
      PROVE ClosedAt(s)'
  BY <1>1, <1>2, <1>3 DEF ClosedAt, Hidden
<1>4. ASSUME TokenLocked(s) PROVE ~SshLocked(s) /\ ~LifecycleActive(s)
  BY <1>4, Alone DEF Holders
<1>5. CASE TokenWritesBlock(s)
  <2> DEFINE own == OwnBlock([port |-> token[s].port, portal |-> token[s].door, off |-> FALSE])
  <2>1. token[s].pc = "block" /\ backup = {} /\ loaded = block /\ loaded' = loaded /\ UNCHANGED <<manifest, public>>
    BY <1>5 DEF TokenWritesBlock, Loaded
  <2>2. TokenLocked(s) BY <2>1 DEF TokenLocked
  <2>3. own = IF token[s].door THEN "closed" ELSE "open" BY DEF OwnBlock
  <2>4. CASE block[s] = own /\ UNCHANGED block /\ TokenTo(s, IF token[s].door THEN "place" ELSE "verify")
    <3>1. token'[s].pc = (IF token[s].door THEN "place" ELSE "verify") /\ token'[s].door = token[s].door
      BY <2>4, TokenNext
    <3> QED BY <1>3, <2>1, <2>3, <2>4, <3>1
  <2>5. CASE /\ block' = [block EXCEPT ![s] = own]
             /\ token' = [token EXCEPT ![s].pc = "reload", ![s].was = block[s]]
    <3>1. token'[s].pc = "reload" /\ token'[s].was = block[s] /\ token'[s].door = token[s].door
      BY <2>5 DEF RunTypes, TokenRun
    <3>2. block'[s] = own BY <2>5 DEF MachineTypes
    <3>3. ~token[s].door => ~manifest[s].portal BY <2>2 DEF Compared
    <3>4. ~SshLocked(s) /\ ~LifecycleActive(s) BY <1>4, <2>2
    <3>5. ssh[s].pc \in {"push", "deposit"} => ~ssh[s].door BY <3>4 DEF SshLocked
    <3>6. ~Undoable(s) /\ life[s].pc # "block" BY <3>4 DEF Undoable, LifecycleActive
    <3>7. Hidden(s, block[s])' /\ Hidden(s, token[s].was)'
      BY <1>2, <2>1, <2>3, <3>1, <3>2, <3>3 DEF ClosedAt, Hidden
    <3> QED BY <1>1, <2>1, <2>3, <3>1, <3>2, <3>5, <3>6, <3>7 DEF ClosedAt
  <2> QED BY <1>5, <2>4, <2>5 DEF TokenWritesBlock
<1>6. CASE TokenReloads(s)
  <2>1. token'[s].pc = (IF token[s].door THEN "place" ELSE "verify") /\ token'[s].door = token[s].door
        /\ token[s].pc = "reload"
    BY <1>6, TokenNext DEF TokenReloads
  <2>2. UNCHANGED <<manifest, public, block>> /\ loaded'[s] = block[s] BY <1>6 DEF TokenReloads, disk
  <2>3. token[s].door => block[s] = "closed" BY <2>1 DEF ClosedAt
  <2> QED BY <1>3, <2>1, <2>2, <2>3
<1>7. CASE TokenPutsBlockBack(s)
  <2>1. token[s].pc = "reload" /\ UNCHANGED <<manifest, public>> /\ block'[s] = token[s].was /\ loaded' = block'
    BY <1>7 DEF TokenPutsBlockBack, MachineTypes
  <2>2. TokenLocked(s) BY <2>1 DEF TokenLocked
  <2>3. ~SshLocked(s) /\ ~LifecycleActive(s) BY <1>4, <2>2
  <2>4. ssh[s].pc \in {"push", "deposit"} => ~ssh[s].door BY <2>3 DEF SshLocked
  <2>5. ~Undoable(s) /\ life[s].pc # "block" BY <2>3 DEF Undoable, LifecycleActive
  <2>6. token'[s].pc \in {"idle", "undoUnits"} BY <1>7, TokenGone DEF TokenPutsBlockBack, TokenEnds
  <2>7. Hidden(s, token[s].was) BY <2>1 DEF ClosedAt
  <2> QED BY <1>1, <1>2, <2>1, <2>4, <2>5, <2>6, <2>7 DEF ClosedAt, Hidden
<1>8. CASE TokenPlaces(s) \/ TokenDeposits(s)
  <2>1. token[s].pc \in {"place", "deposit"} /\ UNCHANGED <<block, loaded>> BY <1>8 DEF TokenPlaces, TokenDeposits
  <2>2. TokenLocked(s) BY <2>1 DEF TokenLocked
  <2>3. ~SshLocked(s) /\ ~LifecycleActive(s) BY <1>4, <2>2
  <2>4. ssh[s].pc \in {"push", "deposit"} => ~ssh[s].door BY <2>3 DEF SshLocked
  <2>5. ~Undoable(s) /\ life[s].pc # "block" BY <2>3 DEF Undoable, LifecycleActive
  <2>6. token'[s].pc \in {"deposit", "restart"} /\ token'[s].door = token[s].door
    BY <1>8, TokenNext DEF TokenPlaces, TokenDeposits
  <2>7. token[s].door => block[s] = "closed" /\ loaded[s] = "closed" BY <2>1 DEF ClosedAt
  <2>8. ~token[s].door => ~manifest'[s].portal
    <3>1. CASE TokenPlaces(s) BY <2>2, <3>1 DEF TokenPlaces, Compared
    <3>2. CASE TokenDeposits(s) BY <3>2 DEF TokenDeposits, MachineTypes
    <3> QED BY <1>8, <3>1, <3>2
  <2>9. token[s].door \in BOOLEAN BY DEF RunTypes, TokenRun
  <2>10. Hidden(s, block[s])' /\ (manifest'[s].portal => loaded'[s] # "open")
    BY <2>1, <2>7, <2>8, <2>9 DEF Hidden
  <2> QED BY <1>1, <2>1, <2>4, <2>5, <2>6, <2>7, <2>10 DEF ClosedAt
<1>9. CASE TokenRemovesTree(s)
  <2>1. token'[s].pc = "undoAccount" BY <1>9, TokenNext DEF TokenRemovesTree
  <2>2. UNCHANGED <<block, loaded>> /\ ~manifest'[s].portal BY <1>9 DEF TokenRemovesTree, MachineTypes, NoManifest
  <2>3. UNCHANGED ssh /\ (ssh[s].pc \in {"push", "deposit"} /\ ssh[s].door => block[s] = "closed" /\ loaded[s] = "closed")
    BY <1>1 DEF ClosedAt
  <2> QED BY <1>1, <2>1, <2>2, <2>3 DEF ClosedAt, Hidden
<1>10. CASE KillToken(s)
  <2>1. token'[s].pc \in {"idle", "undoUnits"} BY <1>10, TokenGone DEF KillToken
  <2> QED BY <1>3, <1>10, <2>1 DEF KillToken, disk
<1>11. CASE \E left, seen \in Blocks : TokenLeavesBlock(s, left, seen)
  <2>1. /\ token[s].pc = "reload" /\ UNCHANGED <<manifest, public>>
        /\ block'[s] \in {block[s], token[s].was} /\ loaded'[s] \in {block[s], token[s].was}
    BY <1>11 DEF TokenLeavesBlock, MachineTypes
  <2>2. TokenLocked(s) BY <2>1 DEF TokenLocked
  <2>3. ~SshLocked(s) /\ ~LifecycleActive(s) BY <1>4, <2>2
  <2>4. ssh[s].pc \in {"push", "deposit"} => ~ssh[s].door BY <2>3 DEF SshLocked
  <2>5. ~Undoable(s) /\ life[s].pc # "block" BY <2>3 DEF Undoable, LifecycleActive
  <2>6. token'[s].pc \in {"idle", "undoUnits"} BY <1>11, TokenGone DEF TokenLeavesBlock, TokenEnds
  <2>7. Hidden(s, token[s].was) /\ Hidden(s, block[s]) BY <2>1 DEF ClosedAt
  <2>8. Hidden(s, block[s])' /\ (manifest'[s].portal => loaded'[s] # "open") BY <1>2, <2>1, <2>7 DEF Hidden
  <2> QED BY <1>1, <2>4, <2>5, <2>6, <2>8 DEF ClosedAt
<1>12. CASE ~(\/ TokenWritesBlock(s) \/ TokenReloads(s) \/ TokenPutsBlockBack(s) \/ TokenPlaces(s) \/ TokenDeposits(s)
              \/ TokenRemovesTree(s) \/ KillToken(s) \/ \E left, seen \in Blocks : TokenLeavesBlock(s, left, seen))
  <2>1. UNCHANGED <<manifest, public, block, loaded>>
    BY <1>12 DEF disk, Token, TokenAsked, TokenReads, TokenRefused, TokenPrepares, TokenGivesUp, TokenLays,
       TokenTakes, TokenIsOver, TokenRestarts, TokenUndoesUnits, TokenChecksTree, TokenUndoesAccount
  <2> SUFFICES \/ token'[s].pc \notin {"reload", "place", "deposit"}
               \/ token'[s].pc = "place" /\ ~token'[s].door
    BY <1>3, <2>1
  <2>2. CASE \E creating \in BOOLEAN : TokenAsked(s, creating) BY <2>2 DEF TokenAsked, RunTypes, NoToken
  <2>3. CASE \E port \in Ports, door \in BOOLEAN : TokenReads(s, port, door)
    <3>1. PICK port \in Ports, door \in BOOLEAN : TokenReads(s, port, door) BY <2>3
    <3> QED BY <3>1 DEF TokenReads, RunTypes, TokenRun
  <2>4. CASE TokenLays(s) BY <2>4 DEF TokenLays, RunTypes, TokenRun
  <2>5. CASE TokenPrepares(s)
    <3>1. token'[s].pc \in {"units", "idle"} BY <2>5, NoTokenIs DEF TokenPrepares, RunTypes, TokenRun
    <3> QED BY <3>1
  <2>6. CASE TokenRefused(s) \/ TokenGivesUp(s) \/ TokenIsOver(s) \/ TokenUndoesAccount(s)
    BY <2>6, TokenGone DEF TokenRefused, TokenGivesUp, TokenIsOver, TokenEnds, TokenUndoesAccount
  <2>7. CASE TokenTakes(s)
    <3>1. CASE token' = [token EXCEPT ![s] = Stopped(@)] BY <3>1, TokenGone
    <3>2. CASE TokenTo(s, IF token[s].door THEN "block" ELSE "place")
      BY <3>2, TokenNext
    <3> QED BY <2>7, <3>1, <3>2 DEF TokenTakes
  <2>8. CASE TokenRestarts(s) \/ TokenUndoesUnits(s) \/ TokenChecksTree(s)
    BY <2>8, TokenNext, TokenGone DEF TokenRestarts, TokenUndoesUnits, TokenChecksTree
  <2> QED BY <1>12, <2>2, <2>3, <2>4, <2>5, <2>6, <2>7, <2>8 DEF Token
<1> QED BY <1>5, <1>6, <1>7, <1>8, <1>9, <1>10, <1>11, <1>12

-----------------------------------------------------------------------------
(* The owner's deployment over SSH, and what Caddy serves.                  *)
LEMMA SshLoaded ==
  ASSUME Running, Loaded, NEW s \in Slugs, Ssh(s)
  PROVE Loaded'
<1> USE DEF Running
<1>1. UNCHANGED <<token, life>>
      /\ \A t \in Slugs : (LifecycleActive(t)' <=> LifecycleActive(t)) /\ (Undoable(t)' <=> Undoable(t))
  BY SshRuns DEF SshOnly, LifecycleActive, Undoable
<1>2. CASE SshInstallsBlock(s)
  <2>1. ssh[s].pc = "block" /\ backup' = backup /\ loaded' = block' BY <1>2 DEF SshInstallsBlock
  <2>2. SshLocked(s) /\ lock = <<"ssh", s>> BY <2>1 DEF SshLocked, Holders
  <2>3. \A t \in Slugs : ~TokenLocked(t) /\ ~LifecycleActive(t) BY <2>2, Alone
  <2>4. \A t \in Slugs : token[t].pc # "reload" /\ ~Undoable(t) BY <2>3 DEF TokenLocked, Undoable
  <2> QED BY <1>1, <2>1, <2>3, <2>4 DEF Loaded
<1>3. CASE ~SshInstallsBlock(s)
  <2>1. UNCHANGED <<backup, block, loaded>>
    BY <1>3 DEF disk, Ssh, SshReads, SshPrepares, SshTakes, SshPushes, SshDeposits, SshRestarts, SshStops
  <2> QED BY <1>1, <2>1 DEF Loaded
<1> QED BY <1>2, <1>3

LEMMA SshWayBack ==
  ASSUME Running, NEW s \in Slugs, WayBackAt(s), Ssh(s)
  PROVE WayBackAt(s)'
<1> USE DEF Running
<1>1. life' = life BY SshRuns DEF SshOnly
<1>2. done'["undo"] = 0 => done["undo"] = 0 BY SshApart DEF Apart
<1>3. block'[s] = block[s] \/ ~LifecycleActive(s)
  <2>1. CASE SshInstallsBlock(s)
    <3>1. SshLocked(s) BY <2>1 DEF SshInstallsBlock, SshLocked
    <3> QED BY <3>1, Alone DEF Holders
  <2>2. CASE ~SshInstallsBlock(s)
    BY <2>2 DEF disk, Ssh, SshReads, SshPrepares, SshTakes, SshPushes, SshDeposits, SshRestarts, SshStops
  <2> QED BY <2>1, <2>2
<1> QED BY <1>1, <1>2, <1>3 DEF WayBackAt, NoneOf, Undoable, LifecycleActive

LEMMA SshClosed ==
  ASSUME Running, NEW s \in Slugs, ClosedAt(s), Ssh(s)
  PROVE ClosedAt(s)'
<1> USE DEF Running
<1>1. UNCHANGED <<token, life>> /\ (Undoable(s)' <=> Undoable(s))
  BY SshRuns DEF SshOnly, Undoable, LifecycleActive
<1>2. done'["undo"] = 0 => done["undo"] = 0 BY SshApart DEF Apart
<1>3. ssh[s].door \in BOOLEAN BY DEF RunTypes, SshRun
<1>4. ASSUME SshLocked(s)
      PROVE /\ token[s].pc \notin {"reload", "place", "deposit"}
            /\ ~Undoable(s) /\ life[s].pc # "block"
  <2>1. ~TokenLocked(s) /\ ~LifecycleActive(s) BY <1>4, Alone DEF Holders
  <2> QED BY <2>1 DEF TokenLocked, Undoable, LifecycleActive
<1>5. CASE SshInstallsBlock(s)
  <2>1. ssh[s].pc = "block" /\ UNCHANGED <<manifest, public>> /\ loaded' = block'
        /\ block'[s] = IF ssh[s].door THEN "closed" ELSE "open"
    BY <1>5 DEF SshInstallsBlock, MachineTypes
  <2>2. SshLocked(s) BY <2>1 DEF SshLocked
  <2>3. ~ssh[s].door => ~manifest[s].portal BY <2>2 DEF Compared
  <2>4. ssh'[s].pc \in {"push", "deposit"} => ssh[s].door
    BY <1>5, SshGone DEF SshInstallsBlock
  <2>5. Hidden(s, block[s])' /\ (manifest'[s].portal => loaded'[s] # "open") BY <2>1, <2>3 DEF Hidden
  <2> QED BY <1>1, <1>4, <2>1, <2>2, <2>4, <2>5 DEF ClosedAt
<1>6. CASE SshPushes(s)
  <2>1. ssh[s].pc = "push" /\ UNCHANGED <<manifest, block, loaded>> /\ (Outdated(s) => "stale" \in public'[s])
    BY <1>6 DEF SshPushes, MachineTypes
  <2>2. ssh'[s].pc = (IF ssh[s].door THEN "deposit" ELSE "lock") /\ ssh'[s].door = ssh[s].door
    BY <1>6, SshNext DEF SshPushes
  <2>3. CASE ssh[s].door
    <3>1. SshLocked(s) BY <2>1, <2>3 DEF SshLocked
    <3>2. block[s] = "closed" /\ loaded[s] = "closed" BY <2>1, <2>3 DEF ClosedAt
    <3>3. Hidden(s, block[s])' BY <2>1, <3>2 DEF Hidden
    <3> QED BY <1>1, <1>4, <2>1, <3>1, <3>2, <3>3 DEF ClosedAt
  <2>4. CASE ~ssh[s].door
    <3>1. manifest[s].portal => "stale" \in public'[s] BY <2>1, <2>4 DEF Outdated
    <3>2. ssh'[s].pc = "lock" BY <2>2, <2>4
    <3> QED BY <1>1, <2>1, <3>1, <3>2 DEF ClosedAt, Hidden
  <2> QED BY <1>3, <2>3, <2>4
<1>7. CASE SshDeposits(s)
  <2>1. ssh[s].pc = "deposit" /\ UNCHANGED <<public, block, loaded>> /\ manifest'[s].portal = ssh[s].door
    BY <1>7 DEF SshDeposits, MachineTypes
  <2>2. SshLocked(s) BY <2>1 DEF SshLocked
  <2>3. ssh'[s].pc = "restart" BY <1>7, SshNext DEF SshDeposits
  <2>4. ssh[s].door => block[s] = "closed" /\ loaded[s] = "closed" BY <2>1 DEF ClosedAt
  <2>5. Hidden(s, block[s])' /\ (manifest'[s].portal => loaded'[s] # "open") BY <2>1, <2>4 DEF Hidden
  <2> QED BY <1>1, <1>4, <2>2, <2>3, <2>5 DEF ClosedAt
<1>8. CASE ~(SshInstallsBlock(s) \/ SshPushes(s) \/ SshDeposits(s))
  <2>1. UNCHANGED <<manifest, public, block, loaded>>
    BY <1>8 DEF disk, Ssh, SshReads, SshPrepares, SshTakes, SshRestarts, SshStops
  <2>2. ssh'[s].pc \notin {"push", "deposit"} \/ ~ssh'[s].door
    <3>1. CASE \E port \in Ports, door \in BOOLEAN : SshReads(s, port, door) BY <3>1 DEF SshReads, RunTypes
    <3>2. CASE SshPrepares(s) BY <1>3, <3>2, SshNext DEF SshPrepares
    <3>3. CASE SshTakes(s) BY <1>3, <3>3, SshNext, SshGone DEF SshTakes
    <3>4. CASE SshRestarts(s) \/ SshStops(s) BY <3>4, SshNext, SshGone DEF SshRestarts, SshStops
    <3> QED BY <1>8, <3>1, <3>2, <3>3, <3>4 DEF Ssh
  <2> QED BY <1>1, <1>2, <2>1, <2>2 DEF ClosedAt, Hidden
<1> QED BY <1>5, <1>6, <1>7, <1>8

-----------------------------------------------------------------------------
(* Turned off, on, removed: what Caddy serves, and the way back.            *)
LEMMA LifeLoaded ==
  ASSUME Running, Loaded, NEW s \in Slugs, WayBackAt(s), Life(s) \/ KillLife(s)
  PROVE Loaded'
<1> USE DEF Running
<1>1. LifeOnly(s) BY LifeRuns
<1>2. /\ UNCHANGED token
      /\ \A t \in Slugs : t # s => /\ life'[t] = life[t] /\ (LifecycleActive(t)' <=> LifecycleActive(t))
                                   /\ (Undoable(t)' <=> Undoable(t))
  BY <1>1 DEF LifeOnly, LifecycleActive, Undoable
<1>3. ASSUME LifecycleActive(s)
      PROVE /\ backup = {s} /\ \A t \in Slugs \ {s} : loaded[t] = block[t]
            /\ \A t \in Slugs : token[t].pc # "reload"
            /\ \A t \in Slugs : t # s => ~LifecycleActive(t) /\ ~Undoable(t)
                                          /\ life[t].pc \notin {"start", "verify", "deleteUnits", "deleteTree"}
  <2>1. lock = <<"life", s>> BY <1>3 DEF Holders
  <2>2. \A t \in Slugs : ~TokenLocked(t) /\ (t # s => ~LifecycleActive(t)) BY <2>1, Alone
  <2>3. \A t \in Slugs : token[t].pc # "reload" BY <2>2 DEF TokenLocked
  <2>4. \A t \in Slugs : t # s => ~Undoable(t) /\ life[t].pc \notin {"start", "verify", "deleteUnits", "deleteTree"}
    BY <2>2 DEF LifecycleActive, Undoable
  <2> QED BY <1>3, <2>2, <2>3, <2>4 DEF Loaded
<1>4. ASSUME LifecycleActive(s), backup' = backup, \A t \in Slugs \ {s} : block'[t] = block[t],
             loaded' \in {loaded, block},
             life'[s].pc \in {"start", "verify", "deleteUnits", "deleteTree"} => loaded'[s] = block'[s],
             Undoable(s)' /\ ~life'[s].tried => loaded'[s] = life'[s].was
      PROVE Loaded'
  <2>1. backup' = {s} /\ \A t \in Slugs \ {s} : loaded'[t] = block'[t] BY <1>3, <1>4
  <2> QED BY <1>2, <1>3, <1>4, <2>1 DEF Loaded
<1>5. ASSUME LifecycleActive(s), life'[s].pc = "idle", backup' \in {backup, {}}, backup' = {} => loaded' = block'
      PROVE Loaded'
  <2>1. ~LifecycleActive(s)' /\ ~Undoable(s)' BY <1>5 DEF LifecycleActive, Undoable
  <2> QED BY <1>2, <1>3, <1>5, <2>1 DEF Loaded
<1>6. ASSUME LifecycleActive(s), loaded[s] = block[s], UNCHANGED <<block, loaded>> PROVE loaded' = block'
  BY <1>3, <1>6 DEF MachineTypes
<1>7. CASE (\E action \in {"disable", "enable", "remove"} : LifeAsked(s, action)) \/ LifeTakes(s)
  <2>1. UNCHANGED <<block, loaded>> BY <1>7 DEF LifeAsked, LifeTakes, disk
  <2>2. CASE LifeTakes(s) /\ life' # [life EXCEPT ![s] = NoLife]
    <3>1. backup = {} /\ backup' = {s} BY <2>2 DEF LifeTakes
    <3>2. life'[s].pc \in {"stop", "mark"} /\ life'[s].was = block[s]
      BY <2>2 DEF LifeTakes, FirstStep, RunTypes, LifeRun
    <3>3. \A t \in Slugs : /\ token[t].pc # "reload" /\ ~LifecycleActive(t) /\ ~Undoable(t)
                           /\ life[t].pc \notin {"start", "verify", "deleteUnits", "deleteTree"}
      BY <3>1 DEF Loaded, LifecycleActive, Undoable
    <3>4. loaded' = block' BY <2>1, <3>1 DEF Loaded
    <3> QED BY <1>2, <2>1, <3>1, <3>2, <3>3, <3>4 DEF Loaded
  <2>3. CASE backup' = backup /\ life'[s].pc \in {"idle", "asked"}
    <3>1. ~LifecycleActive(s)' /\ ~Undoable(s)' BY <2>3 DEF LifecycleActive, Undoable
    <3> QED BY <1>2, <2>1, <2>3, <3>1 DEF Loaded
  <2>4. CASE \E action \in {"disable", "enable", "remove"} : LifeAsked(s, action)
    <3>1. backup' = backup /\ life'[s].pc = "asked" BY <2>4 DEF LifeAsked, RunTypes, NoLife
    <3> QED BY <2>3, <3>1
  <2>5. CASE LifeTakes(s) /\ life' = [life EXCEPT ![s] = NoLife]
    <3>1. life'[s].pc = "idle" BY <2>5, LifeGone
    <3>2. FirstStep(life[s].action) # "idle" BY DEF FirstStep
    <3>3. backup' = backup BY <2>5, <3>1, <3>2 DEF LifeTakes, RunTypes, LifeRun
    <3> QED BY <2>3, <3>1, <3>3
  <2> QED BY <1>7, <2>2, <2>4, <2>5
<1>8. CASE LifeMarks(s) \/ LifeStops(s) \/ LifeSetsAside(s) \/ LifeBlocks(s)
  <2>1. LifecycleActive(s) /\ Undoable(s) /\ UNCHANGED <<loaded, backup>> /\ \A t \in Slugs \ {s} : block'[t] = block[t]
    BY <1>8 DEF LifeMarks, LifeStops, LifeSetsAside, LifeBlocks, LifecycleActive, Undoable, MachineTypes, disk
  <2>2. life'[s].pc \in {"stop", "block", "aside", "reload"} /\ life'[s].was = life[s].was /\ life'[s].tried = life[s].tried
    BY <1>8, LifePushes, LifeNext DEF LifeMarks, LifeStops, LifeSetsAside, LifeBlocks
  <2> QED BY <1>4, <2>1, <2>2 DEF Loaded
<1>9. CASE LifeReloads(s) \/ \E tried \in BOOLEAN : LifeFails(s, tried)
  <2>1. LifecycleActive(s) /\ Undoable(s) BY <1>9, LifeTries DEF LifecycleActive, Undoable
  <2>2. UNCHANGED <<block, backup>> /\ loaded' \in {loaded, block} BY <1>9, LifeTries DEF disk
  <2>3. life'[s].pc \in {"start", "verify"} => loaded'[s] = block'[s] BY <1>9, <2>2, LifeTries
  <2>4. life'[s].pc \in {"start", "verify", "undo"} BY <1>9, LifeTries
  <2>5. ~life'[s].tried => loaded'[s] = life'[s].was
    <3>1. ~life'[s].tried => ~life[s].tried /\ loaded' = loaded /\ life'[s].was = life[s].was BY <1>9, LifeTries
    <3> QED BY <2>1, <3>1 DEF Loaded
  <2> QED BY <1>4, <2>1, <2>2, <2>3, <2>4, <2>5
<1>10. CASE LifeStarts(s) \/ LifeDeletesUnits(s) \/ (LifeVerifies(s) /\ life[s].action = "remove")
  <2>1. LifecycleActive(s) /\ UNCHANGED <<block, loaded, backup>>
        /\ life[s].pc \in {"start", "verify", "deleteUnits", "deleteTree"}
    BY <1>10 DEF LifeStarts, LifeDeletesUnits, LifeVerifies, LifecycleActive, disk
  <2>2. loaded[s] = block[s] BY <2>1 DEF Loaded
  <2>3. Undoable(s)' /\ ~life'[s].tried => loaded'[s] = life'[s].was
    <3>1. CASE LifeStarts(s)
      <4>1. Undoable(s) /\ life'[s].was = life[s].was /\ life'[s].tried = life[s].tried
        BY <2>1, <3>1, LifePushes DEF LifeStarts, Undoable
      <4> QED BY <2>1, <4>1 DEF Loaded
    <3>2. CASE ~LifeStarts(s)
      <4>1. life'[s].pc \in {"deleteUnits", "deleteTree"}
        BY <1>10, <3>2, LifeNext DEF LifeDeletesUnits, LifeVerifies, RunTypes, LifeRun
      <4> QED BY <4>1 DEF Undoable
    <3> QED BY <3>1, <3>2
  <2> QED BY <1>4, <2>1, <2>2, <2>3
<1>11. CASE LifeUndoesBlock(s) \/ LifeUndoesPublic(s) \/ LifeUndoesServices(s) \/ LifeUndoesManifest(s) \/ LifeUndoFails(s)
  <2>1. life[s].pc = "undo" /\ life'[s].pc = "undo" /\ life'[s].was = life[s].was /\ life'[s].tried = life[s].tried
    <3>1. CASE LifeUndoFails(s) BY <3>1 DEF LifeUndoFails, RunTypes, LifeRun
    <3> QED BY <1>11, <3>1, LifePops DEF LifeUndoesBlock, LifeUndoesPublic, LifeUndoesServices, LifeUndoesManifest
  <2>2. LifecycleActive(s) /\ Undoable(s) BY <2>1 DEF LifecycleActive, Undoable
  <2>3. UNCHANGED <<loaded, backup>> /\ \A t \in Slugs \ {s} : block'[t] = block[t]
    BY <1>11 DEF LifeUndoesBlock, LifeUndoesPublic, LifeUndoesServices, LifeUndoesManifest, LifeUndoFails, disk,
       MachineTypes
  <2> QED BY <1>4, <2>1, <2>2, <2>3 DEF Loaded
<1>12. CASE (LifeVerifies(s) /\ life[s].action # "remove") \/ \E t, a \in BOOLEAN : LifeDeletesTree(s, t, a)
  <2>1. life[s].pc \in {"verify", "deleteTree"} /\ life' = [life EXCEPT ![s] = NoLife] /\ backup' = {}
        /\ UNCHANGED <<block, loaded>>
    BY <1>12 DEF LifeVerifies, LifeDeletesTree, disk
  <2>2. LifecycleActive(s) /\ life'[s].pc = "idle" BY <2>1, LifeGone DEF LifecycleActive
  <2>3. loaded[s] = block[s] BY <2>1 DEF Loaded
  <2> QED BY <1>5, <1>6, <2>1, <2>2, <2>3
<1>13. CASE LifeUndone(s)
  <2>1. /\ life[s].pc = "undo" /\ life[s].undos = <<>> /\ life' = [life EXCEPT ![s] = NoLife] /\ block' = block
        /\ loaded' = IF life[s].tried THEN block ELSE loaded
        /\ backup' = IF life[s].failed THEN backup ELSE {}
    BY <1>13 DEF LifeUndone, disk
  <2>2. LifecycleActive(s) /\ Undoable(s) /\ life'[s].pc = "idle" BY <2>1, LifeGone DEF LifecycleActive, Undoable
  <2>3. backup' = {} => loaded' = block'
    <3>1. CASE life[s].tried BY <2>1, <3>1
    <3>2. CASE life[s].failed BY <1>3, <2>1, <2>2, <3>2
    <3>3. CASE ~life[s].tried /\ ~life[s].failed
      <4>1. Len(<<>>) = 0 /\ 1..0 = {} OBVIOUS
      <4>2. NoneOf("block", life[s].undos) BY <2>1, <4>1 DEF NoneOf
      <4>3. block[s] = life[s].was BY <2>2, <3>3, <4>2 DEF WayBackAt
      <4>4. loaded[s] = block[s] BY <2>2, <3>3, <4>3 DEF Loaded
      <4> QED BY <1>6, <2>1, <2>2, <3>3, <4>4
    <3> QED BY <3>1, <3>2, <3>3
  <2> QED BY <1>5, <2>1, <2>2, <2>3
<1>14. CASE KillLife(s) \/ LifeNotRestored(s)
  <2>1. LifecycleActive(s) /\ life'[s].pc = "idle" /\ backup' = backup
    BY <1>14, LifeGone DEF KillLife, LifeNotRestored, LifecycleActive
  <2> QED BY <1>3, <1>5, <2>1
<1> QED BY <1>7, <1>8, <1>9, <1>10, <1>11, <1>12, <1>13, <1>14 DEF Life

LEMMA DoorLoaded ==
  ASSUME Running, Loaded, NEW s \in Slugs, SetDoor(s)
  PROVE Loaded'
<1>1. lock = Nobody /\ loaded' = block' /\ UNCHANGED <<backup, token, life>> BY DEF SetDoor
<1>2. \A t \in Slugs : ~TokenLocked(t) /\ ~LifecycleActive(t) BY <1>1, Names DEF Running, Holders
<1>3. \A t \in Slugs : /\ token'[t].pc # "reload" /\ ~LifecycleActive(t)' /\ ~Undoable(t)'
                       /\ life'[t].pc \notin {"start", "verify", "deleteUnits", "deleteTree"}
  BY <1>1, <1>2 DEF TokenLocked, LifecycleActive, Undoable
<1> QED BY <1>1, <1>3 DEF Loaded

(* A step pushed, and the last one undone, in what a way back is made of.   *)
LEMMA WayBackPushed ==
  ASSUME RunTypes, NEW s \in Slugs, WayBackAt(s), NEW u \in Undos, NEW pc \in {"stop", "aside", "block", "reload", "verify"},
         LifeDoes(s, u, pc), done' = done,
         u = "block" => pc = "reload",
         u # "block" => block'[s] = block[s],
         pc \in {"stop", "aside", "block"} => NoneOf("block", life[s].undos) /\ u # "block",
         u = "public" => NoneOf("block", life[s].undos) /\ life[s].was # "none",
         Undoable(s)
  PROVE WayBackAt(s)'
<1> DEFINE q == life[s].undos
           r == life'[s].undos
           n == Len(q)
<1>1. life'[s].pc = pc /\ life'[s].was = life[s].was /\ r = Append(q, u) BY LifePushes
<1>2. q \in Seq(Undos) BY DEF RunTypes, LifeRun
<1>3. Len(r) = n + 1 /\ n \in Nat /\ (\A i \in 1..n : r[i] = q[i]) /\ r[n + 1] = u BY <1>1, <1>2, LongerIs
<1> HIDE DEF r, n
<1>4. \A i \in 1..Len(r) : i \in 1..n \/ i = n + 1 BY <1>3
<1>5. NoneOf("block", r) => NoneOf("block", q) /\ u # "block"
  BY <1>3 DEF NoneOf, n
<1>6. NoneOf("block", q) /\ u # "block" => NoneOf("block", r)
  BY <1>3, <1>4 DEF NoneOf, n
<1>7. \A i \in 1..Len(r) : r[i] = "public" => life[s].was # "none"
  BY <1>3, <1>4 DEF WayBackAt, n
<1>8. \A i, j \in 1..Len(r) : r[i] = "public" /\ r[j] = "block" => i < j
  <2> SUFFICES ASSUME NEW i \in 1..Len(r), NEW j \in 1..Len(r), r[i] = "public", r[j] = "block" PROVE i < j
    OBVIOUS
  <2>1. CASE i \in 1..n /\ j \in 1..n BY <1>3, <2>1 DEF WayBackAt, n
  <2>2. CASE i \in 1..n /\ j = n + 1 BY <1>3, <2>2
  <2>3. CASE i = n + 1
    <3>1. NoneOf("block", q) /\ u = "public" BY <1>3, <2>3
    <3>2. NoneOf("block", r) BY <1>6, <3>1
    <3> QED BY <3>2 DEF NoneOf
  <2> QED BY <1>4, <2>1, <2>2, <2>3
<1>9. (done'["undo"] = 0 \/ ~life'[s].failed) /\ NoneOf("block", r) => block'[s] = life[s].was
  <2>1. life'[s].failed = life[s].failed BY LifePushes
  <2> QED BY <1>5, <2>1 DEF WayBackAt
<1>10. pc \in {"mark", "stop", "aside", "block"} => NoneOf("block", r) BY <1>6
<1> QED BY <1>1, <1>7, <1>8, <1>9, <1>10 DEF WayBackAt, NoneOf, r

LEMMA WayBackPopped ==
  ASSUME RunTypes, NEW s \in Slugs, WayBackAt(s),
         life[s].undos # <<>>, life[s].pc = "undo", life'[s].pc = "undo", life'[s].was = life[s].was,
         life'[s].undos = AllButLast(life[s].undos), done'["undo"] = 0 => done["undo"] = 0,
         ~life'[s].failed => ~life[s].failed,
         \/ block'[s] = block[s] /\ Last(life[s].undos) # "block"
         \/ block'[s] = life[s].was
         \/ done'["undo"] # 0 /\ life'[s].failed
  PROVE WayBackAt(s)'
<1> DEFINE q == life[s].undos
           r == life'[s].undos
           n == Len(r)
<1>1. q \in Seq(Undos) BY DEF RunTypes, LifeRun
<1>2. Len(q) = n + 1 /\ n \in Nat /\ (\A i \in 1..n : r[i] = q[i]) /\ Last(q) = q[n + 1]
  <2>1. /\ Len(r) = Len(q) - 1 /\ Len(q) \in Nat \ {0}
        /\ \A i \in 1..Len(q) - 1 : r[i] = q[i]
        /\ Last(q) = q[Len(q)]
    BY <1>1, ShorterIs
  <2> HIDE DEF q, r
  <2>2. Len(q) = n + 1 /\ n \in Nat BY <2>1
  <2> QED BY <2>1, <2>2
<1> HIDE DEF r, n
<1>3. \A i \in 1..n : i \in 1..Len(q) BY <1>2
<1>4. \A i \in 1..n : r[i] = "public" => life[s].was # "none" BY <1>2, <1>3 DEF WayBackAt
<1>5. \A i, j \in 1..n : r[i] = "public" /\ r[j] = "block" => i < j BY <1>2, <1>3 DEF WayBackAt
<1>6. NoneOf("block", r) /\ Last(q) # "block" => NoneOf("block", q)
  <2>1. \A i \in 1..Len(q) : i \in 1..n \/ i = n + 1 BY <1>2
  <2> QED BY <1>2, <2>1 DEF NoneOf, n
<1>7. (done'["undo"] = 0 \/ ~life'[s].failed) /\ NoneOf("block", r) => block'[s] = life[s].was
  <2>1. Undoable(s) BY DEF Undoable, LifecycleActive
  <2> QED BY <1>6, <2>1 DEF WayBackAt
<1> QED BY <1>4, <1>5, <1>7 DEF WayBackAt, NoneOf, r, n

LEMMA WayBackEmpty ==
  ASSUME NEW s \in Slugs, life'[s].undos = <<>>, Undoable(s)' => block'[s] = life'[s].was
  PROVE WayBackAt(s)'
<1>1. Len(<<>>) = 0 /\ 1..0 = {} OBVIOUS
<1> QED BY <1>1 DEF WayBackAt, NoneOf

LEMMA WayBackMoved ==
  ASSUME NEW s \in Slugs, WayBackAt(s), life'[s].undos = life[s].undos, life'[s].was = life[s].was,
         life'[s].failed = life[s].failed, block'[s] = block[s], done'["undo"] = 0 => done["undo"] = 0, Undoable(s)' => Undoable(s),
         life'[s].pc \in {"mark", "stop", "aside", "block"} => life[s].pc \in {"mark", "stop", "aside", "block"}
  PROVE WayBackAt(s)'
BY DEF WayBackAt, NoneOf

LEMMA LifeWayBack ==
  ASSUME Running, NEW s \in Slugs, RemovalAt(s), WayBackAt(s), Life(s) \/ KillLife(s)
  PROVE WayBackAt(s)'
<1> USE DEF Running
<1>1. done'["undo"] = 0 => done["undo"] = 0 BY LifeApart DEF Apart
<1>2. CASE life' = [life EXCEPT ![s] = NoLife]
  <2>1. life'[s] = NoLife /\ ~LifecycleActive(s)' BY <1>2, LifeGone
  <2>2. life'[s].undos = <<>> BY <2>1 DEF NoLife
  <2>3. ~Undoable(s)' BY <2>1 DEF Undoable
  <2> QED BY <2>2, <2>3, WayBackEmpty
<1>3. CASE \E action \in {"disable", "enable", "remove"} : LifeAsked(s, action)
  <2>1. life'[s].undos = <<>> /\ life'[s].pc = "asked" BY <1>3 DEF LifeAsked, RunTypes, NoLife
  <2>2. ~Undoable(s)' BY <2>1 DEF Undoable, LifecycleActive
  <2> QED BY <2>1, <2>2, WayBackEmpty
<1>4. CASE LifeTakes(s) /\ life' # [life EXCEPT ![s] = NoLife]
  <2>1. life'[s].was = block[s] /\ life'[s].undos = life[s].undos BY <1>4 DEF LifeTakes, RunTypes, LifeRun
  <2>2. block' = block /\ life[s].undos = <<>> BY <1>4 DEF LifeTakes, disk, RemovalAt
  <2> QED BY <2>1, <2>2, WayBackEmpty
<1>5. CASE LifeMarks(s) \/ LifeStops(s) \/ LifeStarts(s)
  <2>1. UNCHANGED <<block, done>> BY <1>5 DEF LifeMarks, LifeStops, LifeStarts, disk
  <2>2. Undoable(s) BY <1>5 DEF LifeMarks, LifeStops, LifeStarts, Undoable, LifecycleActive
  <2>3. PICK u \in {"manifest", "start", "stop"}, pc \in {"stop", "aside", "block", "verify"} :
           /\ LifeDoes(s, u, pc)
           /\ pc \in {"stop", "aside", "block"} => life[s].pc \in {"mark", "stop"}
    BY <1>5 DEF LifeMarks, LifeStops, LifeStarts
  <2>4. pc \in {"stop", "aside", "block"} => NoneOf("block", life[s].undos) BY <2>3 DEF WayBackAt
  <2>5. u \in Undos /\ u # "block" /\ u # "public" /\ pc \in {"stop", "aside", "block", "reload", "verify"}
        /\ done' = done /\ block'[s] = block[s]
    BY <2>1 DEF Undos
  <2> QED BY <2>2, <2>3, <2>4, <2>5, WayBackPushed
<1>6. CASE LifeSetsAside(s)
  <2>1. UNCHANGED <<block, done>> /\ life[s].pc = "aside" BY <1>6 DEF LifeSetsAside
  <2>2. Undoable(s) /\ NoneOf("block", life[s].undos) BY <2>1 DEF Undoable, LifecycleActive, WayBackAt
  <2>3. CASE life[s].was # "none" /\ LifeDoes(s, "public", "block")
    <3>1. "public" \in Undos BY DEF Undos
    <3> QED BY <2>1, <2>2, <2>3, <3>1, WayBackPushed
  <2>4. CASE LifeTo(s, "block")
    <3>1. life'[s].undos = life[s].undos /\ life'[s].was = life[s].was /\ life'[s].failed = life[s].failed
          /\ life'[s].pc = "block"
      BY <2>4, LifeNext
    <3> QED BY <2>1, <2>2, <3>1, WayBackMoved
  <2> QED BY <1>6, <2>3, <2>4 DEF LifeSetsAside
<1>7. CASE LifeBlocks(s)
  <2>1. done' = done /\ life[s].pc = "block" /\ LifeDoes(s, "block", "reload") BY <1>7 DEF LifeBlocks
  <2>2. Undoable(s) BY <2>1 DEF Undoable, LifecycleActive
  <2>3. "block" \in Undos BY DEF Undos
  <2> QED BY <2>1, <2>2, <2>3, WayBackPushed
<1>8. CASE LifeDeletesUnits(s)
  <2>1. /\ block' = block /\ life'[s].undos = life[s].undos /\ life'[s].was = life[s].was
        /\ life'[s].failed = life[s].failed /\ life'[s].pc = "deleteTree"
    BY <1>8, LifeNext DEF LifeDeletesUnits, disk
  <2>2. ~Undoable(s)' BY <2>1 DEF Undoable
  <2> QED BY <1>1, <2>1, <2>2, WayBackMoved
<1>13. CASE LifeReloads(s) \/ \E tried \in BOOLEAN : LifeFails(s, tried)
  <2>1. /\ block' = block /\ life'[s].undos = life[s].undos /\ life'[s].was = life[s].was
        /\ life'[s].failed = life[s].failed /\ life'[s].pc \in {"start", "verify", "undo"}
    BY <1>13, LifeTries DEF disk
  <2>2. Undoable(s) BY <1>13, LifeTries DEF Undoable, LifecycleActive
  <2> QED BY <1>1, <2>1, <2>2, WayBackMoved
<1>9. CASE LifeVerifies(s) /\ life[s].action = "remove"
  <2>1. life'[s].undos = <<>> /\ life'[s].pc = "deleteUnits" BY <1>9 DEF LifeVerifies, RunTypes, LifeRun
  <2> QED BY <2>1, WayBackEmpty DEF Undoable
<1>10. CASE LifeUndoesBlock(s)
  <2>1. Undone(s, "block") /\ block'[s] = life[s].was BY <1>10 DEF LifeUndoesBlock, MachineTypes
  <2> QED BY <1>1, <2>1, LifePops, WayBackPopped
<1>11. CASE LifeUndoesPublic(s) \/ LifeUndoesServices(s) \/ LifeUndoesManifest(s)
  <2>1. block'[s] = block[s] BY <1>11 DEF LifeUndoesPublic, LifeUndoesServices, LifeUndoesManifest, disk
  <2>2. PICK u \in {"public", "start", "stop", "manifest"} : Undone(s, u)
    BY <1>11 DEF LifeUndoesPublic, LifeUndoesServices, LifeUndoesManifest
  <2> QED BY <1>1, <2>1, <2>2, LifePops, WayBackPopped
<1>12. CASE LifeUndoFails(s)
  <2>1. /\ life[s].pc = "undo" /\ life[s].undos # <<>> /\ block' = block
        /\ life'[s].pc = "undo" /\ life'[s].was = life[s].was /\ life'[s].undos = AllButLast(life[s].undos)
        /\ life'[s].failed
    BY <1>12 DEF LifeUndoFails, RunTypes, LifeRun, disk
  <2>2. Last(life[s].undos) = "public" \/ done'["undo"] # 0
    <3>1. CASE Begins("undo")
      <4>1. done'["undo"] = done["undo"] + 1 /\ done["undo"] \in Nat BY <3>1, Begun DEF MachineTypes, Kinds
      <4> QED BY <4>1
    <3> QED BY <1>12, <3>1 DEF LifeUndoFails
  <2> QED BY <1>1, <2>1, <2>2, WayBackPopped
<1> QED
  <2>1. CASE LifeVerifies(s) BY <1>2, <1>9, <2>1 DEF LifeVerifies
  <2>2. CASE (\E t, a \in BOOLEAN : LifeDeletesTree(s, t, a)) \/ LifeUndone(s) \/ LifeNotRestored(s) \/ KillLife(s)
    BY <1>2, <2>2 DEF LifeDeletesTree, LifeUndone, LifeNotRestored, KillLife
  <2>3. CASE LifeTakes(s) BY <1>2, <1>4, <2>3
  <2> QED BY <1>3, <1>5, <1>6, <1>7, <1>8, <1>10, <1>11, <1>12, <1>13, <2>1, <2>2, <2>3 DEF Life

(* While a run of the lifecycle is at work, nobody else is at a step that   *)
(* counts on what Caddy serves.                                             *)
LEMMA LifeShows ==
  ASSUME Running, NEW s \in Slugs, LifecycleActive(s), UNCHANGED <<token, ssh>>,
         Hidden(s, block[s])', manifest'[s].portal => loaded'[s] # "open",
         Undoable(s)' => Hidden(s, life[s].was)',
         life'[s].pc = "block" /\ life'[s].action = "remove" => Hidden(s, "none")'
  PROVE ClosedAt(s)'
<1>1. lock = <<"life", s>> BY DEF Running, Holders
<1>2. ~TokenLocked(s) /\ ~SshLocked(s) BY <1>1, Alone DEF Running
<1>3. token'[s].pc \notin {"reload", "place", "deposit"} BY <1>2 DEF TokenLocked
<1>4. ssh'[s].pc \in {"push", "deposit"} => ~ssh'[s].door BY <1>2 DEF SshLocked
<1> QED BY <1>3, <1>4 DEF ClosedAt

LEMMA LifeClosed ==
  ASSUME Running, NEW s \in Slugs, RemovalAt(s), WayBackAt(s), ClosedAt(s), Life(s) \/ KillLife(s)
  PROVE ClosedAt(s)'
<1> USE DEF Running
<1>1. UNCHANGED <<token, ssh>> BY LifeRuns DEF LifeOnly
<1>2. done'["undo"] = 0 => done["undo"] = 0 BY LifeApart DEF Apart
<1>3. LifecycleActive(s) => s \in Deposited BY DEF Compared
<1>4. /\ Hidden(s, block[s]) /\ (manifest[s].portal => loaded[s] # "open")
      /\ Undoable(s) => Hidden(s, life[s].was)
      /\ life[s].pc = "block" /\ life[s].action = "remove" => Hidden(s, "none")
  BY DEF ClosedAt
<1>5. ASSUME manifest'[s].portal = manifest[s].portal, public' = public, NEW b, Hidden(s, b)
      PROVE Hidden(s, b)'
  BY <1>2, <1>5 DEF Hidden
<1>6. ASSUME LifecycleActive(s), manifest'[s].portal = manifest[s].portal, UNCHANGED <<public, block>>,
             loaded'[s] \in {loaded[s], block[s]},
             Undoable(s)' => Undoable(s) /\ life'[s].was = life[s].was,
             life'[s].pc = "block" => life'[s].action # "remove"
      PROVE ClosedAt(s)'
  <2>1. Hidden(s, block[s])' /\ (manifest'[s].portal => loaded'[s] # "open")
    BY <1>4, <1>5, <1>6 DEF Hidden
  <2>2. Undoable(s)' => Hidden(s, life[s].was)' BY <1>4, <1>5, <1>6
  <2> QED BY <1>1, <1>6, <2>1, <2>2, LifeShows
<1>7. CASE (\E action \in {"disable", "enable", "remove"} : LifeAsked(s, action)) \/ LifeTakes(s)
  <2>1. UNCHANGED <<manifest, public, block, loaded>> BY <1>7 DEF LifeAsked, LifeTakes, disk
  <2>2. life'[s].pc # "block" /\ (Undoable(s)' => life'[s].was = block[s])
    <3>1. CASE \E action \in {"disable", "enable", "remove"} : LifeAsked(s, action)
      <4>1. life'[s].pc = "asked" BY <3>1 DEF LifeAsked, RunTypes, NoLife
      <4> QED BY <4>1 DEF Undoable, LifecycleActive
    <3>2. CASE life' = [life EXCEPT ![s] = NoLife] BY <3>2, LifeGone DEF Undoable
    <3>3. CASE LifeTakes(s) /\ life' # [life EXCEPT ![s] = NoLife]
      BY <3>3 DEF LifeTakes, FirstStep, RunTypes, LifeRun
    <3> QED BY <1>7, <3>1, <3>2, <3>3
  <2>3. Hidden(s, block[s])' BY <1>4, <1>5, <2>1
  <2>4. Undoable(s)' => Hidden(s, life[s].was)' BY <2>1, <2>2, <2>3 DEF Hidden
  <2>5. token'[s].pc = "reload" => Hidden(s, token[s].was)' BY <1>1, <1>2, <2>1 DEF ClosedAt, Hidden
  <2> QED BY <1>1, <2>1, <2>2, <2>3, <2>4, <2>5 DEF ClosedAt
<1>8. CASE LifeMarks(s) \/ LifeUndoesManifest(s)
  <2>1. life[s].pc \in {"mark", "undo"} /\ UNCHANGED <<public, block, loaded>>
    BY <1>8 DEF LifeMarks, LifeUndoesManifest, Undone
  <2>2. LifecycleActive(s) /\ Undoable(s) BY <2>1 DEF Undoable, LifecycleActive
  <2>3. PICK b \in BOOLEAN : manifest' = [manifest EXCEPT ![s].off = b]
    <3>1. manifest[s].off \in BOOLEAN BY ManifestIs DEF MachineTypes
    <3> QED BY <1>8, <3>1 DEF LifeMarks, LifeUndoesManifest
  <2>4. manifest'[s].portal = manifest[s].portal BY <1>3, <2>2, <2>3, Rewrites DEF MachineTypes
  <2>5. life'[s].was = life[s].was /\ life'[s].action = life[s].action
        /\ (life'[s].pc = "block" => life[s].pc = "mark")
    BY <1>8, LifePushes, LifePops DEF LifeMarks, LifeUndoesManifest
  <2>6. life'[s].pc = "block" => life'[s].action # "remove" BY <2>5 DEF RemovalAt
  <2> QED BY <1>6, <2>1, <2>2, <2>4, <2>5, <2>6
<1>9. CASE \/ LifeStops(s) \/ LifeStarts(s) \/ LifeReloads(s) \/ LifeDeletesUnits(s) \/ LifeUndoesServices(s)
           \/ LifeUndoFails(s) \/ \E tried \in BOOLEAN : LifeFails(s, tried)
  <2>1. UNCHANGED <<manifest, public, block>> /\ loaded' \in {loaded, block}
    BY <1>9 DEF LifeStops, LifeStarts, LifeReloads, LifeFails, LifeDeletesUnits, LifeUndoesServices, LifeUndoFails, disk
  <2>2. LifecycleActive(s) /\ (life[s].pc # "deleteUnits" => Undoable(s))
    BY <1>9 DEF LifeStops, LifeStarts, LifeReloads, LifeFails, LifeDeletesUnits, LifeUndoesServices, LifeUndoFails,
       Undone, LifecycleActive, Undoable
  <2>3. /\ life'[s].was = life[s].was
        /\ life'[s].pc = "block" => life'[s].action # "remove"
        /\ life[s].pc = "deleteUnits" => life'[s].pc = "deleteTree"
    <3>1. CASE LifeUndoFails(s) BY <3>1 DEF LifeUndoFails, RunTypes, LifeRun
    <3>2. CASE LifeUndoesServices(s) BY <3>2, LifePops DEF LifeUndoesServices
    <3>3. CASE LifeStops(s) \/ LifeStarts(s) BY <3>3, LifePushes DEF LifeStops, LifeStarts
    <3>4. CASE LifeDeletesUnits(s) BY <3>4, LifeNext DEF LifeDeletesUnits
    <3>5. CASE LifeReloads(s) \/ \E tried \in BOOLEAN : LifeFails(s, tried)
      BY <3>5, LifeTries
    <3> QED BY <1>9, <3>1, <3>2, <3>3, <3>4, <3>5
  <2>4. Undoable(s)' => Undoable(s) BY <2>2, <2>3 DEF Undoable
  <2>5. manifest'[s].portal = manifest[s].portal /\ loaded'[s] \in {loaded[s], block[s]} BY <2>1
  <2> QED BY <1>6, <2>1, <2>2, <2>3, <2>4, <2>5
<1>10. CASE LifeSetsAside(s)
  <2>1. life[s].pc = "aside" /\ UNCHANGED <<manifest, block, loaded>> BY <1>10 DEF LifeSetsAside
  <2>2. LifecycleActive(s) /\ Undoable(s) BY <2>1 DEF LifecycleActive, Undoable
  <2>3. life'[s].was = life[s].was BY <1>10, LifePushes, LifeNext DEF LifeSetsAside
  <2>4. CASE public'[s] = {"aside"}
    <3>1. Hidden(s, block[s])' /\ Hidden(s, "none")' /\ Hidden(s, life[s].was)'
      BY <1>4, <2>1, <2>2, <2>3, <2>4 DEF Hidden
    <3> QED BY <1>1, <1>4, <2>1, <2>2, <3>1, LifeShows
  <2>5. CASE UNCHANGED public /\ ~(life[s].was # "none" /\ "shown" \in public[s])
    <3>1. Hidden(s, "none") BY <1>4, <2>2, <2>5 DEF Hidden
    <3>2. Hidden(s, block[s])' /\ Hidden(s, "none")' /\ Hidden(s, life[s].was)'
      BY <1>2, <1>4, <2>1, <2>2, <2>3, <2>5, <3>1 DEF Hidden
    <3> QED BY <1>1, <1>4, <2>1, <2>2, <3>2, LifeShows
  <2>6. public'[s] = {"aside"} \/ (UNCHANGED public /\ ~(life[s].was # "none" /\ "shown" \in public[s]))
    BY <1>10 DEF LifeSetsAside, MachineTypes
  <2> QED BY <2>4, <2>5, <2>6
<1>11. CASE LifeBlocks(s) \/ LifeUndoesBlock(s)
  <2>1. life[s].pc \in {"block", "undo"} /\ UNCHANGED <<manifest, public, loaded>>
    BY <1>11 DEF LifeBlocks, LifeUndoesBlock, Undone
  <2>2. LifecycleActive(s) /\ Undoable(s) BY <2>1 DEF LifecycleActive, Undoable
  <2>3. life'[s].was = life[s].was /\ life'[s].pc \in {"reload", "undo"}
    BY <1>11, LifePushes, LifePops DEF LifeBlocks, LifeUndoesBlock
  <2>4. Hidden(s, block'[s])
    <3>1. CASE LifeUndoesBlock(s) BY <1>4, <2>2, <3>1 DEF LifeUndoesBlock, MachineTypes
    <3>2. CASE LifeBlocks(s) /\ life[s].action = "remove"
      <4>1. block'[s] = "none" /\ life[s].pc = "block" BY <3>2 DEF LifeBlocks, MachineTypes
      <4> QED BY <1>4, <3>2, <4>1
    <3>3. CASE LifeBlocks(s) /\ life[s].action # "remove"
      <4>1. block'[s] = OwnBlock(manifest[s]) BY <3>3 DEF LifeBlocks, MachineTypes
      <4> QED BY <4>1 DEF OwnBlock, Hidden
    <3> QED BY <1>11, <3>1, <3>2, <3>3
  <2>5. Hidden(s, block[s])' /\ Hidden(s, life[s].was)' BY <1>2, <1>4, <2>1, <2>2, <2>3, <2>4 DEF Hidden
  <2> QED BY <1>1, <1>4, <2>1, <2>2, <2>3, <2>5, LifeShows
<1>12. CASE LifeUndoesPublic(s)
  <2>1. UNCHANGED <<manifest, block, loaded>> BY <1>12 DEF LifeUndoesPublic
  <2>2. /\ life[s].pc = "undo" /\ life[s].undos # <<>> /\ "public" = Last(life[s].undos)
        /\ life'[s].pc = "undo" /\ life'[s].was = life[s].was
    BY <1>12, LifePops DEF LifeUndoesPublic
  <2>3. LifecycleActive(s) /\ Undoable(s) BY <2>2 DEF LifecycleActive, Undoable
  <2> DEFINE q == life[s].undos
  <2>4. Len(q) \in Nat \ {0} /\ q[Len(q)] = "public"
    <3>1. q \in Seq(Undos) BY DEF RunTypes, LifeRun
    <3> QED BY <2>2, <3>1, ShorterIs
  <2>5. life[s].was # "none" BY <2>4 DEF WayBackAt
  <2>6. NoneOf("block", q)
    <3> SUFFICES ASSUME NEW i \in 1..Len(q), q[i] = "block" PROVE FALSE BY DEF NoneOf
    <3>1. Len(q) \in 1..Len(q) BY <2>4
    <3>2. Len(q) < i BY <2>4, <3>1 DEF WayBackAt
    <3> QED BY <2>4, <3>2
  <2>7. done["undo"] = 0 => block[s] = life[s].was BY <2>3, <2>6 DEF WayBackAt
  <2>8. Hidden(s, block[s])' /\ Hidden(s, life[s].was)'
    BY <1>2, <1>4, <2>1, <2>2, <2>3, <2>5, <2>7 DEF Hidden
  <2> QED BY <1>1, <1>4, <2>1, <2>2, <2>3, <2>8, LifeShows
<1>13. CASE LifeVerifies(s) \/ LifeUndone(s) \/ LifeNotRestored(s) \/ KillLife(s)
  <2>1. LifecycleActive(s) /\ UNCHANGED <<manifest, public, block>> /\ loaded' \in {loaded, block}
    BY <1>13 DEF LifeVerifies, LifeUndone, LifeNotRestored, KillLife, disk, LifecycleActive
  <2>2. life'[s].pc # "block" /\ ~Undoable(s)'
    <3>1. CASE life' = [life EXCEPT ![s] = NoLife] BY <3>1, LifeGone DEF Undoable
    <3>2. CASE LifeVerifies(s) /\ life[s].action = "remove"
      <4>1. life'[s].pc = "deleteUnits" BY <3>2 DEF LifeVerifies, RunTypes, LifeRun
      <4> QED BY <4>1 DEF Undoable
    <3> QED BY <1>13, <3>1, <3>2 DEF LifeVerifies, LifeUndone, LifeNotRestored, KillLife
  <2>3. manifest'[s].portal = manifest[s].portal /\ loaded'[s] \in {loaded[s], block[s]} BY <2>1
  <2> QED BY <1>6, <2>1, <2>2, <2>3
<1>14. CASE \E t, a \in BOOLEAN : LifeDeletesTree(s, t, a)
  <2>1. UNCHANGED <<block, loaded>> /\ life' = [life EXCEPT ![s] = NoLife] /\ life[s].pc = "deleteTree"
    BY <1>14 DEF LifeDeletesTree
  <2>2. LifecycleActive(s) /\ life'[s].pc # "block" /\ ~Undoable(s)'
    BY <2>1, LifeGone DEF LifecycleActive, Undoable
  <2>3. CASE UNCHANGED <<manifest, public>> BY <1>6, <2>1, <2>2, <2>3
  <2>4. CASE manifest' = [manifest EXCEPT ![s] = NoManifest]
    <3>1. ~manifest'[s].portal BY <2>4 DEF MachineTypes, NoManifest
    <3>2. Hidden(s, block[s])' BY <3>1 DEF Hidden
    <3> QED BY <1>1, <2>2, <3>1, <3>2, LifeShows
  <2> QED BY <1>14, <2>3, <2>4 DEF LifeDeletesTree
<1> QED BY <1>7, <1>8, <1>9, <1>10, <1>11, <1>12, <1>13, <1>14 DEF Life

LEMMA DoorClosed ==
  ASSUME Running, NEW s \in Slugs, ClosedAt(s), WayBackAt(s), SetDoor(s)
  PROVE ClosedAt(s)' /\ WayBackAt(s)'
<1>1. lock = Nobody /\ UNCHANGED <<token, ssh, life>> /\ loaded' = block' /\ block'[s] = OwnBlock(manifest'[s])
  BY DEF SetDoor, Running, MachineTypes
<1>2. ~TokenLocked(s) /\ ~SshLocked(s) /\ ~LifecycleActive(s)
  BY <1>1, Names DEF Running, Holders
<1>3. token'[s].pc \notin {"reload", "place", "deposit"} BY <1>1, <1>2 DEF TokenLocked
<1>4. ssh'[s].pc \in {"push", "deposit"} => ~ssh'[s].door BY <1>1, <1>2 DEF SshLocked
<1>5. ~Undoable(s)' /\ life'[s].pc # "block" BY <1>1, <1>2 DEF Undoable, LifecycleActive
<1>6. block'[s] # "none" /\ (manifest'[s].portal => block'[s] # "open") BY <1>1 DEF OwnBlock
<1>7. Hidden(s, block[s])' /\ (manifest'[s].portal => loaded'[s] # "open") BY <1>1, <1>6 DEF Hidden
<1>8. ClosedAt(s)' BY <1>3, <1>4, <1>5, <1>7 DEF ClosedAt
<1>9. WayBackAt(s)' BY <1>1, <1>5 DEF WayBackAt, NoneOf
<1> QED BY <1>8, <1>9

LEMMA InvInit == Init => IInv
<1> SUFFICES ASSUME Init PROVE IInv OBVIOUS
<1>1. Running /\ Removals BY RunningInit, RemovalsInit
<1>2. /\ \A s \in Slugs : token[s].pc = "idle" /\ ssh[s].pc = "idle" /\ life[s].pc = "idle" /\ life[s].undos = <<>>
      /\ backup = {} /\ loaded = block /\ done["undo"] = 0
  BY DEF Init, NoToken, NoShell, NoLife, Kinds
<1>3. \A s \in Slugs : ~LifecycleActive(s) /\ ~Undoable(s) BY <1>2 DEF LifecycleActive, Undoable
<1>4. Loaded BY <1>2, <1>3 DEF Loaded
<1>5. WayBack
  <2>1. Len(<<>>) = 0 /\ 1..0 = {} OBVIOUS
  <2> QED BY <1>2, <1>3, <2>1 DEF WayBack, WayBackAt, NoneOf
<1>6. Closed
  <2> SUFFICES ASSUME NEW s \in Slugs PROVE ClosedAt(s) BY DEF Closed
  <2>1. manifest[s].portal => s \in Deposited BY DEF Deposited, NoManifest
  <2>2. manifest[s].portal => block[s] \notin {"open", "none"} BY <2>1 DEF Init, OwnBlock
  <2> QED BY <1>2, <1>3, <2>2 DEF ClosedAt, Hidden
<1> QED BY <1>1, <1>4, <1>5, <1>6 DEF IInv

LEMMA InvNext == IInv /\ [Next]_vars => IInv'
<1> SUFFICES ASSUME IInv, [Next]_vars PROVE IInv' OBVIOUS
<1>1. Running /\ Removals /\ Loaded /\ WayBack /\ Closed BY DEF IInv
<1>2. Running' /\ Removals' BY <1>1, RunningNext, RemovalsNext
<1>3. ASSUME NEW s \in Slugs, Apart(s), WayBackAt(s)', ClosedAt(s)', Loaded' PROVE IInv'
  <2>1. WayBack' /\ Closed' BY <1>1, <1>3, OthersStay DEF WayBack, Closed
  <2> QED BY <1>2, <1>3, <2>1 DEF IInv
<1>4. \A s \in Slugs : RemovalAt(s) /\ WayBackAt(s) /\ ClosedAt(s) BY <1>1 DEF Removals, WayBack, Closed
<1>5. ASSUME NEW s \in Slugs, Token(s) \/ KillToken(s) PROVE IInv'
  <2>1. Apart(s) BY <1>1, <1>5, TokenApart DEF Running
  <2>2. WayBackAt(s)' /\ ClosedAt(s)' /\ Loaded' BY <1>1, <1>4, <1>5, TokenWayBack, TokenClosed, TokenLoaded
  <2> QED BY <1>3, <2>1, <2>2
<1>6. ASSUME NEW s \in Slugs, Ssh(s) PROVE IInv'
  <2>1. Apart(s) BY <1>1, <1>6, SshApart DEF Running
  <2>2. WayBackAt(s)' /\ ClosedAt(s)' /\ Loaded' BY <1>1, <1>4, <1>6, SshWayBack, SshClosed, SshLoaded
  <2> QED BY <1>3, <2>1, <2>2
<1>7. ASSUME NEW s \in Slugs, Life(s) \/ KillLife(s) PROVE IInv'
  <2>1. Apart(s) BY <1>1, <1>7, LifeApart DEF Running
  <2>2. WayBackAt(s)' /\ ClosedAt(s)' /\ Loaded' BY <1>1, <1>4, <1>7, LifeWayBack, LifeClosed, LifeLoaded
  <2> QED BY <1>3, <2>1, <2>2
<1>8. ASSUME NEW s \in Slugs, SetDoor(s) PROVE IInv'
  <2>1. Apart(s) BY <1>1, <1>8, LifeApart DEF Running
  <2>2. WayBackAt(s)' /\ ClosedAt(s)' /\ Loaded' BY <1>1, <1>4, <1>8, DoorClosed, DoorLoaded
  <2> QED BY <1>3, <2>1, <2>2
<1>9. CASE UNCHANGED vars
  <2>1. Loaded' BY <1>1, <1>9 DEF vars, Loaded, LifecycleActive, Undoable
  <2>2. WayBack' BY <1>1, <1>9 DEF vars, WayBack, WayBackAt, NoneOf, Undoable, LifecycleActive
  <2>3. Closed' BY <1>1, <1>9 DEF vars, Closed, ClosedAt, Hidden, Undoable, LifecycleActive
  <2> QED BY <1>2, <2>1, <2>2, <2>3 DEF IInv
<1> QED BY <1>5, <1>6, <1>7, <1>8, <1>9 DEF Next

(* The files of a restricted site are served to nobody: while it is created *)
(* or turned on its block is laid closed first, a removal hides the files   *)
(* before it takes the block away, and its way back lays the block first.   *)
THEOREM FilesStayHidden == Spec => []NeverOpen
<1>1. IInv => NeverOpen
  <2> SUFFICES ASSUME IInv, done["undo"] = 0, NEW s \in Slugs, "stale" \notin public[s], manifest[s].portal
               PROVE Served(s) \notin {"open", "files"}
    BY DEF NeverOpen, NotServed, Deposited
  <2>1. ClosedAt(s) BY DEF IInv, Closed
  <2>2. loaded[s] # "open" /\ block[s] # "open" /\ (block[s] = "none" => "shown" \notin public[s])
    BY <2>1 DEF ClosedAt, Hidden
  <2>3. loaded[s] \in {"none", "closed", "off"} BY <2>2 DEF IInv, Running, MachineTypes, Blocks
  <2>4. CASE loaded[s] # "none" BY <2>3, <2>4 DEF Served
  <2>5. CASE loaded[s] = "none" /\ block[s] # "none"
    <3>1. Served(s) = "refused" BY <2>5 DEF Served
    <3> QED BY <3>1
  <2>6. CASE loaded[s] = "none" /\ block[s] = "none"
    <3>1. "shown" \notin public[s] BY <2>2, <2>6
    <3>2. Served(s) = "refused" BY <2>6, <3>1 DEF Served
    <3> QED BY <3>2
  <2> QED BY <2>4, <2>5, <2>6
<1> QED BY <1>1, InvInit, InvNext, PTL DEF Spec

LEMMA AlwaysInv == Spec => []IInv
BY InvInit, InvNext, PTL DEF Spec

-----------------------------------------------------------------------------
(* A run of the owner's leaves a trace of each of its steps.                *)
LEMMA SshMoves ==
  ASSUME RunTypes, NEW s \in Slugs, Ssh(s)
  PROVE ssh' # ssh
<1> SUFFICES ssh'[s].pc # ssh[s].pc OBVIOUS
<1>1. CASE \E port \in Ports, door \in BOOLEAN : SshReads(s, port, door) BY <1>1 DEF SshReads, RunTypes
<1>2. CASE ~\E port \in Ports, door \in BOOLEAN : SshReads(s, port, door)
  <2>1. \/ ssh' = [ssh EXCEPT ![s] = NoShell] /\ ssh[s].pc # "idle"
        \/ \E pc \in SshPcs : SshTo(s, pc) /\ pc # ssh[s].pc
    BY <1>2 DEF Ssh, SshPrepares, SshTakes, SshInstallsBlock, SshPushes, SshDeposits, SshRestarts, SshStops, SshPcs
  <2> QED BY <2>1, SshGone, SshNext
<1> QED BY <1>1, <1>2

LEMMA LifeMoves ==
  ASSUME RunTypes, MachineTypes, NEW s \in Slugs, Life(s) \/ KillLife(s)
  PROVE life' # life
<1>1. CASE life[s].pc = "undo" /\ life[s].undos # <<>> /\ life'[s].undos = AllButLast(life[s].undos)
  <2>1. life[s].undos \in Seq(Undos) BY DEF RunTypes, LifeRun
  <2>2. Len(AllButLast(life[s].undos)) = Len(life[s].undos) - 1 /\ Len(life[s].undos) \in Nat BY <1>1, <2>1, ShorterIs
  <2> QED BY <1>1, <2>2
<1>2. CASE LifeUndoesBlock(s) \/ LifeUndoesPublic(s) \/ LifeUndoesServices(s) \/ LifeUndoesManifest(s)
  BY <1>1, <1>2, LifePops DEF LifeUndoesBlock, LifeUndoesPublic, LifeUndoesServices, LifeUndoesManifest
<1>3. CASE LifeUndoFails(s) BY <1>1, <1>3 DEF LifeUndoFails, RunTypes, LifeRun
<1>4. CASE life'[s].pc # life[s].pc BY <1>4
<1>5. CASE life' = [life EXCEPT ![s] = NoLife] /\ life[s].pc # "idle" BY <1>4, <1>5, LifeGone
<1>6. CASE \E action \in {"disable", "enable", "remove"} : LifeAsked(s, action)
  BY <1>4, <1>6 DEF LifeAsked, RunTypes, NoLife
<1>7. CASE LifeTakes(s)
  <2>1. CASE life' = [life EXCEPT ![s] = NoLife] BY <1>5, <1>7, <2>1 DEF LifeTakes
  <2>2. CASE life' # [life EXCEPT ![s] = NoLife]
    <3>1. life'[s].pc = FirstStep(life[s].action) /\ life[s].pc = "asked" BY <1>7, <2>2 DEF LifeTakes, RunTypes, LifeRun
    <3> QED BY <1>4, <3>1 DEF FirstStep
  <2> QED BY <2>1, <2>2
<1>8. CASE LifeMarks(s) \/ LifeStops(s) \/ LifeSetsAside(s) \/ LifeBlocks(s) \/ LifeStarts(s) \/ LifeDeletesUnits(s)
  BY <1>4, <1>8, LifePushes, LifeNext DEF LifeMarks, LifeStops, LifeSetsAside, LifeBlocks, LifeStarts, LifeDeletesUnits
<1>9. CASE LifeReloads(s) BY <1>4, <1>9, LifeTries DEF LifeReloads
<1>10. CASE ~LifeReloads(s) /\ \E tried \in BOOLEAN : LifeFails(s, tried) BY <1>4, <1>10, LifeTries DEF LifeFails
<1>11. CASE LifeVerifies(s)
  <2>1. CASE life' = [life EXCEPT ![s] = NoLife] BY <1>5, <1>11, <2>1 DEF LifeVerifies
  <2>2. CASE life[s].action = "remove"
    <3>1. life'[s].pc = "deleteUnits" /\ life[s].pc = "verify" BY <1>11, <2>2 DEF LifeVerifies, RunTypes, LifeRun
    <3> QED BY <1>4, <3>1
  <2> QED BY <1>11, <2>1, <2>2 DEF LifeVerifies
<1>12. CASE LifeUndone(s) \/ LifeNotRestored(s) \/ KillLife(s) \/ \E t, a \in BOOLEAN : LifeDeletesTree(s, t, a)
  BY <1>5, <1>12 DEF LifeUndone, LifeNotRestored, KillLife, LifeDeletesTree, LifecycleActive
<1> QED BY <1>2, <1>3, <1>6, <1>7, <1>8, <1>9, <1>10, <1>11, <1>12 DEF Life

(* A token's run of a project that is off changes neither its mark nor what *)
(* it is answered: it has not compared under the lock, or it gave up.       *)
LEMMA TokenLeavesIt ==
  ASSUME IInv, NEW s \in Slugs, manifest[s].off, Token(s) \/ KillToken(s)
  PROVE manifest'[s].off /\ block'[s] = block[s] /\ loaded'[s] = loaded[s]
<1> USE DEF IInv, Running
<1>1. ~TokenLocked(s) BY DEF Compared
<1>2. token[s].pc \notin {"block", "reload", "place", "deposit"} BY <1>1 DEF TokenLocked
<1>3. token[s].pc # "removeTree" BY DEF Creations, CreationAt
<1> QED
  BY <1>2, <1>3 DEF disk, Token, KillToken, TokenAsked, TokenReads, TokenRefused, TokenPrepares, TokenGivesUp,
     TokenLays, TokenTakes, TokenIsOver, TokenWritesBlock, TokenReloads, TokenPutsBlockBack, TokenLeavesBlock,
     TokenPlaces, TokenDeposits, TokenRestarts, TokenUndoesUnits, TokenChecksTree, TokenRemovesTree,
     TokenUndoesAccount

(* A project its owner turned off stays marked so and answered as one that  *)
(* is off, whatever a token's deployment or a change of door does.          *)
THEOREM LeftOff == Spec => TokenLeavesOff
<1> DEFINE Leaves == \A s \in Slugs : manifest[s].off /\ UNCHANGED <<ssh, life>> =>
                        manifest'[s].off /\ block'[s] = block[s] /\ loaded'[s] = loaded[s]
<1>1. ASSUME IInv, [Next]_vars PROVE Leaves
  <2> USE DEF IInv, Running
  <2> SUFFICES ASSUME NEW s \in Slugs, manifest[s].off, UNCHANGED <<ssh, life>>
               PROVE manifest'[s].off /\ block'[s] = block[s] /\ loaded'[s] = loaded[s]
    OBVIOUS
  <2>1. CASE UNCHANGED vars BY <2>1 DEF vars
  <2>2. ASSUME NEW u \in Slugs, Token(u) \/ KillToken(u)
        PROVE manifest'[s].off /\ block'[s] = block[s] /\ loaded'[s] = loaded[s]
    <3>1. CASE u = s BY <1>1, <2>2, <3>1, TokenLeavesIt
    <3>2. CASE u # s
      <4>1. manifest'[s] = manifest[s] /\ block'[s] = block[s] BY <1>1, <2>2, <3>2, TokenApart DEF Apart
      <4>2. CASE token[u].pc = "reload"
        <5>1. loaded[s] = block[s] BY <1>1, <3>2, <4>2 DEF Loaded
        <5> QED BY <1>1, <2>2, <3>2, <4>1, <5>1, TokenApart DEF Apart
      <4>3. CASE token[u].pc # "reload"
        <5>1. loaded' = loaded
          BY <2>2, <4>3 DEF disk, Token, KillToken, TokenAsked, TokenReads, TokenRefused, TokenPrepares, TokenGivesUp,
             TokenLays, TokenTakes, TokenIsOver, TokenWritesBlock, TokenReloads, TokenPutsBlockBack, TokenLeavesBlock,
             TokenPlaces, TokenDeposits, TokenRestarts, TokenUndoesUnits, TokenChecksTree, TokenRemovesTree,
             TokenUndoesAccount
        <5> QED BY <4>1, <5>1
      <4> QED BY <4>2, <4>3
    <3> QED BY <3>1, <3>2
  <2>3. ASSUME NEW u \in Slugs, SetDoor(u)
        PROVE manifest'[s].off /\ block'[s] = block[s] /\ loaded'[s] = loaded[s]
    <3>1. u # s /\ backup = {} /\ loaded' = block' BY <2>3 DEF SetDoor
    <3>2. loaded = block BY <1>1, <3>1 DEF Loaded
    <3>3. manifest'[s] = manifest[s] /\ block'[s] = block[s] BY <1>1, <2>3, <3>1 DEF SetDoor, MachineTypes
    <3> QED BY <3>1, <3>2, <3>3
  <2>4. ~\E u \in Slugs : Ssh(u) \/ Life(u) \/ KillLife(u) BY <1>1, SshMoves, LifeMoves
  <2> QED BY <1>1, <2>1, <2>2, <2>3, <2>4 DEF Next
<1>2. IInv /\ [Next]_vars => [Leaves]_vars
  <2> HIDE DEF Leaves
  <2> QED BY <1>1
<1>3. Spec => [][Leaves]_vars BY <1>2, AlwaysInv, PTL DEF Spec
<1> QED BY <1>3 DEF TokenLeavesOff
==============================================================================
