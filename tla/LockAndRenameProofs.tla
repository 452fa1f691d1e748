------------------------- MODULE LockAndRenameProofs -------------------------
(***************************************************************************)
(* Proofs about CaddyLock, for any set of runs, and about Rename, for any  *)
(* kinds of project and any number of failures and stops: the rename holds *)
(* the lock throughout, and the two modules share no name.                 *)
(***************************************************************************)
EXTENDS CaddyLock, Rename, TLAPS


(* The takeover's steps of a machine run, before it has made a directory. *)
Trying == {"idle", "mkdir", "stat", "read", "setaside", "compare", "putback"}

(* A run may not take over more than MaxTries times. *)
TriesLeft == \A r \in Run : pc[r] \in Trying => tries[r] < MaxTries

(* Where a run has not made its directory yet. *)
Unmade(r) ==
  \/ pc[r] \in Trying \cup {"find", "cat"}
  \/ r \notin leaving /\ pc[r] \in StationSteps

(* A directory that has not been made is nowhere. *)
UnmadeNowhere ==
  \A r \in Run : Unmade(r) => lock # r /\ \A s \in Run : aside[s] # r

IInv == TypeOK /\ TriesLeft /\ UnmadeNowhere /\ OnePlace

-----------------------------------------------------------------------------
LEMMA InitIInv == Init => IInv
  BY RunsAssumption DEF Init, IInv, TypeOK, TriesLeft, UnmadeNowhere, OnePlace, Unmade,
     Trying, Run, Dir, MaxTries, Exits, Owning, Acting, MachineSteps, StationSteps

(* The steps that move a directory. *)
LEMMA MoveIInv ==
  ASSUME IInv, NEW r \in Run,
         \/ MakeDir(r) \/ Unwind(r) \/ SetAside(r) \/ Compare(r) \/ PutBack(r) \/ Remove(r)
         \/ MoveAside(r) \/ Recheck(r) \/ Test(r) \/ MoveBack(r)
  PROVE  IInv'
<1> USE RunsAssumption DEF IInv, TypeOK, TriesLeft, UnmadeNowhere, OnePlace, Unmade, Goto,
        Trying, Run, Dir, MaxTries, Exits, Owning, Acting, MachineSteps, StationSteps
<1>1. CASE MakeDir(r)
  BY <1>1 DEF MakeDir
<1>2. CASE Unwind(r)
  BY <1>2 DEF Unwind
<1>3. CASE SetAside(r)
  BY <1>3 DEF SetAside, Again
<1>4. CASE Compare(r)
  BY <1>4 DEF Compare, Again
<1>5. CASE PutBack(r)
  BY <1>5 DEF PutBack, Again
<1>6. CASE Remove(r)
  BY <1>6 DEF Remove
<1>7. CASE MoveAside(r)
  BY <1>7 DEF MoveAside, After
<1>8. CASE Recheck(r)
  BY <1>8 DEF Recheck, After
<1>9. CASE Test(r)
  BY <1>9 DEF Test, After
<1>10. CASE MoveBack(r)
  BY <1>10 DEF MoveBack, After
<1> QED
  BY <1>1, <1>2, <1>3, <1>4, <1>5, <1>6, <1>7, <1>8, <1>9, <1>10

(* The steps that move none. *)
LEMMA StayIInv ==
  ASSUME IInv, NEW r \in Run,
         \/ Start(r) \/ FindTaken(r) \/ WriteHolder(r) \/ WriteFails(r)
         \/ Stat(r) \/ Judge(r) \/ Look(r) \/ Find(r) \/ Cat(r) \/ Cond(r)
         \/ Release(r) \/ Lend(r) \/ Kill(r) \/ Expire(r)
  PROVE  IInv'
<1> USE RunsAssumption DEF IInv, TypeOK, TriesLeft, UnmadeNowhere, OnePlace, Unmade, Goto,
        Trying, Run, Dir, MaxTries, Exits, Owning, Acting, MachineSteps, StationSteps
<1>1. CASE Start(r)
  BY <1>1 DEF Start
<1>2. CASE FindTaken(r)
  BY <1>2 DEF FindTaken
<1>3. CASE WriteHolder(r)
  BY <1>3 DEF WriteHolder
<1>4. CASE WriteFails(r)
  BY <1>4 DEF WriteFails
<1>5. CASE Stat(r)
  <2> DEFINE aged == lock \in old
  <2>1. aged \in BOOLEAN
    OBVIOUS
  <2>2. seen' = seen \/ seen' = [seen EXCEPT ![r] = [seen[r] EXCEPT !.dir = lock, !.old = aged]]
    BY <1>5 DEF Stat
  <2> HIDE DEF aged
  <2>3. [seen[r] EXCEPT !.dir = lock, !.old = aged] \in [dir : Dir, line : Dir, old : BOOLEAN]
    <3>1. seen[r] \in [dir : Dir, line : Dir, old : BOOLEAN]
      OBVIOUS
    <3>2. lock \in Dir
      OBVIOUS
    <3> QED
      BY <2>1, <3>1, <3>2
  <2> DEFINE noted == [seen[r] EXCEPT !.dir = lock, !.old = aged]
  <2> HIDE DEF noted
  <2>4. /\ noted \in [dir : Dir, line : Dir, old : BOOLEAN]
        /\ seen' = seen \/ seen' = [seen EXCEPT ![r] = noted]
    BY <2>2, <2>3 DEF noted
  <2>5. seen' \in [Run -> [dir : Dir, line : Dir, old : BOOLEAN]]
    BY <2>4
  <2>6. CASE lock = None
    BY <1>5, <2>5, <2>6 DEF Stat, Again
  <2>7. CASE lock # None
    BY <1>5, <2>5, <2>7 DEF Stat
  <2> QED
    BY <2>6, <2>7
<1>6. CASE Judge(r)
  BY <1>6 DEF Judge
<1>7. CASE Look(r)
  BY <1>7 DEF Look
<1>8. CASE Find(r)
  <2> DEFINE aged == lock \in old
  <2>1. aged \in BOOLEAN
    OBVIOUS
  <2>2. seen' = [seen EXCEPT ![r].old = aged]
    BY <1>8 DEF Find
  <2> HIDE DEF aged
  <2>3. seen' \in [Run -> [dir : Dir, line : Dir, old : BOOLEAN]]
    BY <2>1, <2>2
  <2> QED
    BY <1>8, <2>3 DEF Find
<1>9. CASE Cat(r)
  BY <1>9 DEF Cat, TextAt
<1>10. CASE Cond(r)
  BY <1>10 DEF Cond, After
<1>11. CASE Release(r)
  BY <1>11 DEF Release, HandBack
<1>12. CASE Lend(r)
  BY <1>12 DEF Lend, HandBack
<1>13. CASE Kill(r)
  BY <1>13 DEF Kill
<1>14. CASE Expire(r)
  BY <1>14 DEF Expire
<1> QED
  BY <1>1, <1>2, <1>3, <1>4, <1>5, <1>6, <1>7, <1>8, <1>9, <1>10, <1>11, <1>12, <1>13, <1>14

LEMMA NextIInv == IInv /\ [Next]_vars => IInv'
<1> SUFFICES ASSUME IInv, [Next]_vars PROVE IInv'
  OBVIOUS
<1>1. CASE UNCHANGED vars
  BY <1>1 DEF vars, IInv, TypeOK, TriesLeft, UnmadeNowhere, OnePlace, Unmade
<1>2. CASE Next
  BY <1>2, MoveIInv, StayIInv DEF Next, Step
<1> QED
  BY <1>1, <1>2

(* Every variable keeps its type: in particular no run takes the lock over a
   fourth time. *)
THEOREM TypeCorrect == Spec => []TypeOK
  BY InitIInv, NextIInv, PTL DEF Spec, IInv

(* Of any number of runs, killed and slow ones included, that judge a lock
   stale together, a single one sets it aside: a directory is never in two
   places at once. *)
THEOREM OneTaker == Spec => []OnePlace
  BY InitIInv, NextIInv, PTL DEF Spec, IInv

-----------------------------------------------------------------------------
(***************************************************************************)
(* Rename.  On the way out, what has been moved is a function of the steps *)
(* done (OutInv); on the way back, whatever is not where it was still has  *)
(* its way back noted (BackInv), and only a step of the way back that fails *)
(* breaks that, which keeps the backup.  A restart of the machine meanwhile *)
(* is the exception the two properties state.                              *)
(***************************************************************************)

(* All a name names but its services, whose state systemd alone keeps.      *)
Places == Things \ {"services", "enabled"}

\* The steps of a run, of a project whole under From, and their ways back.
StepsOf(k) ==
    CASE k = "app"       -> Range(AllSteps)
      [] k = "protected" -> {"layBlock", "tree", "store", "manifest", "dropBlock", "table", "validate", "reload", "verify"}
      [] k = "public"    -> {"tree", "store", "manifest", "table", "validate", "reload", "verify"}
WaysOf(k) ==
    CASE k = "app"       -> Ways \ {"newBlock"}
      [] k = "protected" -> {"blocks", "tree", "store", "manifest", "table"}
      [] k = "public"    -> {"tree", "store", "manifest", "table"}

\* The way back of a step, when the block of From is there.
WayOf(s) ==
    CASE s = "stop"     -> {"restart"}
      [] s = "setAside" -> {"units"}
      [] s = "layBlock" -> {"blocks"}
      [] s = "layUnits" -> {"newUnits"}
      [] s \in {"dropIns", "account", "tree", "store", "manifest", "table"} -> {s}
      [] OTHER          -> {}

\* Where a way back takes To away, among the places.
Removes(u) ==
    CASE u \in {"restart", "units"} -> {}
      [] u = "blocks"               -> {"block"}
      [] u = "newUnits"             -> {"units"}
      [] OTHER                      -> {u}

\* Where a way back puts From again, among the places.
Restores(u) ==
    CASE u \in {"restart", "newUnits"} -> {}
      [] u = "units"                   -> {"units"}
      [] u = "blocks"                  -> {"block"}
      [] OTHER                         -> {u}

StepsDone == StepsOf(kind) \ run.todo
Taken(x) == \E s \in StepsDone : x \in Takes(s)
Given(x) == \E s \in StepsDone : x \in Gives(s)

\* A step comes after all those before it.
Ordered == \A i, j \in DOMAIN AllSteps : i < j /\ AllSteps[i] \in run.todo /\ AllSteps[j] \in StepsOf(kind) => AllSteps[j] \in run.todo

\* Caddy serves what it served before the run.
LoadedBefore == loaded = IF "block" \in Has(kind) THEN {From} ELSE {}
\* The tree is moved back before the block that closes it is removed.
BlockUnderTree == \A i, j \in DOMAIN run.undos : run.undos[i] = "blocks" /\ run.undos[j] = "tree" => j < i

\* On the way out: the steps done say where everything is.
OutInv ==
    /\ backup /\ ~run.failed
    /\ run.todo \subseteq StepsOf(kind)
    /\ Ordered
    /\ \A x \in Places : at[x] = (IF x \in Has(kind) /\ ~Taken(x) THEN {From} ELSE {}) \cup (IF Given(x) THEN {To} ELSE {})
    /\ From \in at["services"] => "stop" \in run.todo
    /\ To \in at["services"] => "start" \in StepsDone
    /\ IF run.reloaded THEN "reload" \notin run.todo /\ loaded = at["block"] ELSE "reload" \in run.todo /\ LoadedBefore
    /\ Range(run.undos) = UNION {WayOf(s) : s \in StepsDone}
    /\ BlockUnderTree

\* On the way back, as long as nothing failed: what is not where it was has its
\* way back noted.
BackInv ==
    /\ backup
    /\ Range(run.undos) \subseteq WaysOf(kind)
    /\ ~run.failed =>
         /\ \A x \in Places :
              /\ From \in at[x] => x \in Has(kind)
              /\ x \in Has(kind) /\ From \notin at[x] => \E u \in Range(run.undos) : x \in Restores(u)
              /\ To \in at[x] => \E u \in Range(run.undos) : x \in Removes(u)
         /\ To \in at["services"] => "account" \in Range(run.undos)
         /\ ~run.reloaded => LoadedBefore /\ (To \in at["tree"] /\ kind # "public" => To \in at["block"])
         /\ BlockUnderTree
\* No folder of the project is served to anyone.
Shut == \A n \in Names : ~Open(n)

\* Unless the machine restarted while a run, or a backup, was there.
RunInv ==
    /\ kind # "app" => at["services"] = {}
    /\ run.pc \in {"idle", "checks"} => Whole(From) \/ Whole(To) \/ backup
    /\ run.pc = "out" => OutInv
    /\ run.pc = "back" => BackInv
    /\ Shut \/ run.reloaded \/ run.failed

RenameInv == RenameTypeOK /\ (rebooted \/ RunInv)

-----------------------------------------------------------------------------
LEMMA StepNames ==
  /\ Range(AllSteps) = {"stop", "setAside", "dropIns", "account", "layBlock", "tree", "store", "manifest",
                        "layUnits", "enable", "dropBlock", "table", "validate", "reload", "start", "verify"}
  /\ DOMAIN AllSteps = 1..16
  BY DEF AllSteps, Range

(* What the order of the steps says of those left: the block is laid before *)
(* the tree is moved, and Caddy reloaded after both and after From's block  *)
(* is dropped; only steps that have a way back precede the tree.            *)
LEMMA OrderSays ==
  ASSUME Ordered, kind \in Kinds
  PROVE  /\ "layBlock" \in run.todo => "tree" \in run.todo
         /\ "layBlock" \in run.todo /\ kind # "public" => "dropBlock" \in run.todo
         /\ "dropBlock" \in run.todo => "reload" \in run.todo
         /\ "tree" \in run.todo =>
              \A s \in StepsOf(kind) : s \in run.todo \/ s \in {"stop", "setAside", "dropIns", "account", "layBlock"}
<1>1. \A i, j \in 1..16 : i < j /\ AllSteps[i] \in run.todo /\ AllSteps[j] \in StepsOf(kind) => AllSteps[j] \in run.todo
  BY StepNames DEF Ordered
<1>2. kind = "app" \/ kind = "protected" \/ kind = "public"
  BY DEF Kinds
<1>3. /\ AllSteps[5] = "layBlock" /\ AllSteps[6] = "tree" /\ AllSteps[11] = "dropBlock" /\ AllSteps[14] = "reload"
      /\ AllSteps[7] = "store" /\ AllSteps[8] = "manifest" /\ AllSteps[9] = "layUnits" /\ AllSteps[10] = "enable"
      /\ AllSteps[12] = "table" /\ AllSteps[13] = "validate" /\ AllSteps[15] = "start" /\ AllSteps[16] = "verify"
  BY DEF AllSteps
<1>4. "tree" \in StepsOf(kind) /\ "reload" \in StepsOf(kind) /\ (kind # "public" => "dropBlock" \in StepsOf(kind))
  BY <1>2, StepNames DEF StepsOf
<1>5. "layBlock" \in run.todo => "tree" \in run.todo
  BY <1>1, <1>3, <1>4
<1>6. "layBlock" \in run.todo /\ kind # "public" => "dropBlock" \in run.todo
  BY <1>1, <1>3, <1>4
<1>7. "dropBlock" \in run.todo => "reload" \in run.todo
  BY <1>1, <1>3, <1>4
<1>8. ASSUME "tree" \in run.todo, NEW s \in StepsOf(kind)
      PROVE  s \in run.todo \/ s \in {"stop", "setAside", "dropIns", "account", "layBlock"}
  <2>1. s \in Range(AllSteps)
    BY <1>2, StepNames DEF StepsOf
  <2>2. \A j \in 7..16 : AllSteps[j] \in StepsOf(kind) => AllSteps[j] \in run.todo
    BY <1>1, <1>3, <1>8
  <2>3. s \in {"store", "manifest", "layUnits", "enable", "dropBlock", "table", "validate", "reload", "start", "verify"} => s \in run.todo
    BY <1>3, <2>2
  <2> QED
    BY <1>8, <2>1, <2>3, StepNames
<1> QED
  BY <1>5, <1>6, <1>7, <1>8

(* A step taken, the first of those left, leaves them in order.             *)
LEMMA StaysOrdered ==
  ASSUME Ordered, NEW s, NextStep(s), run'.todo = run.todo \ {s}, kind' = kind
  PROVE  Ordered'
<1>1. PICK k \in DOMAIN AllSteps : s = AllSteps[k] /\ \A j \in 1..k - 1 : AllSteps[j] \notin run.todo
  BY DEF NextStep
<1>2. \A i, j \in 1..16 : AllSteps[i] = AllSteps[j] => i = j
  BY DEF AllSteps
<1> SUFFICES ASSUME NEW i \in 1..16, NEW j \in 1..16, i < j, AllSteps[i] \in run'.todo, AllSteps[j] \in StepsOf(kind)
             PROVE  AllSteps[j] \in run'.todo
  BY StepNames DEF Ordered
<1>3. AllSteps[j] \in run.todo
  BY StepNames DEF Ordered
<1>4. k \in 1..16 /\ ~(i < k) /\ i # k
  BY <1>1, StepNames
<1>5. AllSteps[j] # s
  BY <1>1, <1>2, <1>4
<1> QED
  BY <1>3, <1>5

LEMMA StepsAre ==
  ASSUME kind \in Kinds
  PROVE  /\ StepsOf(kind) \subseteq Range(AllSteps)
         /\ kind # "app" => {"stop", "setAside", "dropIns", "account", "layUnits", "enable", "start"} \cap StepsOf(kind) = {}
         /\ {"tree", "store", "manifest", "table", "reload"} \subseteq StepsOf(kind)
         /\ kind = "public" => "layBlock" \notin StepsOf(kind) /\ "dropBlock" \notin StepsOf(kind)
         /\ kind # "public" => "layBlock" \in StepsOf(kind) /\ "dropBlock" \in StepsOf(kind)
  BY StepNames DEF StepsOf, Kinds

(* What a step notes is its way back: the block of From is still there when *)
(* To's is laid.                                                            *)
LEMMA NotesAre ==
  ASSUME kind \in Kinds, OutInv, NEW s \in run.todo
  PROVE  \/ Notes(s) = <<>> /\ WayOf(s) = {}
         \/ \E w \in WaysOf(kind) : Notes(s) = <<w>> /\ WayOf(s) = {w}
<1>1. s \in StepsOf(kind) /\ s \in Range(AllSteps)
  BY StepsAre DEF OutInv
<1>2. CASE s = "layBlock"
  <2>1. kind # "public" /\ "dropBlock" \in run.todo
    BY <1>1, <1>2, StepsAre, OrderSays DEF OutInv
  <2>2. "block" \in Places /\ "block" \in Has(kind)
    BY <2>1 DEF Places, Things, Has, Kinds
  <2>3. ~Taken("block")
    BY <2>1 DEF Taken, Takes, StepsDone
  <2>4. From \in at["block"]
    BY <2>2, <2>3 DEF OutInv
  <2> QED
    BY <1>2, <2>1, <2>4 DEF Notes, WayOf, WaysOf, Ways, Kinds
<1>3. CASE s # "layBlock"
  BY <1>1, <1>3, StepNames, StepsAre DEF Notes, WayOf, WaysOf, Ways, Kinds
<1> QED
  BY <1>2, <1>3

(* A way back put on top of those noted.                                    *)
LEMMA OnTop ==
  ASSUME NEW S, NEW q \in Seq(S), NEW w \in S
  PROVE  /\ <<w>> \o q \in Seq(S) /\ <<w>> \o q # <<>>
         /\ Range(<<w>> \o q) = {w} \cup Range(q)
         /\ \A i \in DOMAIN (<<w>> \o q) : (<<w>> \o q)[i] = IF i = 1 THEN w ELSE q[i - 1]
         /\ \A i \in DOMAIN (<<w>> \o q) : i \in Nat /\ (i # 1 => i - 1 \in DOMAIN q)
<1> DEFINE r == <<w>> \o q
<1>1. r \in Seq(S) /\ Len(r) = Len(q) + 1
  OBVIOUS
<1>2. r[1] = w /\ \A i \in 1..Len(q) : r[i + 1] = q[i]
  OBVIOUS
<1>3. DOMAIN r = 1..Len(q) + 1 /\ DOMAIN q = 1..Len(q) /\ Len(q) \in Nat
  BY <1>1
<1>4. \A i \in DOMAIN r : r[i] = IF i = 1 THEN w ELSE q[i - 1]
  BY <1>2, <1>3
<1>5. \A i \in DOMAIN r : i \in Nat /\ (i # 1 => i - 1 \in DOMAIN q)
  BY <1>3
<1>6. Range(r) \subseteq {w} \cup Range(q)
  BY <1>4, <1>5 DEF Range
<1>7. \A i \in DOMAIN q : i + 1 \in DOMAIN r
  BY <1>3
<1>8. {w} \cup Range(q) \subseteq Range(r)
  BY <1>2, <1>3, <1>7 DEF Range
<1> QED
  BY <1>1, <1>4, <1>5, <1>6, <1>8

LEMMA TopOff ==
  ASSUME NEW S, NEW q \in Seq(S), q # <<>>
  PROVE  /\ Tail(q) \in Seq(S) /\ Head(q) \in S /\ Head(q) = q[1] /\ 1 \in DOMAIN q
         /\ Range(q) = {Head(q)} \cup Range(Tail(q))
         /\ \A i \in DOMAIN Tail(q) : i \in Nat /\ i + 1 \in DOMAIN q /\ Tail(q)[i] = q[i + 1]
<1>1. Len(q) \in Nat /\ Len(q) > 0 /\ DOMAIN q = 1..Len(q)
  OBVIOUS
<1>2. Tail(q) \in Seq(S) /\ Head(q) \in S /\ Len(Tail(q)) = Len(q) - 1 /\ Head(q) = q[1]
  BY <1>1
<1>3. DOMAIN Tail(q) = 1..Len(q) - 1
  BY <1>2
<1>4. \A i \in 1..Len(q) - 1 : Tail(q)[i] = q[i + 1]
  BY <1>1, <1>2
<1>5. Range(q) \subseteq {Head(q)} \cup Range(Tail(q))
  <2> SUFFICES ASSUME NEW i \in DOMAIN q, i # 1 PROVE q[i] \in Range(Tail(q))
    BY <1>2 DEF Range
  <2>1. i - 1 \in DOMAIN Tail(q) /\ Tail(q)[i - 1] = q[i]
    BY <1>1, <1>3, <1>4
  <2> QED
    BY <2>1 DEF Range
<1>6. {Head(q)} \cup Range(Tail(q)) \subseteq Range(q)
  BY <1>1, <1>2, <1>3, <1>4 DEF Range
<1> QED
  BY <1>1, <1>2, <1>3, <1>4, <1>5, <1>6

LEMMA WaysTyped ==
  ASSUME kind \in Kinds
  PROVE  WaysOf(kind) \subseteq Ways /\ "newBlock" \notin WaysOf(kind)
  BY DEF WaysOf, Ways, Kinds

(* Things are moved to the new name, and back, and nowhere else.            *)
LEMMA MovedTyped ==
  ASSUME at \in [Things -> SUBSET Names], NEW lost, NEW given
  PROVE  /\ Moved(lost, given) \in [Things -> SUBSET Names]
         /\ Back(lost, given) \in [Things -> SUBSET Names]
         /\ \A x \in Things : /\ From \in Moved(lost, given)[x] <=> From \in at[x] /\ x \notin lost
                              /\ To \in Moved(lost, given)[x] <=> To \in at[x] \/ x \in given
                              /\ To \in Back(lost, given)[x] <=> To \in at[x] /\ x \notin lost
                              /\ From \in Back(lost, given)[x] <=> From \in at[x] \/ x \in given
  BY NamesAssumption DEF Moved, Back, Names

(* The block's way back is always noted under the tree's.                   *)
LEMMA WayNoted ==
  ASSUME RenameTypeOK, OutInv, NEW s \in run.todo
  PROVE  /\ Notes(s) \o run.undos \in Seq(Ways)
         /\ Notes(s) # <<>> => Notes(s) \o run.undos # <<>>
         /\ Notes(s) = <<>> => Notes(s) \o run.undos = run.undos /\ WayOf(s) = {}
         /\ Range(Notes(s) \o run.undos) = WayOf(s) \cup Range(run.undos)
         /\ \A i, j \in DOMAIN (Notes(s) \o run.undos) :
              (Notes(s) \o run.undos)[i] = "blocks" /\ (Notes(s) \o run.undos)[j] = "tree" => j < i
<1>1. run.undos \in Seq(Ways) /\ kind \in Kinds
  BY DEF RenameTypeOK, Running
<1>2. s \in StepsOf(kind) /\ s \in Range(AllSteps)
  BY <1>1, StepsAre DEF OutInv
<1>3. CASE Notes(s) = <<>> /\ WayOf(s) = {}
  <2>1. Notes(s) \o run.undos = run.undos
    BY <1>1, <1>3
  <2> QED
    BY <1>1, <1>3, <2>1 DEF OutInv, BlockUnderTree
<1>4. ASSUME NEW w \in WaysOf(kind), Notes(s) = <<w>>, WayOf(s) = {w}
      PROVE  /\ Notes(s) \o run.undos \in Seq(Ways)
             /\ Notes(s) # <<>> /\ Notes(s) \o run.undos # <<>>
             /\ Range(Notes(s) \o run.undos) = WayOf(s) \cup Range(run.undos)
             /\ \A i, j \in DOMAIN (Notes(s) \o run.undos) :
                  (Notes(s) \o run.undos)[i] = "blocks" /\ (Notes(s) \o run.undos)[j] = "tree" => j < i
  <2> DEFINE q == <<w>> \o run.undos
  <2>1. w \in Ways
    BY <1>1, WaysTyped
  <2>2. /\ q \in Seq(Ways) /\ q # <<>>
        /\ Range(q) = {w} \cup Range(run.undos)
        /\ \A i \in DOMAIN q : q[i] = IF i = 1 THEN w ELSE run.undos[i - 1]
        /\ \A i \in DOMAIN q : i \in Nat /\ (i # 1 => i - 1 \in DOMAIN run.undos)
    BY <1>1, <2>1, OnTop
  <2> HIDE DEF q
  <2>3. w = "blocks" => "tree" \notin Range(run.undos)
    <3> SUFFICES ASSUME w = "blocks" PROVE "tree" \notin Range(run.undos)
      OBVIOUS
    <3>1. s = "layBlock"
      BY <1>2, <1>4, StepNames DEF WayOf
    <3>2. "tree" \in run.todo
      BY <1>1, <3>1, OrderSays DEF OutInv
    <3>3. \A t \in StepsDone : "tree" \notin WayOf(t)
      BY <1>1, <3>2, StepsAre, StepNames DEF StepsDone, WayOf
    <3> QED
      BY <3>3 DEF OutInv
  <2>4. ASSUME NEW i \in DOMAIN q, NEW j \in DOMAIN q, q[i] = "blocks", q[j] = "tree" PROVE j < i
    <3>1. CASE i = 1
      BY <2>2, <2>3, <2>4, <3>1 DEF Range
    <3>2. CASE i # 1 /\ j = 1
      BY <2>2, <2>4, <3>2
    <3>3. CASE i # 1 /\ j # 1
      <4>1. j - 1 < i - 1
        BY <2>2, <2>4, <3>3 DEF OutInv, BlockUnderTree
      <4> QED
        BY <2>2, <4>1
    <3> QED
      BY <3>1, <3>2, <3>3
  <2>5. Notes(s) \o run.undos = q
    BY <1>4 DEF q
  <2>6. Notes(s) # <<>>
    BY <1>4
  <2> QED
    BY <1>4, <2>2, <2>4, <2>5, <2>6
<1> QED
  BY <1>1, <1>3, <1>4, NotesAre

LEMMA TakeStepOut ==
  ASSUME RenameTypeOK, OutInv, NEW s \in run.todo, NextStep(s),
         at' = Moved(Takes(s), Gives(s)),
         loaded' = IF s = "reload" THEN at["block"] ELSE loaded,
         run' = [run EXCEPT !.todo = @ \ {s}, !.undos = Notes(s) \o @, !.reloaded = @ \/ s = "reload"],
         UNCHANGED <<kind, backup>>
  PROVE  OutInv'
<1>1. kind \in Kinds /\ run \in Running /\ at \in [Things -> SUBSET Names]
  BY DEF RenameTypeOK, Running
<1>2. s \in StepsOf(kind) /\ s \in Range(AllSteps)
  BY <1>1, StepsAre DEF OutInv
<1>3. /\ run'.todo = run.todo \ {s} /\ run'.undos = Notes(s) \o run.undos
      /\ run'.reloaded = (run.reloaded \/ s = "reload") /\ run'.failed = run.failed
  BY <1>1 DEF Running
<1>4. StepsDone' = StepsDone \cup {s} /\ run'.todo \subseteq StepsOf(kind)
  BY <1>2, <1>3 DEF StepsDone, OutInv
<1>5. \A x : (Taken(x)' <=> Taken(x) \/ x \in Takes(s)) /\ (Given(x)' <=> Given(x) \/ x \in Gives(s))
  BY <1>4 DEF Taken, Given, Takes, Gives
<1>6. Ordered'
  BY <1>3, StaysOrdered DEF OutInv
<1>7. ASSUME NEW x \in Places
      PROVE  at'[x] = (IF x \in Has(kind') /\ ~Taken(x)' THEN {From} ELSE {}) \cup (IF Given(x)' THEN {To} ELSE {})
  <2>1. x \in Things
    BY DEF Places
  <2>2. at'[x] \subseteq {From, To} /\ (From \in at'[x] <=> From \in at[x] /\ x \notin Takes(s)) /\ (To \in at'[x] <=> To \in at[x] \/ x \in Gives(s))
    BY <1>1, <2>1, MovedTyped DEF Names
  <2>3. (From \in at[x] <=> x \in Has(kind) /\ ~Taken(x)) /\ (To \in at[x] <=> Given(x))
    BY NamesAssumption DEF OutInv
  <2> QED
    BY <1>5, <2>2, <2>3, NamesAssumption
<1>8. /\ From \in at'["services"] => "stop" \in run'.todo
      /\ To \in at'["services"] => "start" \in StepsDone'
  <2>1. /\ From \in at'["services"] <=> From \in at["services"] /\ "services" \notin Takes(s)
        /\ To \in at'["services"] <=> To \in at["services"] \/ "services" \in Gives(s)
    BY <1>1, MovedTyped DEF Things
  <2>2. ("services" \in Takes(s) <=> s = "stop") /\ ("services" \in Gives(s) <=> s = "start")
    BY <1>2, StepNames DEF Takes, Gives
  <2> QED
    BY <1>3, <1>4, <2>1, <2>2 DEF OutInv
<1>9. IF run'.reloaded THEN "reload" \notin run'.todo /\ loaded' = at'["block"] ELSE "reload" \in run'.todo /\ LoadedBefore'
  <2>1. CASE s = "reload"
    <3>1. at'["block"] = at["block"]
      BY <1>1, <2>1 DEF Moved, Takes, Gives, Things
    <3> QED
      BY <1>3, <2>1, <3>1
  <2>2. CASE s # "reload" /\ run.reloaded
    <3>1. "reload" \notin run.todo /\ loaded = at["block"]
      BY <2>2 DEF OutInv
    <3>2. s # "dropBlock" /\ s # "layBlock"
      BY <1>1, <1>2, <3>1, OrderSays, StepsAre DEF OutInv
    <3>3. at'["block"] = at["block"]
      BY <1>1, <1>2, <3>2, StepNames DEF Moved, Takes, Gives, Things
    <3> QED
      BY <1>3, <2>2, <3>1, <3>3
  <2>3. CASE s # "reload" /\ ~run.reloaded
    BY <1>3, <2>3 DEF OutInv, LoadedBefore
  <2> QED
    BY <2>1, <2>2, <2>3
<1>10. Range(run'.undos) = UNION {WayOf(t) : t \in StepsDone'} /\ BlockUnderTree'
  <2>1. UNION {WayOf(t) : t \in StepsDone'} = WayOf(s) \cup UNION {WayOf(t) : t \in StepsDone}
    BY <1>4
  <2>2. Range(run'.undos) = WayOf(s) \cup Range(run.undos)
    BY <1>3, WayNoted
  <2>3. BlockUnderTree'
    BY <1>3, WayNoted DEF BlockUnderTree
  <2> QED
    BY <2>1, <2>2, <2>3 DEF OutInv
<1> QED
  BY <1>3, <1>4, <1>6, <1>7, <1>8, <1>9, <1>10 DEF OutInv

(* On the way out, every thing that is not where it was has its way back    *)
(* noted, and the tree is under the new name only behind its block.         *)
LEMMA OutNoted ==
  ASSUME RenameTypeOK, OutInv
  PROVE  /\ Range(run.undos) \subseteq WaysOf(kind)
         /\ \A x \in Places :
              /\ From \in at[x] => x \in Has(kind)
              /\ x \in Has(kind) /\ From \notin at[x] => \E u \in Range(run.undos) : x \in Restores(u)
              /\ To \in at[x] => \E u \in Range(run.undos) : x \in Removes(u)
         /\ To \in at["services"] => "account" \in Range(run.undos)
         /\ "dropBlock" \notin run.todo /\ kind # "public" => "blocks" \in Range(run.undos)
         /\ To \in at["tree"] /\ kind # "public" => To \in at["block"]
<1>1. kind \in Kinds
  BY DEF RenameTypeOK
<1>2. \A s \in StepsDone : WayOf(s) \subseteq Range(run.undos)
  BY DEF OutInv
<1>3. \A s \in StepsDone : s \in StepsOf(kind) /\ s \in Range(AllSteps)
  BY <1>1, StepsAre DEF StepsDone
<1>4. Range(run.undos) \subseteq WaysOf(kind)
  <2>1. ASSUME NEW s \in StepsOf(kind) PROVE WayOf(s) \subseteq WaysOf(kind)
    <3>1. s \in Range(AllSteps)
      BY <1>1, StepsAre
    <3> QED
      BY <1>1, <3>1, StepNames, StepsAre DEF WayOf, WaysOf, Ways, Kinds
  <2> QED
    BY <1>3, <2>1 DEF OutInv
<1>5. \A x \in Places : (From \in at[x] <=> x \in Has(kind) /\ ~Taken(x)) /\ (To \in at[x] <=> Given(x))
  BY NamesAssumption DEF OutInv
<1>6. "dropBlock" \notin run.todo /\ kind # "public" => "blocks" \in Range(run.undos)
  <2> SUFFICES ASSUME "dropBlock" \notin run.todo, kind # "public" PROVE "blocks" \in Range(run.undos)
    OBVIOUS
  <2>1. "layBlock" \in StepsDone
    BY <1>1, OrderSays, StepsAre DEF OutInv, StepsDone
  <2> QED
    BY <1>2, <2>1 DEF WayOf
<1>7. ASSUME NEW x \in Places, x \in Has(kind), From \notin at[x]
      PROVE  \E u \in Range(run.undos) : x \in Restores(u)
  <2>1. PICK s \in StepsDone : x \in Takes(s)
    BY <1>5, <1>7 DEF Taken
  <2>2. CASE s = "dropBlock"
    <3>1. "blocks" \in Range(run.undos) /\ x = "block"
      BY <1>1, <1>3, <1>6, <2>1, <2>2, StepsAre DEF Takes, StepsDone
    <3> QED
      BY <3>1 DEF Restores
  <2>3. CASE s # "dropBlock"
    <3>1. \E u \in WayOf(s) : x \in Restores(u)
      BY <1>3, <2>1, <2>3, StepNames DEF Takes, WayOf, Restores, Places
    <3> QED
      BY <1>2, <3>1
  <2> QED
    BY <2>2, <2>3
<1>8. ASSUME NEW x \in Places, To \in at[x]
      PROVE  \E u \in Range(run.undos) : x \in Removes(u)
  <2>1. PICK s \in StepsDone : x \in Gives(s)
    BY <1>5, <1>8 DEF Given
  <2>2. \E u \in WayOf(s) : x \in Removes(u)
    BY <1>3, <2>1, StepNames DEF Gives, WayOf, Removes, Places
  <2> QED
    BY <1>2, <2>2
<1>9. To \in at["services"] => "account" \in Range(run.undos)
  <2> SUFFICES ASSUME "start" \in StepsDone PROVE "account" \in Range(run.undos)
    BY DEF OutInv
  <2>1. kind = "app" /\ "start" \notin run.todo
    BY <1>1, StepsAre DEF StepsDone
  <2>2. "account" \in StepsOf(kind)
    BY <2>1, StepNames DEF StepsOf
  <2>3. AllSteps[3 + 1] = "account" /\ AllSteps[15] = "start" /\ "start" \in StepsOf(kind)
    BY <2>1, StepNames DEF AllSteps, StepsOf
  <2>4. "account" \notin run.todo
    BY <2>1, <2>3, StepNames DEF OutInv, Ordered
  <2> QED
    BY <1>2, <2>2, <2>4 DEF StepsDone, WayOf
<1>10. To \in at["tree"] /\ kind # "public" => To \in at["block"]
  <2> SUFFICES ASSUME Given("tree"), kind # "public" PROVE Given("block")
    BY <1>5 DEF Places, Things
  <2>1. "tree" \in StepsDone
    BY <1>3, StepNames DEF Given, Gives
  <2>2. "layBlock" \in StepsDone
    BY <1>1, <2>1, OrderSays, StepsAre DEF OutInv, StepsDone
  <2> QED
    BY <2>2 DEF Given, Gives
<1> QED
  BY <1>4, <1>5, <1>6, <1>7, <1>8, <1>9, <1>10

LEMMA BlockPlaced == ASSUME kind \in Kinds PROVE kind # "public" <=> "block" \in Has(kind)
  BY DEF Kinds, Has, Things

LEMMA OutShut == RenameTypeOK /\ OutInv => Shut \/ run.reloaded
<1> SUFFICES ASSUME RenameTypeOK, OutInv, NEW n \in Names, Open(n), ~run.reloaded PROVE FALSE
  BY DEF Shut
<1>1. kind # "public" /\ kind \in Kinds
  BY DEF RenameTypeOK, Open
<1>2. From \in loaded
  BY <1>1, BlockPlaced DEF OutInv, LoadedBefore
<1>3. n = To
  BY <1>2 DEF Open, Names
<1> QED
  BY <1>1, <1>3, OutNoted DEF Open, OutInv

LEMMA BackShut == RenameTypeOK /\ BackInv => Shut \/ run.reloaded \/ run.failed
<1> SUFFICES ASSUME RenameTypeOK, BackInv, NEW n \in Names, Open(n), ~run.reloaded, ~run.failed PROVE FALSE
  BY DEF Shut
<1>1. kind # "public" /\ kind \in Kinds
  BY DEF RenameTypeOK, Open
<1>2. From \in loaded
  BY <1>1, BlockPlaced DEF BackInv, LoadedBefore
<1>3. n = To
  BY <1>2 DEF Open, Names
<1> QED
  BY <1>1, <1>3, OutNoted DEF Open, BackInv

LEMMA WholeShut == RenameTypeOK => \A m \in Names : Whole(m) => Shut
  BY DEF Whole, Open, Has, Things, Kinds, Shut, RenameTypeOK

(* The first step, failing before anything is noted, has changed nothing.   *)
LEMMA NothingNoted ==
  ASSUME RenameTypeOK, OutInv, NEW s \in run.todo, NextStep(s),
         (IF s \in NotedBefore THEN Notes(s) ELSE <<>>) \o run.undos = <<>>
  PROVE  StepsDone = {} /\ s \in {"dropIns", "account", "tree", "store"} /\ Whole(From)
<1>1. kind \in Kinds /\ run.undos \in Seq(Ways)
  BY DEF RenameTypeOK, Running
<1>2. s \in StepsOf(kind) /\ s \in Range(AllSteps)
  BY <1>1, StepsAre DEF OutInv
<1>3. run.undos = <<>> /\ s \notin NotedBefore
  <2>1. CASE s \in NotedBefore
    <3>1. Notes(s) = <<>> /\ WayOf(s) = {}
      BY <2>1, WayNoted
    <3> QED
      BY <2>1, <3>1 DEF NotedBefore, WayOf
  <2>2. CASE s \notin NotedBefore
    <3>1. <<>> \o run.undos = run.undos
      BY <1>1
    <3> QED
      BY <2>2, <3>1
  <2> QED
    BY <2>1, <2>2
<1>4. \A t \in StepsDone : WayOf(t) = {}
  BY <1>3 DEF OutInv, Range
<1>5. "tree" \in run.todo
  BY <1>1, <1>4, StepsAre DEF StepsDone, WayOf
<1>6. StepsDone = {}
  <2> SUFFICES ASSUME NEW t \in StepsDone PROVE FALSE
    OBVIOUS
  <2>1. t \in {"stop", "setAside", "dropIns", "account", "layBlock"}
    BY <1>1, <1>5, OrderSays DEF OutInv, StepsDone
  <2> QED
    BY <1>4, <2>1 DEF WayOf
<1>7. s \in {"stop", "setAside", "dropIns", "account", "layBlock", "tree"}
  <2>1. PICK i \in 1..16 : s = AllSteps[i] /\ \A j \in 1..i - 1 : AllSteps[j] \notin run.todo
    BY StepNames DEF NextStep
  <2>2. AllSteps[6] = "tree"
    BY DEF AllSteps
  <2>3. ~(6 < i)
    BY <1>5, <2>1, <2>2
  <2>4. i \in 1..6
    BY <2>3
  <2> QED
    BY <2>1, <2>4 DEF AllSteps
<1>8. \A x : ~Taken(x) /\ ~Given(x)
  BY <1>6 DEF Taken, Given
<1>9. /\ \A x \in Places : at[x] = IF x \in Has(kind) THEN {From} ELSE {}
      /\ at \in [Things -> SUBSET Names]
  BY <1>8 DEF OutInv, RenameTypeOK
<1>10. ~run.reloaded /\ LoadedBefore
  BY <1>1, <1>6, StepsAre DEF OutInv, StepsDone
<1>11. /\ at["services"] \subseteq {From} /\ at["enabled"] \cap at["units"] \subseteq {From} /\ loaded = at["block"]
  <2>1. To \notin at["services"]
    BY <1>6 DEF OutInv
  <2> QED
    BY <1>9, <1>10, <2>1 DEF Places, Things, Names, LoadedBefore
<1>12. Whole(From)
  BY <1>9, <1>11 DEF Whole, Places
<1> QED
  BY <1>3, <1>6, <1>7, <1>12 DEF NotedBefore

LEMMA StepFailsBack ==
  ASSUME RenameTypeOK, OutInv, NEW s \in run.todo, NextStep(s),
         NEW lost \in SUBSET Takes(s), NEW given \in SUBSET Gives(s), at' = Moved(lost, given),
         s \in {"dropIns", "account", "tree", "store"} => lost = {} /\ given = {},
         loaded' \in (IF s = "reload" THEN {at["block"]} ELSE {}) \cup {loaded},
         NEW undos, undos = (IF s \in NotedBefore THEN Notes(s) ELSE <<>>) \o run.undos, undos # <<>>,
         run' = [run EXCEPT !.pc = "back", !.todo = {}, !.undos = undos, !.reloaded = @ \/ s = "reload"],
         backup', UNCHANGED kind
  PROVE  BackInv'
<1>1. kind \in Kinds /\ run \in Running /\ at \in [Things -> SUBSET Names] /\ run.undos \in Seq(Ways)
  BY DEF RenameTypeOK, Running
<1>2. s \in StepsOf(kind) /\ s \in Range(AllSteps)
  BY <1>1, StepsAre DEF OutInv
<1>3. /\ run'.undos = undos /\ run'.failed = run.failed
      /\ run'.reloaded = (run.reloaded \/ s = "reload")
  BY <1>1 DEF Running
<1>4. /\ Range(undos) = Range(run.undos) \cup (IF s \in NotedBefore THEN WayOf(s) ELSE {})
      /\ \A i, j \in DOMAIN undos : undos[i] = "blocks" /\ undos[j] = "tree" => j < i
  <2>1. CASE s \in NotedBefore
    BY <2>1, WayNoted
  <2>2. CASE s \notin NotedBefore
    <3>1. <<>> \o run.undos = run.undos
      BY <1>1
    <3> QED
      BY <2>2, <3>1 DEF OutInv, BlockUnderTree
  <2> QED
    BY <2>1, <2>2
<1>5. WayOf(s) \subseteq WaysOf(kind)
  BY <1>1, <1>2, StepNames, StepsAre DEF WayOf, WaysOf, Ways, Kinds
<1>6. Range(undos) \subseteq WaysOf(kind)
  BY <1>4, <1>5, OutNoted
<1>7. \A x \in Things : /\ From \in at'[x] <=> From \in at[x] /\ x \notin lost
                        /\ To \in at'[x] <=> To \in at[x] \/ x \in given
  BY <1>1, MovedTyped
<1>8. ASSUME NEW x \in Places, x \in Has(kind), From \notin at'[x]
      PROVE  \E u \in Range(undos) : x \in Restores(u)
  <2>1. CASE From \notin at[x]
    BY <1>4, <1>8, <2>1, OutNoted
  <2>2. CASE x \in lost /\ s \in NotedBefore
    <3>1. \E u \in WayOf(s) : x \in Restores(u)
      BY <2>2 DEF NotedBefore, Takes, WayOf, Restores, Places
    <3> QED
      BY <1>4, <2>2, <3>1
  <2>3. CASE x \in lost /\ s \notin NotedBefore
    <3>1. s = "dropBlock" /\ x = "block"
      BY <1>2, <2>3, StepNames DEF NotedBefore, Takes, Places
    <3>2. kind # "public"
      BY <1>1, <1>2, <3>1, StepsAre
    <3>3. "layBlock" \notin run.todo
      <4>1. AllSteps[5] = "layBlock" /\ \A i \in 1..16 : AllSteps[i] = "dropBlock" => i = 11
        BY DEF AllSteps
      <4>2. PICK i \in 1..16 : s = AllSteps[i] /\ \A j \in 1..i - 1 : AllSteps[j] \notin run.todo
        BY StepNames DEF NextStep
      <4> QED
        BY <3>1, <4>1, <4>2
    <3>4. "layBlock" \in StepsDone
      BY <1>1, <3>2, <3>3, StepsAre DEF StepsDone
    <3>5. "blocks" \in Range(run.undos)
      BY <3>4 DEF OutInv, WayOf
    <3> QED
      BY <1>4, <3>1, <3>5 DEF Restores
  <2> QED
    BY <1>7, <1>8, <2>1, <2>2, <2>3 DEF Places
<1>9. ASSUME NEW x \in Places, To \in at'[x]
      PROVE  \E u \in Range(undos) : x \in Removes(u)
  <2>1. CASE To \in at[x]
    BY <1>4, <2>1, OutNoted
  <2>2. CASE x \in given
    <3>1. s \in NotedBefore /\ \E u \in WayOf(s) : x \in Removes(u)
      BY <1>2, <2>2, StepNames DEF NotedBefore, Gives, WayOf, Removes, Places
    <3> QED
      BY <1>4, <3>1
  <2> QED
    BY <1>7, <1>9, <2>1, <2>2 DEF Places
<1>10. To \in at'["services"] => "account" \in Range(undos)
  <2>1. To \in at["services"] => "account" \in Range(undos)
    BY <1>4, OutNoted
  <2>2. ASSUME "services" \in given PROVE "account" \in Range(undos)
    <3>1. s = "start"
      BY <1>2, <2>2, StepNames DEF Gives
    <3>2. kind = "app"
      BY <1>1, <1>2, <3>1, StepsAre
    <3>3. AllSteps[4] = "account" /\ \A i \in 1..16 : AllSteps[i] = "start" => i = 15
      BY DEF AllSteps
    <3>4. PICK i \in 1..16 : s = AllSteps[i] /\ \A j \in 1..i - 1 : AllSteps[j] \notin run.todo
      BY StepNames DEF NextStep
    <3>5. "account" \in StepsDone
      BY <3>1, <3>2, <3>3, <3>4, StepNames DEF StepsDone, StepsOf
    <3> QED
      BY <1>4, <3>5 DEF OutInv, WayOf
  <2> QED
    BY <1>7, <2>1, <2>2 DEF Things
<1>11. ~run'.reloaded => LoadedBefore' /\ (To \in at'["tree"] /\ kind # "public" => To \in at'["block"])
  <2> SUFFICES ASSUME ~run'.reloaded PROVE LoadedBefore' /\ (To \in at'["tree"] /\ kind # "public" => To \in at'["block"])
    OBVIOUS
  <2>1. LoadedBefore'
    BY <1>3 DEF OutInv, LoadedBefore
  <2>2. "tree" \notin given
    BY <1>2, StepNames DEF Gives
  <2>3. To \in at'["tree"] /\ kind # "public" => To \in at'["block"]
    BY <1>7, <2>2, OutNoted DEF Things
  <2> QED
    BY <2>1, <2>3
<1>12. \A x \in Places : From \in at'[x] => x \in Has(kind)
  BY <1>7, OutNoted DEF Places
<1>13. BlockUnderTree'
  BY <1>3, <1>4 DEF BlockUnderTree
<1> QED
  BY <1>3, <1>6, <1>8, <1>9, <1>10, <1>11, <1>12, <1>13 DEF BackInv

(* What a way back puts back and removes, among the places and elsewhere.   *)
LEMMA UndoneDoes ==
  ASSUME at \in [Things -> SUBSET Names], NEW u \in Ways \ {"newBlock"}
  PROVE  /\ \A x \in Places : /\ From \in Undone(u)[x] <=> From \in at[x] \/ x \in Restores(u)
                              /\ To \in Undone(u)[x] <=> To \in at[x] /\ x \notin Removes(u)
         /\ To \in Undone(u)["services"] => To \in at["services"]
         /\ u # "restart" => Undone(u)["services"] \subseteq at["services"]
<1>1. CASE u = "restart"
  BY <1>1, MovedTyped DEF Undone, Restores, Removes, Places, Things
<1>2. CASE u = "units"
  BY <1>2, MovedTyped DEF Undone, Restores, Removes, Places, Things, Back
<1>3. CASE u = "blocks"
  BY <1>3, MovedTyped DEF Undone, Restores, Removes, Places, Things, Back
<1>4. CASE u = "newUnits"
  BY <1>4, MovedTyped DEF Undone, Restores, Removes, Places, Things, Back
<1>5. CASE u \notin {"restart", "units", "blocks", "newUnits"}
  <2>1. Undone(u) = Back({u}, {u}) /\ Restores(u) = {u} /\ Removes(u) = {u} /\ u # "services"
    BY <1>5 DEF Undone, Restores, Removes, Ways
  <2> QED
    BY <1>5, <2>1, MovedTyped DEF Places, Things, Back
<1> QED
  BY <1>1, <1>2, <1>3, <1>4, <1>5

(* A way back taken off the top of those noted. Its place is put back, and  *)
(* the tree is back before the block that closed it is removed.             *)
LEMMA UnwoundBack ==
  ASSUME RenameTypeOK, BackInv, run.undos # <<>>, NEW u, u = Head(run.undos),
         NEW failed \in BOOLEAN, run.failed => failed,
         run' = [run EXCEPT !.undos = Tail(@), !.failed = failed],
         ~failed => /\ \A x \in Places : /\ From \in at'[x] <=> From \in at[x] \/ x \in Restores(u)
                                         /\ To \in at'[x] <=> To \in at[x] /\ x \notin Removes(u)
                    /\ To \in at'["services"] => To \in at["services"] /\ u # "account",
         UNCHANGED <<kind, loaded, backup>>
  PROVE  BackInv'
<1>1. kind \in Kinds /\ run \in Running /\ run.undos \in Seq(Ways)
  BY DEF RenameTypeOK, Running
<1>2. run'.undos = Tail(run.undos) /\ run'.failed = failed /\ run'.reloaded = run.reloaded
  BY <1>1 DEF Running
<1> DEFINE q == run.undos
           rest == Tail(run.undos)
<1>3. /\ u = q[1] /\ 1 \in DOMAIN q /\ Range(q) = {u} \cup Range(rest)
      /\ \A i \in DOMAIN rest : i \in Nat /\ i + 1 \in DOMAIN q /\ rest[i] = q[i + 1]
  BY <1>1, TopOff
<1> HIDE DEF rest
<1>4. Range(rest) \subseteq WaysOf(kind)
  BY <1>3 DEF BackInv
<1>5. ASSUME ~failed
      PROVE  /\ \A x \in Places :
                  /\ From \in at'[x] => x \in Has(kind)
                  /\ x \in Has(kind) /\ From \notin at'[x] => \E w \in Range(rest) : x \in Restores(w)
                  /\ To \in at'[x] => \E w \in Range(rest) : x \in Removes(w)
             /\ To \in at'["services"] => "account" \in Range(rest)
             /\ ~run.reloaded => LoadedBefore' /\ (To \in at'["tree"] /\ kind # "public" => To \in at'["block"])
             /\ \A i, j \in DOMAIN rest : rest[i] = "blocks" /\ rest[j] = "tree" => j < i
  <2>1. ~run.failed /\ u \in WaysOf(kind)
    BY <1>3, <1>5 DEF BackInv
  <2>2. Restores(u) \cap Places \subseteq Has(kind)
    BY <1>1, <2>1 DEF WaysOf, Ways, Kinds, Restores, Places, Has, Things
  <2>3. \A x \in Places :
                  /\ From \in at'[x] => x \in Has(kind)
                  /\ x \in Has(kind) /\ From \notin at'[x] => \E w \in Range(rest) : x \in Restores(w)
                  /\ To \in at'[x] => \E w \in Range(rest) : x \in Removes(w)
    BY <1>3, <1>5, <2>1, <2>2 DEF BackInv
  <2>4. To \in at'["services"] => "account" \in Range(rest)
    BY <1>3, <1>5, <2>1 DEF BackInv
  <2>5. \A i, j \in DOMAIN rest : rest[i] = "blocks" /\ rest[j] = "tree" => j < i
    <3> SUFFICES ASSUME NEW i \in DOMAIN rest, NEW j \in DOMAIN rest, rest[i] = "blocks", rest[j] = "tree" PROVE j < i
      OBVIOUS
    <3>1. j + 1 < i + 1
      BY <1>3, <2>1 DEF BackInv, BlockUnderTree
    <3> QED
      BY <1>3, <3>1
  <2>6. ASSUME ~run.reloaded, To \in at'["tree"], kind # "public" PROVE To \in at'["block"]
    <3>1. To \in at["tree"] /\ u # "tree" /\ To \in at["block"]
      BY <1>5, <2>1, <2>6 DEF BackInv, Places, Things, Removes
    <3>2. "tree" \in Range(q)
      <4>1. PICK w \in Range(q) : "tree" \in Removes(w)
        BY <2>1, <3>1 DEF BackInv, Places, Things
      <4>2. w = "tree"
        BY <4>1 DEF Removes
      <4> QED
        BY <4>1, <4>2
    <3>3. u # "blocks"
      <4> SUFFICES ASSUME u = "blocks" PROVE FALSE
        OBVIOUS
      <4>1. PICK j \in DOMAIN q : q[j] = "tree"
        BY <3>2 DEF Range
      <4>2. j < 1
        BY <1>3, <2>1, <4>1 DEF BackInv, BlockUnderTree
      <4>3. j \in 1..Len(q)
        BY <1>1, <4>1
      <4> QED
        BY <4>2, <4>3
    <3>4. "block" \notin Removes(u)
      BY <1>1, <2>1, <3>3 DEF Removes, WaysOf, Ways, Kinds
    <3> QED
      BY <1>5, <3>1, <3>4 DEF Places, Things
  <2>7. ~run.reloaded => LoadedBefore'
    BY <2>1 DEF BackInv, LoadedBefore
  <2> QED
    BY <2>3, <2>4, <2>5, <2>6, <2>7
<1>6. run'.undos = rest
  BY <1>2 DEF rest
<1> QED
  BY <1>2, <1>4, <1>5, <1>6 DEF BackInv, BlockUnderTree

(* Everything put back, the project is whole under the name it had.         *)
LEMMA BackWhole ==
  ASSUME RenameTypeOK, BackInv, run.undos = <<>>, ~run.failed,
         kind # "app" => at["services"] = {},
         at' = at, kind' = kind, loaded' = IF run.reloaded THEN at["block"] ELSE loaded
  PROVE  Whole(From)'
<1>1. Range(run.undos) = {}
  BY DEF Range
<1>2. \A x \in Places : at[x] \subseteq {From, To} /\ (From \in at[x] <=> x \in Has(kind)) /\ To \notin at[x]
  BY <1>1 DEF BackInv, RenameTypeOK, Places, Names
<1>3. \A x \in Places : at[x] = IF x \in Has(kind) THEN {From} ELSE {}
  BY <1>2
<1>4. at["services"] \subseteq {From}
  BY <1>1 DEF BackInv, RenameTypeOK, Things, Names
<1>5. at["enabled"] \cap at["units"] \subseteq {From}
  BY <1>3 DEF Places, Things
<1>6. loaded' = at["block"]
  BY <1>3 DEF BackInv, LoadedBefore, Places, Things
<1> QED
  BY <1>3, <1>4, <1>5, <1>6 DEF Whole, Places

(* Every step taken, it is whole under the new one.                         *)
LEMMA OutWhole ==
  ASSUME RenameTypeOK, OutInv, run.todo = {}, kind # "app" => at["services"] = {}
  PROVE  Whole(To)
<1>1. kind = "app" \/ kind = "protected" \/ kind = "public"
  BY DEF RenameTypeOK, Kinds
<1>2. StepsDone = StepsOf(kind)
  BY DEF StepsDone
<1>3. \A x \in Places : x \in Has(kind) => Taken(x) /\ Given(x)
  <2>1. CASE kind = "app"
    <3>1. StepsDone = Range(AllSteps)
      BY <1>2, <2>1 DEF StepsOf
    <3>2. \A x \in Places : \E s \in Range(AllSteps) : x \in Takes(s)
      BY StepNames DEF Places, Things, Takes
    <3>3. \A x \in Places : \E s \in Range(AllSteps) : x \in Gives(s)
      BY StepNames DEF Places, Things, Gives
    <3> QED
      BY <3>1, <3>2, <3>3 DEF Taken, Given
  <2>2. CASE kind = "protected"
    BY <1>2, <2>2 DEF StepsOf, Places, Things, Has, Takes, Gives, Taken, Given
  <2>3. CASE kind = "public"
    BY <1>2, <2>3 DEF StepsOf, Places, Things, Has, Takes, Gives, Taken, Given
  <2> QED
    BY <1>1, <2>1, <2>2, <2>3
<1>4. \A x \in Places : x \notin Has(kind) => ~Given(x)
  BY <1>1, <1>2 DEF StepsOf, Places, Has, Gives, Given
<1>5. \A x \in Places : at[x] = IF x \in Has(kind) THEN {To} ELSE {}
  BY <1>3, <1>4 DEF OutInv
<1>6. at["services"] \subseteq {To}
  BY DEF OutInv, RenameTypeOK, Things, Names
<1>7. at["enabled"] \cap at["units"] \subseteq {To}
  BY <1>5 DEF Places, Things
<1>8. loaded = at["block"]
  BY DEF OutInv
<1> QED
  BY <1>5, <1>6, <1>7, <1>8 DEF Whole, Places

------------------------------------------------------------------------------
(* The ways a run is changed all leave it one.                              *)
LEMMA RunTyped ==
  ASSUME NEW r \in Running, NEW stage \in {"idle", "checks", "out", "back"}
  PROVE  /\ [r EXCEPT !.pc = stage] \in Running
         /\ [r EXCEPT !.pc = stage, !.failed = TRUE] \in Running
         /\ [r EXCEPT !.pc = stage, !.ok = FALSE] \in Running
         /\ [r EXCEPT !.pc = stage, !.ok = FALSE, !.mine = TRUE] \in Running
         /\ [r EXCEPT !.mine = FALSE] \in Running
  BY DEF Running

LEMMA IdleTyped ==
  /\ Idle \in Running
  /\ \A r \in Running, todo \in SUBSET Range(AllSteps) : [Idle EXCEPT !.pc = "out", !.todo = todo, !.mine = r.mine] \in Running
<1>1. <<>> \in Seq(Ways) /\ {} \in SUBSET Range(AllSteps)
  OBVIOUS
<1>2. Idle \in Running
  BY <1>1 DEF Idle, Running
<1>3. \A r \in Running : r.mine \in BOOLEAN
  BY DEF Running
<1>4. \A q \in Running, todo \in SUBSET Range(AllSteps), mine \in BOOLEAN :
        [q EXCEPT !.pc = "out", !.todo = todo, !.mine = mine] \in Running
  BY DEF Running
<1> QED
  BY <1>2, <1>3, <1>4

LEMMA UndosTyped ==
  ASSUME NEW r \in Running, NEW undos \in Seq(Ways)
  PROVE  /\ [r EXCEPT !.undos = undos] \in Running
         /\ \A failed \in BOOLEAN : [r EXCEPT !.undos = undos, !.failed = failed] \in Running
         /\ [r EXCEPT !.pc = "idle", !.undos = undos, !.ok = TRUE] \in Running
  BY DEF Running

LEMMA TodoTyped ==
  ASSUME NEW r \in Running, NEW stage \in {"idle", "checks", "out", "back"}, NEW undos \in Seq(Ways),
         NEW todo \in SUBSET Range(AllSteps), NEW reloaded \in BOOLEAN
  PROVE  /\ [r EXCEPT !.todo = todo, !.undos = undos, !.reloaded = reloaded] \in Running
         /\ [r EXCEPT !.pc = stage, !.todo = todo, !.undos = undos, !.reloaded = reloaded] \in Running
  BY DEF Running

LEMMA InitRename == RenameInit => RenameInv
<1> SUFFICES ASSUME RenameInit PROVE RenameInv
  OBVIOUS
<1>1. kind \in Kinds
  BY DoorsAssumption DEF RenameInit
<1>2. RenameTypeOK
  <2>1. run \in Running
    BY IdleTyped DEF RenameInit
  <2>2. at \in [Things -> SUBSET Names] /\ loaded \subseteq Names /\ backup \in BOOLEAN
    BY DEF RenameInit, Names, Things
  <2>3. turn \in [open : BOOLEAN, gone : SUBSET Names]
    BY DEF RenameInit, NoTurn
  <2>4. route \in {"idle", "start", "wait", "team", "people", "answer"} /\ owns \subseteq Names /\ people \subseteq Names
    BY DEF RenameInit, Names
  <2>5. faults \in 0..MaxFaults /\ stops \in 0..MaxStops
    BY BoundsAssumption DEF RenameInit
  <2>6. rebooted \in BOOLEAN /\ told \in BOOLEAN
    BY DEF RenameInit
  <2> QED
    BY <1>1, <2>1, <2>2, <2>3, <2>4, <2>5, <2>6 DEF RenameTypeOK
<1>3. Whole(From) /\ (kind # "app" => at["services"] = {})
  BY <1>1 DEF RenameInit, Whole, Has, Kinds, Things
<1>4. Shut
  BY <1>2, <1>3, WholeShut DEF Names
<1>5. run.pc = "idle"
  BY DEF RenameInit, Idle
<1> QED
  BY <1>2, <1>3, <1>4, <1>5 DEF RenameInv, RunInv

(* Each variable keeps its type; the ways back noted are always known ones. *)
LEMMA NextTyped == RenameTypeOK /\ [RenameNext]_renameVars => RenameTypeOK'
<1> SUFFICES ASSUME RenameTypeOK, [RenameNext]_renameVars PROVE RenameTypeOK'
  OBVIOUS
<1> DEFINE Pcs == {"idle", "checks", "out", "back"}
<1>0. /\ run.todo \subseteq Range(AllSteps) /\ run.undos \in Seq(Ways) /\ run.pc \in Pcs
      /\ run.failed \in BOOLEAN /\ run.reloaded \in BOOLEAN /\ run.ok \in BOOLEAN /\ run.mine \in BOOLEAN
  BY DEF RenameTypeOK, Running
<1> USE DEF RenameTypeOK
<1>1. \A lost, given : Moved(lost, given) \in [Things -> SUBSET Names] /\ Back(lost, given) \in [Things -> SUBSET Names]
  BY MovedTyped
<1>2. \A s : Notes(s) \in Seq(Ways)
  <2>1. \A w \in Ways : <<w>> \in Seq(Ways)
    OBVIOUS
  <2>2. <<>> \in Seq(Ways)
    OBVIOUS
  <2>3. \A s : Notes(s) = <<>> \/ \E w \in Ways : Notes(s) = <<w>>
    BY DEF Notes, Ways
  <2> SUFFICES ASSUME NEW s PROVE Notes(s) \in Seq(Ways)
    OBVIOUS
  <2>4. CASE Notes(s) = <<>>
    BY <2>2, <2>4
  <2>5. ASSUME NEW w \in Ways, Notes(s) = <<w>> PROVE Notes(s) \in Seq(Ways)
    BY <2>1, <2>5
  <2> QED
    BY <2>3, <2>4, <2>5
<1>3. \A q \in Seq(Ways) : q # <<>> => Tail(q) \in Seq(Ways)
  OBVIOUS
<1>4. \A p, q \in Seq(Ways) : p \o q \in Seq(Ways)
  OBVIOUS
<1>5. \A u : Undone(u) \in [Things -> SUBSET Names]
  BY <1>1 DEF Undone
<1> USE DEF machine, registries
<1>6. CASE UNCHANGED renameVars
  BY <1>6 DEF renameVars
<1>7. CASE RunGoesOn
  <2>1. CASE Checked
    <3>1. run' \in Running
      <4>1. Steps \subseteq Range(AllSteps)
        BY DEF Steps
      <4> QED
        BY <1>0, <2>1, <4>1, IdleTyped DEF Checked
    <3> QED
      BY <2>1, <3>1 DEF Checked
  <2>2. CASE CheckFails
    <3>1. run' \in Running
      BY <1>0, <2>2, RunTyped DEF CheckFails
    <3> QED
      BY <2>2, <3>1, BoundsAssumption DEF CheckFails, Fault
  <2>3. CASE TakeStep
    <3>1. PICK s \in run.todo : /\ at' = Moved(Takes(s), Gives(s))
                                /\ loaded' = IF s = "reload" THEN at["block"] ELSE loaded
                                /\ run' = [run EXCEPT !.todo = @ \ {s}, !.undos = Notes(s) \o @, !.reloaded = @ \/ s = "reload"]
      BY <2>3 DEF TakeStep
    <3>2. at' \in [Things -> SUBSET Names] /\ loaded' \subseteq Names
      BY <1>1, <3>1 DEF Things
    <3>3. run' \in Running
      <4>1. Notes(s) \o run.undos \in Seq(Ways)
        BY <1>0, <1>2, <1>4
      <4>2. run.todo \ {s} \in SUBSET Range(AllSteps) /\ (run.reloaded \/ s = "reload") \in BOOLEAN
        BY <1>0
      <4> QED
        BY <1>0, <3>1, <4>1, <4>2, TodoTyped
    <3> QED
      BY <2>3, <3>1, <3>2, <3>3 DEF TakeStep
  <2>4. CASE StepFails
    <3>1. PICK s \in run.todo :
            /\ at' = at \/ at' \in {Moved(lost, given) : lost \in SUBSET Things, given \in SUBSET Things}
            /\ loaded' \in (IF s = "reload" THEN {at["block"]} ELSE {}) \cup {loaded}
            /\ run' \in Running /\ backup' \in BOOLEAN
      <4>1. PICK s \in run.todo :
              LET undos == (IF s \in NotedBefore THEN Notes(s) ELSE <<>>) \o run.undos IN
                 /\ IF s \in {"dropIns", "account", "tree", "store"} THEN UNCHANGED at
                    ELSE IF s = "manifest" THEN at' \in {at, Moved({s}, {s})}
                    ELSE \E lost \in SUBSET Takes(s), given \in SUBSET Gives(s) : at' = Moved(lost, given)
                 /\ loaded' \in (IF s = "reload" THEN {at["block"]} ELSE {}) \cup {loaded}
                 /\ run' = [run EXCEPT !.pc = IF undos = <<>> THEN "idle" ELSE "back", !.todo = {}, !.undos = undos,
                                       !.reloaded = @ \/ s = "reload"]
                 /\ backup' = (undos # <<>>)
        BY <2>4 DEF StepFails
      <4>2. Takes(s) \subseteq Things /\ Gives(s) \subseteq Things
        BY DEF Takes, Gives, Things
      <4>3. (IF s \in NotedBefore THEN Notes(s) ELSE <<>>) \o run.undos \in Seq(Ways)
        <5>1. (IF s \in NotedBefore THEN Notes(s) ELSE <<>>) \in Seq(Ways)
          BY <1>2
        <5> QED
          BY <1>0, <1>4, <5>1
      <4>4. at' = at \/ at' \in {Moved(lost, given) : lost \in SUBSET Things, given \in SUBSET Things}
        <5>1. s = "manifest" => {s} \subseteq Things
          BY DEF Things
        <5> QED
          BY <4>1, <4>2, <5>1
      <4> DEFINE undos == (IF s \in NotedBefore THEN Notes(s) ELSE <<>>) \o run.undos
      <4>5. /\ run' = [run EXCEPT !.pc = IF undos = <<>> THEN "idle" ELSE "back", !.todo = {}, !.undos = undos,
                                  !.reloaded = @ \/ s = "reload"]
            /\ backup' = (undos # <<>>) /\ undos \in Seq(Ways)
        BY <4>1, <4>3
      <4> HIDE DEF undos
      <4>6. (IF undos = <<>> THEN "idle" ELSE "back") \in Pcs /\ (run.reloaded \/ s = "reload") \in BOOLEAN
        BY <1>0
      <4>7. {} \in SUBSET Range(AllSteps)
        OBVIOUS
      <4>8. run' \in Running
        BY <1>0, <4>5, <4>6, <4>7, TodoTyped
      <4> QED
        BY <4>1, <4>4, <4>5, <4>8
    <3>2. at' \in [Things -> SUBSET Names] /\ loaded' \subseteq Names
      BY <1>1, <3>1 DEF Things
    <3>3. faults' \in 0..MaxFaults
      BY <2>4, BoundsAssumption DEF StepFails, Fault
    <3> QED
      BY <2>4, <3>1, <3>2, <3>3 DEF StepFails
  <2>5. CASE Succeeds
    <3>1. run' \in Running
      <4>1. <<>> \in Seq(Ways)
        OBVIOUS
      <4> QED
        BY <1>0, <2>5, <4>1, UndosTyped DEF Succeeds
    <3> QED
      BY <2>5, <3>1 DEF Succeeds
  <2>6. CASE Undo
    <3>1. run' \in Running
      BY <1>0, <1>3, <2>6, UndosTyped DEF Undo
    <3>2. at' \in [Things -> SUBSET Names]
      BY <1>5, <2>6 DEF Undo
    <3> QED
      BY <2>6, <3>1, <3>2 DEF Undo
  <2>7. CASE UndoFails
    <3>1. at' = at \/ at' \in {Back(lost, given) : lost \in SUBSET Things, given \in SUBSET Things}
      <4>1. \A S : S \subseteq {"services", "enabled", "block", "units"} => S \subseteq Things
        BY DEF Things
      <4> DEFINE u == Head(run.undos)
      <4>2. at' \in CASE u = "restart"  -> {Back({}, given) : given \in SUBSET {"services", "enabled"}}
                      [] u = "blocks"   -> {at, Back({"block"}, {})}
                      [] u = "newUnits" -> {at, Back({"units"}, {}), Back({"enabled"}, {})}
                      [] OTHER          -> {at}
        BY <2>7 DEF UndoFails
      <4> HIDE DEF u
      <4>3. CASE u = "restart"
        BY <4>1, <4>2, <4>3
      <4>4. CASE u = "blocks"
        BY <4>1, <4>2, <4>4
      <4>5. CASE u = "newUnits"
        BY <4>1, <4>2, <4>5
      <4> QED
        BY <4>2, <4>3, <4>4, <4>5
    <3>2. at' \in [Things -> SUBSET Names]
      BY <1>1, <3>1
    <3>3. faults' \in 0..MaxFaults
      BY <2>7, BoundsAssumption DEF UndoFails, Fault
    <3>4. run' \in Running
      <4> DEFINE failed == run.failed \/ Head(run.undos) # "restart"
      <4>1. run' = [run EXCEPT !.undos = Tail(@), !.failed = failed] /\ failed \in BOOLEAN
        BY <2>7 DEF UndoFails
      <4>2. Tail(run.undos) \in Seq(Ways)
        BY <1>0, <1>3, <2>7 DEF UndoFails
      <4> HIDE DEF failed
      <4> QED
        BY <4>1, <4>2, UndosTyped
    <3> QED
      BY <2>7, <3>2, <3>3, <3>4 DEF UndoFails
  <2>8. CASE ReloadRestored
    <3>1. run' \in Running
      BY <2>8, RunTyped DEF ReloadRestored
    <3> QED
      BY <1>0, <2>8, <3>1 DEF ReloadRestored, Things
  <2>9. CASE ReloadFails
    <3>1. run' \in Running
      BY <2>9, RunTyped DEF ReloadFails
    <3> QED
      BY <2>9, <3>1, BoundsAssumption DEF ReloadFails, Fault
  <2> QED
    BY <1>7, <2>1, <2>2, <2>3, <2>4, <2>5, <2>6, <2>7, <2>8, <2>9 DEF RunGoesOn
<1>8. CASE RunKilled \/ Ask \/ StewardStops
  <2>1. CASE RunKilled
    <3>1. run' \in Running
      BY <2>1, RunTyped DEF RunKilled
    <3> QED
      BY <2>1, <3>1, BoundsAssumption DEF RunKilled, Stop
  <2>2. CASE Ask
    BY <2>2 DEF Ask
  <2>3. CASE StewardStops
    BY <2>3, BoundsAssumption DEF StewardStops, Stop, NoTurn
  <2> QED
    BY <1>8, <2>1, <2>2, <2>3
<1>9. CASE Steward
  <2>1. CASE StartRun \/ RunJudged
    <3>1. run' \in Running
      BY <2>1, RunTyped DEF StartRun, RunJudged
    <3> QED
      BY <2>1, <3>1 DEF StartRun, RunJudged
  <2>2. CASE TeamFollows \/ PeopleFollow \/ Answer \/ SettlementWrites
    <3>1. CASE TeamFollows
      BY <2>2, <3>1, BoundsAssumption DEF TeamFollows, Renamed, Names, Fault
    <3>2. CASE PeopleFollow
      BY <2>2, <3>2, BoundsAssumption DEF PeopleFollow, Names, Fault
    <3>3. CASE SettlementWrites
      BY <2>2, <3>3 DEF SettlementWrites, NoTurn
    <3>4. CASE Answer
      BY <2>2, <3>4 DEF Answer
    <3> QED
      BY <2>2, <3>1, <3>2, <3>3, <3>4
  <2> QED
    BY <1>9, <2>1, <2>2 DEF Steward
<1>10. CASE SettlementReads
  BY <1>10 DEF SettlementReads
<1>11. CASE Reboot
  <2>1. at' \in [Things -> SUBSET Names] /\ loaded' \subseteq Names
    BY <1>11 DEF Reboot, Things
  <2> QED
    <3>1. run' \in Running
      BY <1>11, RunTyped DEF Reboot
    <3>2. rebooted' \in BOOLEAN
      BY <1>11 DEF Reboot
    <3>3. stops' \in 0..MaxStops
      BY <1>11, BoundsAssumption DEF Reboot, Stop
    <3> QED
      BY <1>11, <2>1, <3>1, <3>2, <3>3 DEF Reboot, NoTurn
<1> QED
  BY <1>6, <1>7, <1>8, <1>9, <1>10, <1>11 DEF RenameNext

LEMMA CheckedOut ==
  ASSUME RenameTypeOK, RunInv, Checked
  PROVE  OutInv'
<1>1. kind \in Kinds /\ kind' = kind /\ at' = at /\ loaded' = loaded /\ backup'
  BY DEF Checked, RenameTypeOK, machine
<1>2. /\ run'.todo = Steps /\ run'.undos = <<>> /\ ~run'.failed /\ ~run'.reloaded
  BY DEF Checked, Idle
<1>3. Whole(From)
  <2>1. From \in at["tree"] /\ ~backup
    BY DEF Checked, Refused
  <2>2. ~Whole(To)
    BY <1>1, <2>1, NamesAssumption DEF Whole, Things, Has, Kinds
  <2> QED
    BY <2>1, <2>2 DEF RunInv, Checked
<1>4. \A x \in Places : From \in at[x] <=> x \in Has(kind)
  BY <1>3 DEF Whole, Places
<1>5. Steps = StepsOf(kind)
  <2>1. \A s \in Range(AllSteps) : Applies(s) <=> s \in StepsOf(kind)
    <3>1. CASE kind = "app"
      BY <1>4, <3>1, StepNames DEF Applies, StepsOf, Has, Things, Places
    <3>2. CASE kind = "protected"
      BY <1>4, <3>2, StepNames DEF Applies, StepsOf, Has, Things, Places
    <3>3. CASE kind = "public"
      BY <1>4, <3>3, StepNames DEF Applies, StepsOf, Has, Things, Places
    <3> QED
      BY <1>1, <3>1, <3>2, <3>3 DEF Kinds
  <2> QED
    BY <1>1, <2>1, StepsAre DEF Steps
<1>6. StepsDone' = {}
  BY <1>1, <1>2, <1>5 DEF StepsDone
<1>7. \A x \in Places : at'[x] = (IF x \in Has(kind') /\ ~Taken(x)' THEN {From} ELSE {}) \cup (IF Given(x)' THEN {To} ELSE {})
  <2>1. \A x : ~Taken(x)' /\ ~Given(x)'
    BY <1>6 DEF Taken, Given
  <2>2. \A x \in Places : at[x] = IF x \in Has(kind) THEN {From} ELSE {}
    BY <1>3 DEF Whole, Places
  <2> QED
    BY <1>1, <2>1, <2>2
<1>8. /\ From \in at'["services"] => "stop" \in run'.todo
      /\ To \in at'["services"] => "start" \in StepsDone'
  <2>1. To \notin at["services"]
    BY <1>3, NamesAssumption DEF Whole
  <2>2. kind = "app" => "stop" \in StepsOf(kind)
    BY StepNames DEF StepsOf
  <2> QED
    BY <1>1, <1>2, <1>5, <2>1, <2>2 DEF RunInv
<1>9. Ordered'
  BY <1>1, <1>2, <1>5 DEF Ordered
<1>10. LoadedBefore'
  BY <1>1, <1>3 DEF LoadedBefore, Whole, Places, Things
<1>11. "reload" \in run'.todo
  BY <1>1, <1>2, <1>5, StepsAre
<1>12. Range(run'.undos) = {} /\ BlockUnderTree'
  BY <1>2 DEF Range, BlockUnderTree
<1> QED
  BY <1>1, <1>2, <1>5, <1>6, <1>7, <1>8, <1>9, <1>10, <1>11, <1>12 DEF OutInv

\* Services of an app alone run, whatever is moved or put back of them.
LEMMA NoServices ==
  ASSUME RenameTypeOK, kind # "app", at["services"] = {}, NEW s \in StepsOf(kind),
         NEW lost, NEW given, given \subseteq Gives(s)
  PROVE  Moved(lost, given)["services"] = {}
<1>1. "services" \notin given
  BY StepsAre, StepNames DEF Gives, RenameTypeOK
<1> QED
  BY <1>1 DEF Moved, Things

LEMMA StepFailsInv == ASSUME RenameTypeOK, RenameTypeOK', RunInv, StepFails PROVE RunInv'
<1>1. OutInv /\ kind' = kind /\ kind \in Kinds /\ run.pc = "out" /\ at \in [Things -> SUBSET Names]
  BY DEF StepFails, RunInv, RenameTypeOK
<1>2. PICK s \in run.todo :
         LET undos == (IF s \in NotedBefore THEN Notes(s) ELSE <<>>) \o run.undos IN
           /\ NextStep(s)
           /\ IF s \in {"dropIns", "account", "tree", "store"} THEN UNCHANGED at
              ELSE IF s = "manifest" THEN at' \in {at, Moved({s}, {s})}
              ELSE \E lost \in SUBSET Takes(s), given \in SUBSET Gives(s) : at' = Moved(lost, given)
           /\ loaded' \in (IF s = "reload" THEN {at["block"]} ELSE {}) \cup {loaded}
           /\ run' = [run EXCEPT !.pc = IF undos = <<>> THEN "idle" ELSE "back", !.todo = {}, !.undos = undos,
                                 !.reloaded = @ \/ s = "reload"]
           /\ backup' = (undos # <<>>)
  BY DEF StepFails
<1>3. s \in StepsOf(kind) /\ s \in Range(AllSteps)
  BY <1>1, StepsAre DEF OutInv
<1>4. Moved({}, {}) = at
  BY <1>1 DEF Moved
<1>5. PICK lost \in SUBSET Takes(s), given \in SUBSET Gives(s) :
         at' = Moved(lost, given) /\ (s \in {"dropIns", "account", "tree", "store"} => lost = {} /\ given = {})
  <2>1. s = "manifest" => Takes(s) = {s} /\ Gives(s) = {s}
    BY DEF Takes, Gives
  <2> QED
    BY <1>2, <1>4, <2>1
<1>6. kind # "app" => at'["services"] = {}
  BY <1>1, <1>3, <1>5, NoServices DEF RunInv
<1> DEFINE undos == (IF s \in NotedBefore THEN Notes(s) ELSE <<>>) \o run.undos
<1>7. CASE undos = <<>>
  <2>1. s \in {"dropIns", "account", "tree", "store"} /\ Whole(From)
    BY <1>1, <1>2, <1>7, NothingNoted
  <2>2. at' = at /\ loaded' = loaded
    BY <1>2, <2>1
  <2>3. Whole(From)'
    BY <1>1, <2>1, <2>2 DEF Whole
  <2>4. run'.pc = "idle"
    BY <1>2, <1>7 DEF RenameTypeOK, Running
  <2>5. Shut'
    <3>1. Shut
      BY <2>1, WholeShut DEF Names
    <3> QED
      BY <1>1, <2>2, <3>1 DEF Shut, Open
  <2> QED
    BY <1>1, <1>6, <2>3, <2>4, <2>5 DEF RunInv
<1>8. CASE undos # <<>>
  <2>1. /\ run' = [run EXCEPT !.pc = "back", !.todo = {}, !.undos = undos, !.reloaded = @ \/ s = "reload"]
        /\ backup' /\ loaded' \in (IF s = "reload" THEN {at["block"]} ELSE {}) \cup {loaded} /\ NextStep(s)
    BY <1>2, <1>8
  <2>2. run'.pc = "back"
    BY <2>1 DEF RenameTypeOK, Running
  <2> HIDE DEF undos
  <2>3. undos = (IF s \in NotedBefore THEN Notes(s) ELSE <<>>) \o run.undos
    BY DEF undos
  <2>4. BackInv'
    BY <1>1, <1>5, <1>8, <2>1, <2>3, StepFailsBack
  <2>5. (Shut \/ run.reloaded \/ run.failed)'
    BY <2>4, BackShut, PTL
  <2> QED
    BY <1>1, <1>6, <2>2, <2>4, <2>5 DEF RunInv
<1> QED
  BY <1>7, <1>8

LEMMA UndoInv == ASSUME RenameTypeOK, RunInv, Undo PROVE RunInv'
<1>1. BackInv /\ kind' = kind /\ kind \in Kinds /\ run.pc = "back" /\ at \in [Things -> SUBSET Names] /\ run \in Running
  BY DEF Undo, RunInv, RenameTypeOK
<1> DEFINE u == Head(run.undos)
<1>2. run.undos # <<>> /\ (u = "account" => To \notin at["services"]) /\ at' = Undone(u) /\ run' = [run EXCEPT !.undos = Tail(@)]
  BY DEF Undo
<1>3. u \in WaysOf(kind) /\ u \in Ways \ {"newBlock"}
  <2>1. run.undos \in Seq(Ways)
    BY <1>1 DEF Running
  <2>2. u \in Range(run.undos)
    BY <1>2, <2>1, TopOff
  <2> QED
    BY <1>1, <2>2, WaysTyped DEF BackInv
<1> HIDE DEF u
<1>4. /\ run'.pc = "back" /\ run' = [run EXCEPT !.undos = Tail(@), !.failed = run.failed]
      /\ UNCHANGED <<kind, loaded, backup>>
  BY <1>1, <1>2 DEF Running, Undo
<1>5. BackInv'
  <2>1. /\ \A x \in Places : /\ From \in at'[x] <=> From \in at[x] \/ x \in Restores(u)
                             /\ To \in at'[x] <=> To \in at[x] /\ x \notin Removes(u)
        /\ To \in at'["services"] => To \in at["services"] /\ u # "account"
    BY <1>1, <1>2, <1>3, UndoneDoes
  <2>2. run.failed \in BOOLEAN
    BY <1>1 DEF Running
  <2> QED
    BY <1>1, <1>2, <1>4, <2>1, <2>2, UnwoundBack DEF u
<1>6. kind # "app" => at'["services"] = {}
  <2> SUFFICES ASSUME kind # "app" PROVE at'["services"] = {}
    OBVIOUS
  <2>1. u # "restart"
    BY <1>1, <1>3 DEF WaysOf, Kinds
  <2>2. at["services"] = {}
    BY DEF RunInv
  <2> QED
    BY <1>1, <1>2, <1>3, <2>1, <2>2, UndoneDoes
<1>7. RenameTypeOK'
  BY NextTyped DEF RenameNext, RunGoesOn
<1>8. (Shut \/ run.reloaded \/ run.failed)'
  BY <1>5, <1>7, BackShut, PTL
<1> QED
  BY <1>1, <1>4, <1>5, <1>6, <1>8 DEF RunInv

LEMMA UndoFailsInv == ASSUME RenameTypeOK, RunInv, UndoFails PROVE RunInv'
<1>1. BackInv /\ kind' = kind /\ kind \in Kinds /\ run.pc = "back" /\ at \in [Things -> SUBSET Names] /\ run \in Running
  BY DEF UndoFails, RunInv, RenameTypeOK
<1> DEFINE u == Head(run.undos)
           failed == run.failed \/ u # "restart"
<1>2. /\ run.undos # <<>> /\ run' = [run EXCEPT !.undos = Tail(@), !.failed = failed]
      /\ at' \in CASE u = "restart"  -> {Back({}, given) : given \in SUBSET {"services", "enabled"}}
                   [] u = "blocks"   -> {at, Back({"block"}, {})}
                   [] u = "newUnits" -> {at, Back({"units"}, {}), Back({"enabled"}, {})}
                   [] OTHER          -> {at}
  BY DEF UndoFails
<1>3. u \in WaysOf(kind)
  <2>1. run.undos \in Seq(Ways)
    BY <1>1 DEF Running
  <2>2. u \in Range(run.undos)
    BY <1>2, <2>1, TopOff
  <2> QED
    BY <1>1, <2>2 DEF BackInv
<1>4. failed \in BOOLEAN /\ (run.failed => failed) /\ (~failed => u = "restart")
  BY <1>1 DEF Running
<1> HIDE DEF u, failed
<1>5. run'.pc = "back" /\ UNCHANGED <<kind, loaded, backup>>
  BY <1>1, <1>2 DEF Running, UndoFails
<1>6. u = "restart" => \E given \in SUBSET {"services", "enabled"} : at' = Back({}, given)
  BY <1>2
<1>7. BackInv'
  <2>1. ASSUME u = "restart"
        PROVE  /\ \A x \in Places : /\ From \in at'[x] <=> From \in at[x] \/ x \in Restores(u)
                                    /\ To \in at'[x] <=> To \in at[x] /\ x \notin Removes(u)
               /\ To \in at'["services"] => To \in at["services"] /\ u # "account"
    BY <1>1, <1>6, <2>1, MovedTyped DEF Restores, Removes, Places, Things
  <2> QED
    BY <1>1, <1>2, <1>4, <1>5, <2>1, UnwoundBack DEF u
<1>8. kind # "app" => at'["services"] = {}
  <2> SUFFICES ASSUME kind # "app" PROVE at'["services"] = {}
    OBVIOUS
  <2>1. u # "restart" /\ at["services"] = {}
    BY <1>1, <1>3 DEF WaysOf, Kinds, RunInv
  <2>2. at' = at \/ at' = Back({"block"}, {}) \/ at' = Back({"units"}, {}) \/ at' = Back({"enabled"}, {})
    BY <1>2, <2>1
  <2> QED
    BY <2>1, <2>2 DEF Back, Things
<1>9. RenameTypeOK'
  BY NextTyped DEF RenameNext, RunGoesOn
<1>10. (Shut \/ run.reloaded \/ run.failed)'
  BY <1>7, <1>9, BackShut, PTL
<1> QED
  BY <1>1, <1>5, <1>7, <1>8, <1>10 DEF RunInv

(* A restart of the machine that finds no run and no backup loses nothing.  *)
LEMMA RebootInv == ASSUME RenameTypeOK, RunInv, Reboot, ~rebooted' PROVE RunInv'
<1>1. kind' = kind /\ kind \in Kinds /\ run.pc \in {"idle", "checks"} /\ ~backup
  BY DEF Reboot, RenameTypeOK, Running
<1>2. PICK n \in Names : Whole(n)
  BY <1>1 DEF RunInv, Names
<1>3. /\ at' = [at EXCEPT !["services"] = at["enabled"] \cap at["units"] \cap at["account"] \cap at["tree"]]
      /\ loaded' = at["block"] /\ at \in [Things -> SUBSET Names]
  BY DEF Reboot, RenameTypeOK
<1>4. at'["services"] = at["enabled"] \cap at["units"] \cap at["account"] \cap at["tree"]
      /\ \A x \in Things \ {"services"} : at'[x] = at[x]
  BY <1>3 DEF Things
<1>5. Whole(n)'
  BY <1>1, <1>2, <1>3, <1>4 DEF Whole, Things
<1>6. kind # "app" => at'["services"] = {}
  BY <1>1, <1>2, <1>4 DEF Whole, Things, Has, Kinds
<1>7. Shut'
  <2>1. RenameTypeOK'
    BY NextTyped DEF RenameNext
  <2>2. (\A m \in Names : Whole(m) => Shut)'
    BY <2>1, WholeShut, PTL
  <2>3. Names' = Names
    BY DEF Names
  <2> QED
    BY <1>5, <2>2, <2>3
<1>8. run'.pc = "idle"
  BY DEF Reboot, RenameTypeOK, Running
<1> QED
  BY <1>1, <1>2, <1>5, <1>6, <1>7, <1>8 DEF RunInv, Names

(* The run's own steps that are left, and its being killed.                 *)
LEMMA ForwardInv == ASSUME RenameTypeOK, RunInv, Checked \/ TakeStep \/ Succeeds PROVE RunInv'
<1>1. RenameTypeOK'
  BY NextTyped DEF RenameNext, RunGoesOn
<1>2. kind' = kind /\ kind \in Kinds /\ run \in Running /\ at \in [Things -> SUBSET Names]
  BY DEF Checked, TakeStep, Succeeds, RenameTypeOK, machine
<1>3. CASE Checked
  <2>1. OutInv' /\ run'.pc = "out" /\ at' = at
    BY <1>3, CheckedOut DEF Checked, Idle
  <2>2. (Shut \/ run.reloaded)'
    BY <1>1, <2>1, OutShut, PTL
  <2> QED
    BY <1>2, <2>1, <2>2 DEF RunInv
<1>4. CASE TakeStep
  <2>1. OutInv
    BY <1>4 DEF TakeStep, RunInv
  <2>2. PICK s \in run.todo :
          /\ NextStep(s) /\ at' = Moved(Takes(s), Gives(s))
          /\ loaded' = IF s = "reload" THEN at["block"] ELSE loaded
          /\ run' = [run EXCEPT !.todo = @ \ {s}, !.undos = Notes(s) \o @, !.reloaded = @ \/ s = "reload"]
          /\ UNCHANGED <<kind, backup>>
    BY <1>4 DEF TakeStep
  <2>3. OutInv'
    BY <2>1, <2>2, TakeStepOut
  <2>4. run'.pc = "out"
    BY <1>2, <1>4, <2>2 DEF TakeStep, Running
  <2>5. kind # "app" => at'["services"] = {}
    <3>1. s \in StepsOf(kind)
      BY <2>1 DEF OutInv
    <3> QED
      BY <2>2, <3>1, NoServices DEF RunInv
  <2>6. (Shut \/ run.reloaded)'
    BY <1>1, <2>3, OutShut, PTL
  <2> QED
    BY <1>2, <2>3, <2>4, <2>5, <2>6 DEF RunInv
<1>5. CASE Succeeds
  <2>1. Whole(To) /\ at' = at /\ loaded' = loaded
    BY <1>5, OutWhole DEF Succeeds, RunInv
  <2>2. run'.pc = "idle"
    BY <1>2, <1>5 DEF Succeeds, Running
  <2>3. Shut
    BY <2>1, WholeShut DEF Names
  <2> QED
    BY <1>2, <2>1, <2>2, <2>3 DEF RunInv, Whole, Shut, Open
<1> QED
  BY <1>3, <1>4, <1>5

LEMMA EndInv == ASSUME RenameTypeOK, RunInv, CheckFails \/ ReloadRestored \/ ReloadFails \/ RunKilled PROVE RunInv'
<1>1. run \in Running /\ kind' = kind /\ at' = at
  BY DEF CheckFails, ReloadRestored, ReloadFails, RunKilled, RenameTypeOK, machine
<1>2. CASE CheckFails \/ RunKilled \/ ReloadFails
  <2>1. /\ run'.pc = "idle" /\ run'.reloaded = run.reloaded /\ (run.failed => run'.failed)
        /\ loaded' = loaded /\ backup' = backup
    BY <1>1, <1>2 DEF CheckFails, ReloadFails, RunKilled, Running, machine
  <2>2. Whole(From) \/ Whole(To) \/ backup
    <3>1. run.pc \in {"idle", "checks", "out", "back"}
      BY <1>1 DEF Running
    <3> QED
      BY <3>1 DEF RunInv, OutInv, BackInv
  <2> QED
    BY <1>1, <2>1, <2>2 DEF RunInv, Whole, Shut, Open
<1>3. CASE ReloadRestored
  <2>1. /\ run'.pc = "idle" /\ run'.reloaded = run.reloaded /\ run'.failed = run.failed
        /\ backup' = run.failed /\ BackInv /\ run.undos = <<>>
        /\ loaded' = IF run.reloaded THEN at["block"] ELSE loaded
    BY <1>1, <1>3 DEF ReloadRestored, Running, RunInv
  <2>2. CASE run.failed
    BY <1>1, <2>1, <2>2 DEF RunInv
  <2>3. CASE ~run.failed
    <3>1. Whole(From)'
      BY <1>1, <2>1, <2>3, BackWhole DEF RunInv
    <3>2. RenameTypeOK'
      BY <1>3, NextTyped DEF RenameNext, RunGoesOn
    <3>3. (\A m \in Names : Whole(m) => Shut)'
      BY <3>2, WholeShut, PTL
    <3>4. Shut'
      BY <3>1, <3>3 DEF Names
    <3> QED
      BY <1>1, <2>1, <3>1, <3>4 DEF RunInv
  <2> QED
    BY <2>2, <2>3
<1> QED
  BY <1>2, <1>3

LEMMA StewardInv ==
  ASSUME RenameTypeOK, RunInv, Ask \/ Steward \/ SettlementReads \/ StewardStops PROVE RunInv'
<1>1. UNCHANGED machine /\ (run' = run \/ StartRun)
  BY DEF Ask, Steward, SettlementReads, StewardStops, StartRun, RunJudged, TeamFollows, PeopleFollow, Answer, SettlementWrites
<1>2. run \in Running
  BY DEF RenameTypeOK
<1>3. CASE run' = run
  BY <1>1, <1>3 DEF RunInv, OutInv, BackInv, machine, Whole, Shut, Open, Ordered, Taken, Given, StepsDone, LoadedBefore, BlockUnderTree
<1>4. CASE StartRun
  <2>1. CASE run.pc = "idle"
    <3>1. run'.pc = "checks" /\ run'.reloaded = run.reloaded /\ run'.failed = run.failed
      BY <1>2, <1>4, <2>1 DEF StartRun, Running
    <3> QED
      BY <1>1, <2>1, <3>1 DEF RunInv, machine, Whole, Shut, Open
  <2>2. CASE run.pc # "idle"
    <3>1. /\ run'.pc = run.pc /\ run'.reloaded = run.reloaded /\ run'.failed = run.failed
          /\ run'.todo = run.todo /\ run'.undos = run.undos
      BY <1>2, <1>4, <2>2 DEF StartRun, Running
    <3> QED
      BY <1>1, <3>1 DEF RunInv, OutInv, BackInv, machine, Whole, Shut, Open, Ordered, Taken, Given, StepsDone, LoadedBefore, BlockUnderTree
  <2> QED
    BY <2>1, <2>2
<1> QED
  BY <1>1, <1>3, <1>4

LEMMA NextRename == RenameInv /\ [RenameNext]_renameVars => RenameInv'
<1> SUFFICES ASSUME RenameInv, [RenameNext]_renameVars PROVE RenameInv'
  OBVIOUS
<1>1. RenameTypeOK /\ RenameTypeOK'
  BY NextTyped DEF RenameInv
<1> SUFFICES ASSUME ~rebooted' PROVE RunInv'
  BY <1>1 DEF RenameInv
<1>2. rebooted => rebooted'
  BY DEF RenameNext, RunGoesOn, Checked, CheckFails, TakeStep, StepFails, Succeeds, Undo, UndoFails, ReloadRestored,
     ReloadFails, RunKilled, Ask, Steward, StartRun, RunJudged, TeamFollows, PeopleFollow, Answer, SettlementWrites,
     SettlementReads, StewardStops, Reboot, renameVars
<1>3. RunInv
  BY <1>2 DEF RenameInv
<1>4. CASE UNCHANGED renameVars
  BY <1>3, <1>4 DEF renameVars, machine, RunInv, OutInv, BackInv, Whole, Shut, Open, Ordered, Taken, Given, StepsDone, LoadedBefore, BlockUnderTree
<1>5. CASE RenameNext
  BY <1>1, <1>3, <1>5, StepFailsInv, UndoInv, UndoFailsInv, RebootInv, ForwardInv, EndInv, StewardInv DEF RenameNext, RunGoesOn
<1> QED
  BY <1>4, <1>5

(* Every variable of a rename keeps its type: in particular the ways back
   noted are always those of steps of a run. *)
THEOREM RenameTypes == RenameSpec => []RenameTypeOK
  BY InitRename, NextRename, PTL DEF RenameSpec, RenameInv

(* However many steps and ways back fail, and wherever the run, the steward or
   the machine stops: a run that ends leaves the project whole under one name,
   or the backup that makes every later change refuse until the owner has
   looked (rename.ts:41-44). *)
THEOREM RenameSettles == RenameSpec => []SettledOrMarked
<1>1. RenameInv => SettledOrMarked
  BY DEF RenameInv, RunInv, SettledOrMarked
<1> QED
  BY <1>1, InitRename, NextRename, PTL DEF RenameSpec

(* A project not open to everyone is served by the wildcard under neither of
   its names, on the way there nor on the way back, as long as Caddy has not
   been reloaded and no step of the way back has failed (rename.ts:359-362). *)
THEOREM RenameShut == RenameSpec => []ClosedOnTheWay
<1>1. RenameInv => ClosedOnTheWay
  BY DEF RenameInv, RunInv, Shut, ClosedOnTheWay
<1> QED
  BY <1>1, InitRename, NextRename, PTL DEF RenameSpec
=============================================================================
