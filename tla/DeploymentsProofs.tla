------------------------- MODULE DeploymentsProofs -------------------------
(***************************************************************************)
(* What holds of the control API's deployments for every number of         *)
(* tokens, projects, requests, deployments and restarts.                   *)
(***************************************************************************)
EXTENDS Deployments, TLAPS, FiniteSetTheorems

USE NumbersAssumption, FiniteAssumption, KindsAssumption
-----------------------------------------------------------------------------
(* The values the steps write are of their types.                          *)

LEMMA IdleTyped ==
    /\ NoArchive \in Folders
    /\ NoUploading \in Uploads
    /\ NoReading \in Readings
    /\ NoTick \in Rounds
BY DEF NoArchive, NoUploading, NoReading, NoTick, Folders, Uploads, Readings,
       Rounds, Found, Answers

LEMMA RoundTyped ==
    ASSUME NEW left \in SUBSET Dep, NEW overdue \in SUBSET Dep,
           NEW asked \in Dep \cup {NoDep}, NEW answer \in Found
    PROVE  Round(left, overdue, asked, answer) \in Rounds
BY DEF Round, Rounds

LEMMA RoundFields ==
    ASSUME TypeOK
    PROVE  /\ tick.left \in SUBSET Dep
           /\ tick.overdue \in SUBSET Dep
           /\ tick.asked \in Dep \cup {NoDep}
           /\ tick.answer \in Found
BY DEF TypeOK, Rounds

LEMMA ConcludeTyped ==
    ASSUME TypeOK, NEW d \in Dep, NEW how \in {"succeeded", "failed"},
           Conclude(d, how)
    PROVE  /\ state' \in [Dep -> States]
           /\ told' \in [Dep -> Seq({"succeeded", "failed"})]
           /\ archive' \in [Dep -> Folders]
<1>1. CASE state[d] \in Active
    <2>1. Append(told[d], how) \in Seq({"succeeded", "failed"})
        BY DEF TypeOK
    <2>2. state' \in [Dep -> States]
        BY <1>1 DEF TypeOK, Conclude, Final, States
    <2>3. told' \in [Dep -> Seq({"succeeded", "failed"})]
        BY <1>1, <2>1 DEF TypeOK, Conclude
    <2>4. archive' \in [Dep -> Folders]
        BY <1>1, IdleTyped DEF TypeOK, Conclude
    <2> QED
        BY <2>2, <2>3, <2>4
<1>2. CASE state[d] \notin Active
    BY <1>2 DEF TypeOK, Conclude
<1> QED
    BY <1>1, <1>2

LEMMA JudgedTyped ==
    ASSUME TypeOK, NEW d \in Dep
    PROVE  Heard(d) \in Found /\ Judged(d) \in Found
BY DEF TypeOK, Heard, Judged, Found, Answers

LEMMA VerdictTyped ==
    ASSUME NEW answer \in Found, NEW overdue
    PROVE  Verdict(answer, overdue) \in {"succeeded", "failed", "none"}
BY DEF Verdict, Found, Answers, Final

LEMMA GoneTyped ==
    ASSUME TypeOK, NEW gone
    PROVE  /\ Emptied(gone) \in [Dep -> Folders]
           /\ Expired(gone) \in [Dep -> States]
BY IdleTyped DEF TypeOK, Emptied, Expired, States, Final

LEMMA CompletedTyped ==
    ASSUME TypeOK, NEW u \in Upload, NEW d
    PROVE  Completed(u, d) \in [Dep -> Folders]
BY DEF TypeOK, Completed, Folders

LEMMA InitTyped == Init => TypeOK
BY IdleTyped DEF Init, TypeOK, States, Answers

-----------------------------------------------------------------------------
(* Every request keeps the types.                                          *)

LEMMA CreateTyped ==
    ASSUME TypeOK, NEW d \in Dep, CreateDeployment(d)
    PROVE  TypeOK'
<1> DEFINE gone == InTheWay(d) \cup Surplus(d)
<1>1. Emptied(gone) \in [Dep -> Folders] /\ Expired(gone) \in [Dep -> States]
    BY GoneTyped
<1>2. /\ archive' = Emptied(gone)
      /\ \/ state' = [Expired(gone) EXCEPT ![d] = "awaiting"]
         \/ state' = Expired(gone)
      /\ \/ born' = [born EXCEPT ![d] = 1 + Cardinality(Dep \ InState("none"))]
         \/ born' = born
    BY DEF CreateDeployment
<1>3. UNCHANGED <<late, told, up, reader, tick, call, unit, result, progress, kills>>
    BY DEF CreateDeployment, handlers, machine
<1> HIDE DEF gone
<1>4. state' \in [Dep -> States]
    BY <1>1, <1>2 DEF States, Active
<1>5. Cardinality(Dep \ InState("none")) \in Nat
    BY FS_CardinalityType, FS_Difference
<1>6. born' \in [Dep -> Nat]
    BY <1>2, <1>5 DEF TypeOK
<1> QED
    BY <1>1, <1>2, <1>3, <1>4, <1>6 DEF TypeOK

LEMMA UploadTyped ==
    ASSUME TypeOK, NEW u \in Upload, NEW d \in Dep,
           UploadBegins(u, d) \/ UploadFails(u) \/ UploadReceived(u)
               \/ UploadAccepted(u)
    PROVE  TypeOK'
<1>1. ASSUME UploadBegins(u, d) PROVE TypeOK'
    <2>1. [by |-> u, whole |-> FALSE] \in Folders
          /\ [at |-> "receiving", of |-> d] \in Uploads
        BY DEF Folders, Uploads
    <2>2. Emptied({d}) \in [Dep -> Folders]
        BY GoneTyped
    <2>4. archive' \in [Dep -> Folders]
        <3>1. CASE archive' = Emptied({d})
            BY <3>1, <2>2
        <3>2. CASE archive' = [archive EXCEPT ![d] = [by |-> u, whole |-> FALSE]]
            BY <3>2, <2>1 DEF TypeOK
        <3> QED
            BY <1>1, <3>1, <3>2 DEF UploadBegins
    <2>5. up' \in [Upload -> Uploads]
        <3>1. CASE up' = up
            BY <3>1 DEF TypeOK
        <3>2. CASE up' = [up EXCEPT ![u] = [at |-> "receiving", of |-> d]]
            BY <3>2, <2>1 DEF TypeOK
        <3> QED
            BY <1>1, <3>1, <3>2 DEF UploadBegins
    <2>3. state' \in [Dep -> States]
        BY <1>1, GoneTyped DEF TypeOK, UploadBegins
    <2> QED
        BY <1>1, <2>3, <2>4, <2>5 DEF TypeOK, UploadBegins, machine
<1>2. ASSUME UploadFails(u) PROVE TypeOK'
    BY <1>2, IdleTyped, GoneTyped DEF TypeOK, UploadFails, table, machine
<1>3. ASSUME UploadReceived(u) PROVE TypeOK'
    <2> DEFINE e == up[u].of
    <2>1. e \in Dep \cup {NoDep}
        BY DEF TypeOK, Uploads
    <2>2. [at |-> "deploying", of |-> e] \in Uploads
        BY <2>1 DEF Uploads
    <2>3. archive' \in [Dep -> Folders]
        BY <1>3, GoneTyped, CompletedTyped DEF UploadReceived
    <2>4. up' \in [Upload -> Uploads]
        BY <1>3, <2>2, IdleTyped DEF TypeOK, UploadReceived
    <2>5. /\ state' \in [Dep -> States]
          /\ late' \in [Dep -> BOOLEAN]
          /\ call' \in [Dep -> {"none", "sent", "accepted", "refused"}]
        BY <1>3, <2>1 DEF TypeOK, UploadReceived, States, Active
    <2> QED
        BY <1>3, <2>3, <2>4, <2>5 DEF TypeOK, UploadReceived, machine
<1>4. ASSUME UploadAccepted(u) PROVE TypeOK'
    BY <1>4, IdleTyped DEF TypeOK, UploadAccepted, table, machine
<1> QED
    BY <1>1, <1>2, <1>3, <1>4

LEMMA RefusedTyped ==
    ASSUME TypeOK, NEW u \in Upload, UploadRefused(u), up[u].of \in Dep
    PROVE  TypeOK'
<1>1. /\ state' \in [Dep -> States]
      /\ told' \in [Dep -> Seq({"succeeded", "failed"})]
      /\ archive' \in [Dep -> Folders]
    BY ConcludeTyped DEF UploadRefused
<1>2. up' \in [Upload -> Uploads]
    BY IdleTyped DEF TypeOK, UploadRefused
<1> QED
    BY <1>1, <1>2 DEF TypeOK, UploadRefused, machine

LEMMA ReadTyped ==
    ASSUME TypeOK, NEW r \in Reader, NEW d \in Dep,
           ReadAsks(r, d) \/ (reader[r].of = d /\ (ReadJudges(r) \/ ReadApplies(r)))
    PROVE  TypeOK'
<1>0. ASSUME reader[r].of = d, ReadJudges(r) PROVE TypeOK'
    <2>1. [of |-> d, answer |-> Judged(d)] \in Readings
        BY JudgedTyped DEF Readings
    <2>3. reader' = [reader EXCEPT ![r] = [of |-> d, answer |-> Judged(d)]]
        BY <1>0 DEF ReadJudges
    <2>4. reader' \in [Reader -> Readings]
        BY <2>1, <2>3 DEF TypeOK
    <2> QED
        BY <1>0, <2>4 DEF TypeOK, ReadJudges, table, machine
<1>1. ASSUME ReadAsks(r, d) PROVE TypeOK'
    <2>1. [of |-> d, answer |-> Heard(d)] \in Readings
        BY JudgedTyped DEF Readings
    <2>2. reader' \in [Reader -> Readings]
        BY <1>1, <2>1 DEF TypeOK, ReadAsks
    <2> QED
        BY <1>1, <2>2 DEF TypeOK, ReadAsks, table, machine
<1>2. ASSUME ReadApplies(r) PROVE TypeOK'
    <2>1. reader[r].of \in Dep /\ reader[r].answer \in Found
        BY <1>2 DEF TypeOK, Readings, ReadApplies
    <2>2. reader[r].answer \in Final => reader[r].answer \in {"succeeded", "failed"}
        BY <2>1 DEF Found, Answers, Final
    <2>3. /\ state' \in [Dep -> States]
          /\ told' \in [Dep -> Seq({"succeeded", "failed"})]
          /\ archive' \in [Dep -> Folders]
        <3>1. CASE reader[r].answer \in Final
            BY <1>2, <2>1, <2>2, <3>1, ConcludeTyped DEF ReadApplies
        <3>2. CASE reader[r].answer \notin Final
            BY <1>2, <3>2 DEF TypeOK, ReadApplies
        <3> QED
            BY <3>1, <3>2
    <2>4. reader' \in [Reader -> Readings]
        BY <1>2, IdleTyped DEF TypeOK, ReadApplies
    <2> QED
        BY <1>2, <2>3, <2>4 DEF TypeOK, ReadApplies, machine
<1> QED
    BY <1>0, <1>1, <1>2

-----------------------------------------------------------------------------
(* So does every step of the tracker.                                      *)

LEMMA TickTyped ==
    ASSUME TypeOK, NEW d \in Dep,
           \/ TickBegins \/ TickAsks(d) \/ TickJudges(d) \/ TickApplies(d)
           \/ TickUnanswered(d) \/ TickEnds
    PROVE  TypeOK'
<1>0. "absent" \in Found
    BY DEF Found, Answers
<1>1. ASSUME TickBegins PROVE TypeOK'
    <2>1. tick' \in Rounds
        <3>1. InState("running") \in SUBSET Dep
            BY DEF InState
        <3>2. {e \in InState("running") : late[e]} \in SUBSET Dep
            BY DEF InState
        <3> QED
            BY <1>0, <1>1, <3>1, <3>2, RoundTyped DEF TickBegins
    <2>2. state' \in [Dep -> States] /\ archive' \in [Dep -> Folders]
        BY <1>1, GoneTyped DEF TickBegins
    <2> QED
        BY <1>1, <2>1, <2>2 DEF TypeOK, TickBegins, machine
<1>2. ASSUME TickAsks(d) \/ TickJudges(d) PROVE TypeOK'
    <2>1. tick' \in Rounds
        BY <1>2, RoundTyped, RoundFields, JudgedTyped DEF TickAsks, TickJudges
    <2> QED
        BY <1>2, <2>1 DEF TypeOK, TickAsks, TickJudges, table, machine
<1>3. ASSUME TickApplies(d) PROVE TypeOK'
    <2> DEFINE how == Verdict(tick.answer, d \in tick.overdue)
    <2>1. how \in {"succeeded", "failed", "none"}
        BY VerdictTyped, RoundFields
    <2>2. tick' \in Rounds
        <3>1. tick.left \ {d} \in SUBSET Dep
            BY RoundFields
        <3> QED
            BY <1>0, <1>3, <3>1, RoundTyped, RoundFields DEF TickApplies
    <2>3. IF how = "none" THEN UNCHANGED <<state, told, archive>> ELSE Conclude(d, how)
        BY <1>3 DEF TickApplies
    <2> HIDE DEF how
    <2>4. /\ state' \in [Dep -> States]
          /\ told' \in [Dep -> Seq({"succeeded", "failed"})]
          /\ archive' \in [Dep -> Folders]
        <3>1. CASE how = "none"
            BY <2>3, <3>1 DEF TypeOK
        <3>2. CASE how \in {"succeeded", "failed"}
            BY <2>3, <3>2, ConcludeTyped
        <3> QED
            BY <2>1, <3>1, <3>2
    <2> QED
        BY <1>3, <2>2, <2>4 DEF TypeOK, TickApplies, machine
<1>4. ASSUME TickUnanswered(d) PROVE TypeOK'
    <2>1. tick.left \ {d} \in SUBSET Dep
        BY RoundFields
    <2>2. tick' \in Rounds
        BY <1>0, <1>4, <2>1, RoundTyped, RoundFields DEF TickUnanswered
    <2> QED
        BY <1>4, <2>2 DEF TypeOK, TickUnanswered, table, machine
<1>5. ASSUME TickEnds PROVE TypeOK'
    BY <1>5, GoneTyped, IdleTyped DEF TypeOK, TickEnds, table, machine
<1> QED
    BY <1>1, <1>2, <1>3, <1>4, <1>5

-----------------------------------------------------------------------------
(* And the steward, the installer, time and the crashes.                   *)

LEMMA MachineTyped ==
    ASSUME TypeOK, NEW d \in Dep,
           StewardStarts(d) \/ StewardRefuses(d) \/ InstallerMoves(d) \/ TimePasses(d)
    PROVE  TypeOK'
<1>0. SlugOf[d] \in Slug
    OBVIOUS
<1>1. ASSUME StewardStarts(d) PROVE TypeOK'
    BY <1>1 DEF TypeOK, StewardStarts, table, handlers
<1>2. ASSUME StewardRefuses(d) PROVE TypeOK'
    BY <1>2 DEF TypeOK, StewardRefuses, table, handlers, machine
<1>3. ASSUME InstallerReports(d) PROVE TypeOK'
    BY <1>3 DEF TypeOK, InstallerReports, table, handlers, Answers
<1>4. ASSUME InstallerExtracts(d) PROVE TypeOK'
    BY <1>4 DEF TypeOK, InstallerExtracts, table, handlers
<1>5. ASSUME NEW how \in {"succeeded", "failed"}, InstallerEnds(d, how) PROVE TypeOK'
    BY <1>5 DEF TypeOK, InstallerEnds, table, handlers, Answers
<1>6. ASSUME InstallerKilled(d) PROVE TypeOK'
    BY <1>6 DEF TypeOK, InstallerKilled, table, handlers
<1>7. ASSUME TimePasses(d) PROVE TypeOK'
    BY <1>7 DEF TypeOK, TimePasses, handlers, machine
<1> QED
    BY <1>1, <1>2, <1>3, <1>4, <1>5, <1>6, <1>7 DEF InstallerMoves

LEMMA LostTyped ==
    ASSUME TypeOK, HandlersLost
    PROVE  /\ up' \in [Upload -> Uploads]
           /\ reader' \in [Reader -> Readings]
           /\ tick' \in Rounds
           /\ kills' \in Nat
BY IdleTyped DEF TypeOK, HandlersLost

LEMMA CrashTyped ==
    ASSUME TypeOK,
           \/ DashboardRestarts
           \/ \E d \in Dep, how \in {"succeeded", "failed"} : DashboardCutShort(d, how)
           \/ MachineReboots
    PROVE  TypeOK'
<1>1. ASSUME DashboardRestarts PROVE TypeOK'
    <2>1. HandlersLost
        BY <1>1 DEF DashboardRestarts
    <2>2. call' \in [Dep -> {"none", "sent", "accepted", "refused"}]
        BY <1>1 DEF TypeOK, DashboardRestarts
    <2> QED
        BY <1>1, <2>1, <2>2, LostTyped DEF TypeOK, DashboardRestarts, table, machine
<1>2. ASSUME NEW d \in Dep, NEW how \in {"succeeded", "failed"}, DashboardCutShort(d, how)
      PROVE  TypeOK'
    BY <1>2, LostTyped DEF TypeOK, DashboardCutShort, machine, States, Final
<1>3. ASSUME MachineReboots PROVE TypeOK'
    BY <1>3, LostTyped DEF TypeOK, MachineReboots, table, Answers
<1> QED
    BY <1>1, <1>2, <1>3

-----------------------------------------------------------------------------
(* The inductive invariant.                                                *)

(* Whoever may record a deployment's end follows one that was started.     *)
Started == InState("running") \cup InState("succeeded") \cup InState("failed")

Followed ==
    /\ \A u \in Upload : /\ up[u].at = "idle" <=> up[u].of = NoDep
                         /\ up[u].at = "deploying" => up[u].of \in Started
    /\ \A r \in Reader : reader[r].of # NoDep => reader[r].of \in Started
    /\ tick.left \subseteq Started
    /\ tick.asked # NoDep => tick.asked \in Started

(* Wherever a success is said, in a result, in an answer on its way or in  *)
(* a row, the installer did put the deployment in service.                 *)
Deployed == {d \in Dep : progress[d] = "deployed"}

Said ==
    /\ \A d \in Dep : result[d] = "succeeded" => d \in Deployed
    /\ \A r \in Reader : reader[r].of # NoDep /\ reader[r].answer = "succeeded"
                             => reader[r].of \in Deployed
    /\ tick.asked # NoDep /\ tick.answer = "succeeded" => tick.asked \in Deployed

IInv == TypeOK /\ Followed /\ Said /\ SuccessIsReal /\ OneActivePerSlug

-----------------------------------------------------------------------------
(* What one step may do to the table and the audit.                        *)

RowsKept == UNCHANGED <<state, told>>
RowsExpire ==
    \E gone \in SUBSET InState("awaiting") : state' = Expired(gone) /\ UNCHANGED told
RowOpens ==
    \E d \in Dep, gone \in SUBSET InState("awaiting") :
        /\ state[d] = "none"
        /\ InTheWay(d) \subseteq gone
        /\ state' = [Expired(gone) EXCEPT ![d] = "awaiting"]
        /\ UNCHANGED told
RowStarts ==
    \E d \in Dep : /\ state[d] = "awaiting"
                   /\ Room
                   /\ state' = [state EXCEPT ![d] = "running"]
                   /\ UNCHANGED told
RowEnds ==
    \E d \in Dep, how \in {"succeeded", "failed"} :
        /\ state[d] = "running"
        /\ how = "succeeded" => d \in Deployed
        /\ state' = [state EXCEPT ![d] = how]
        /\ \/ told' = [told EXCEPT ![d] = Append(@, how)]
           \/ HandlersLost

Rows == RowsKept \/ RowsExpire \/ RowOpens \/ RowStarts \/ RowEnds

LEMMA ConcludeRows ==
    ASSUME TypeOK, NEW d \in Started, NEW how \in {"succeeded", "failed"},
           how = "succeeded" => d \in Deployed, Conclude(d, how)
    PROVE  Rows
<1>1. d \in Dep
    BY DEF Started, InState
<1>2. CASE state[d] = "running"
    <2>1. RowEnds
        BY <1>1, <1>2 DEF Conclude, RowEnds, Active
    <2> QED
        BY <2>1 DEF Rows
<1>3. CASE state[d] # "running"
    <2>1. state[d] \notin Active
        BY <1>3 DEF Started, InState, Active
    <2> QED
        BY <2>1 DEF Conclude, Rows, RowsKept
<1> QED
    BY <1>2, <1>3

LEMMA HeardSuccess ==
    ASSUME Said, NEW d \in Dep, Heard(d) = "succeeded"
    PROVE  d \in Deployed
BY DEF Said, Heard

LEMMA VerdictSuccess ==
    ASSUME NEW answer, NEW overdue, Verdict(answer, overdue) = "succeeded"
    PROVE  answer = "succeeded"
BY DEF Verdict

LEMMA CreateRows ==
    ASSUME TypeOK, NEW d \in Dep, CreateDeployment(d)
    PROVE  Rows
<1> DEFINE gone == InTheWay(d) \cup Surplus(d)
<1>1. gone \in SUBSET InState("awaiting")
    <2>1. InTheWay(d) \subseteq InState("awaiting")
        BY DEF CreateDeployment, Replaceable, InTheWay, InState
    <2>2. Surplus(d) \subseteq InState("awaiting")
        BY DEF Surplus
    <2> QED
        BY <2>1, <2>2
<1>2. /\ state[d] = "none"
      /\ told' = told
      /\ \/ state' = [Expired(gone) EXCEPT ![d] = "awaiting"]
         \/ state' = Expired(gone)
    BY DEF CreateDeployment
<1>3. InTheWay(d) \subseteq gone
    OBVIOUS
<1> HIDE DEF gone
<1>4. CASE state' = [Expired(gone) EXCEPT ![d] = "awaiting"]
    BY <1>1, <1>2, <1>3, <1>4 DEF Rows, RowOpens
<1>5. CASE state' = Expired(gone)
    BY <1>1, <1>2, <1>5 DEF Rows, RowsExpire
<1> QED
    BY <1>2, <1>4, <1>5

LEMMA UploadRows ==
    ASSUME TypeOK, Followed, NEW u \in Upload, NEW d \in Dep,
           \/ UploadBegins(u, d)
           \/ UploadFails(u)
           \/ UploadReceived(u)
           \/ UploadAccepted(u)
           \/ UploadRefused(u)
    PROVE  Rows
<1>1. ASSUME UploadBegins(u, d) PROVE Rows
    <2>1. {d} \in SUBSET InState("awaiting")
        BY <1>1 DEF UploadBegins, InState
    <2>2. CASE late[d]
        BY <1>1, <2>1, <2>2 DEF UploadBegins, Rows, RowsExpire
    <2>3. CASE ~late[d]
        BY <1>1, <2>3 DEF UploadBegins, Rows, RowsKept
    <2> QED
        BY <2>2, <2>3
<1>2. ASSUME UploadFails(u) \/ UploadAccepted(u) PROVE Rows
    BY <1>2 DEF UploadFails, UploadAccepted, table, Rows, RowsKept
<1>3. ASSUME UploadReceived(u) PROVE Rows
    <2>1. up[u].of \in Dep
        BY <1>3 DEF TypeOK, Uploads, Followed, UploadReceived
    <2>2. CASE MarkRunning(up[u].of)
        BY <1>3, <2>1, <2>2 DEF UploadReceived, MarkRunning, Rows, RowStarts
    <2>3. CASE ~MarkRunning(up[u].of)
        BY <1>3, <2>3 DEF UploadReceived, Rows, RowsKept
    <2> QED
        BY <2>2, <2>3
<1>4. ASSUME UploadRefused(u) PROVE Rows
    BY <1>4, ConcludeRows DEF UploadRefused, Followed
<1> QED
    BY <1>1, <1>2, <1>3, <1>4

LEMMA ReadRows ==
    ASSUME TypeOK, Followed, Said, NEW r \in Reader, ReadApplies(r)
    PROVE  Rows
<1>1. reader[r].of \in Started
    BY DEF ReadApplies, Followed
<1>2. reader[r].answer \in Found
    BY DEF TypeOK, Readings
<1>3. CASE reader[r].answer \in Final
    <2>1. reader[r].answer \in {"succeeded", "failed"}
        BY <1>2, <1>3 DEF Found, Answers, Final
    <2>2. reader[r].answer = "succeeded" => reader[r].of \in Deployed
        BY DEF ReadApplies, Said
    <2> QED
        BY <1>1, <1>3, <2>1, <2>2, ConcludeRows DEF ReadApplies
<1>4. CASE reader[r].answer \notin Final
    BY <1>4 DEF ReadApplies, Rows, RowsKept
<1> QED
    BY <1>3, <1>4

LEMMA TickRows ==
    ASSUME TypeOK, Followed, Said, NEW d \in Dep,
           TickAsks(d) \/ TickJudges(d) \/ TickApplies(d) \/ TickUnanswered(d)
    PROVE  Rows
<1>1. ASSUME TickAsks(d) \/ TickJudges(d) \/ TickUnanswered(d) PROVE Rows
    BY <1>1 DEF TickAsks, TickJudges, TickUnanswered, table, Rows, RowsKept
<1>2. ASSUME TickApplies(d) PROVE Rows
    <2> DEFINE how == Verdict(tick.answer, d \in tick.overdue)
    <2>1. how \in {"succeeded", "failed", "none"}
        BY VerdictTyped, RoundFields
    <2>2. d \in Started
        BY <1>2 DEF TickApplies, Followed
    <2>3. how = "succeeded" => d \in Deployed
        BY <1>2, VerdictSuccess DEF TickApplies, Said
    <2>4. IF how = "none" THEN UNCHANGED <<state, told, archive>> ELSE Conclude(d, how)
        BY <1>2 DEF TickApplies
    <2> HIDE DEF how
    <2>5. CASE how = "none"
        BY <2>4, <2>5 DEF Rows, RowsKept
    <2>6. CASE how \in {"succeeded", "failed"}
        BY <2>2, <2>3, <2>4, <2>6, ConcludeRows
    <2> QED
        BY <2>1, <2>5, <2>6
<1> QED
    BY <1>1, <1>2

LEMMA RoundRows == ASSUME TickBegins \/ TickEnds PROVE Rows
<1>1. CASE TickBegins
    <2>1. {e \in InState("awaiting") : late[e]} \in SUBSET InState("awaiting")
        OBVIOUS
    <2> QED
        BY <1>1, <2>1 DEF TickBegins, Rows, RowsExpire
<1>2. CASE TickEnds
    BY <1>2 DEF TickEnds, table, Rows, RowsKept
<1> QED
    BY <1>1, <1>2

LEMMA MachineRows ==
    ASSUME NEW d \in Dep,
           \/ StewardStarts(d)
           \/ StewardRefuses(d)
           \/ InstallerMoves(d)
           \/ TimePasses(d)
           \/ DashboardRestarts
           \/ MachineReboots
    PROVE  RowsKept
BY DEF StewardStarts, StewardRefuses, InstallerMoves, InstallerReports,
       InstallerExtracts, InstallerEnds, InstallerKilled, TimePasses,
       DashboardRestarts, MachineReboots, table, RowsKept

LEMMA CutShortRows ==
    ASSUME TypeOK, Followed, Said, NEW d \in Dep, NEW how \in {"succeeded", "failed"},
           DashboardCutShort(d, how)
    PROVE  Rows
<1>0. d # NoDep
    OBVIOUS
<1>1. d \in Started
    <2>1. CASE tick.asked = d
        BY <1>0, <2>1 DEF Followed
    <2>2. CASE \E r \in Reader : reader[r].of = d
        BY <1>0, <2>2 DEF Followed
    <2>3. CASE \E u \in Upload : up[u] = [at |-> "deploying", of |-> d]
        BY <2>3 DEF Followed
    <2> QED
        BY <2>1, <2>2, <2>3 DEF DashboardCutShort, AboutToRecord
<1>2. state[d] = "running"
    BY <1>1 DEF DashboardCutShort, Started, InState, Active
<1>3. how = "succeeded" => d \in Deployed
    BY <1>0, VerdictSuccess DEF DashboardCutShort, AboutToRecord, Said
<1> QED
    BY <1>2, <1>3 DEF DashboardCutShort, Rows, RowEnds

-----------------------------------------------------------------------------
(* What the rows' steps keep.                                              *)

LEMMA NextRows == ASSUME TypeOK, Followed, Said, Next PROVE Rows
<1>1. ASSUME NEW d \in Dep, CreateDeployment(d) PROVE Rows
    BY <1>1, CreateRows
<1>2. ASSUME NEW d \in Dep, NEW u \in Upload, UploadBegins(u, d) PROVE Rows
    BY <1>2, UploadRows
<1>3. ASSUME NEW u \in Upload, \/ UploadFails(u)
                               \/ UploadReceived(u)
                               \/ UploadAccepted(u)
                               \/ UploadRefused(u)
      PROVE  Rows
    <2>1. up[u].of \in Dep
        BY <1>3 DEF TypeOK, Uploads, Followed, UploadFails, UploadReceived,
                    UploadAccepted, UploadRefused
    <2> QED
        BY <1>3, <2>1, UploadRows
<1>4. ASSUME NEW d \in Dep, NEW r \in Reader, ReadAsks(r, d) PROVE Rows
    BY <1>4 DEF ReadAsks, table, Rows, RowsKept
<1>5. ASSUME NEW r \in Reader, ReadJudges(r) \/ ReadApplies(r) PROVE Rows
    BY <1>5, ReadRows DEF ReadJudges, table, Rows, RowsKept
<1>6. ASSUME NEW d \in Dep, TickAsks(d) \/ TickJudges(d) \/ TickApplies(d) \/ TickUnanswered(d)
      PROVE  Rows
    BY <1>6, TickRows
<1>7. ASSUME TickBegins \/ TickEnds PROVE Rows
    BY <1>7, RoundRows
<1>8. ASSUME NEW d \in Dep, NEW how \in {"succeeded", "failed"}, DashboardCutShort(d, how)
      PROVE  Rows
    BY <1>8, CutShortRows
<1>9. ASSUME NEW d \in Dep, \/ StewardStarts(d)
                            \/ StewardRefuses(d)
                            \/ InstallerMoves(d)
                            \/ TimePasses(d)
      PROVE  Rows
    BY <1>9, MachineRows DEF Rows
<1>10. ASSUME DashboardRestarts \/ MachineReboots PROVE Rows
    BY <1>10 DEF DashboardRestarts, MachineReboots, table, Rows, RowsKept
<1> QED
    BY <1>1, <1>2, <1>3, <1>4, <1>5, <1>6, <1>7, <1>8, <1>9, <1>10 DEF Next

(* A deployment started stays so: no step goes back.                       *)
LEMMA StartedStays == ASSUME TypeOK, Rows PROVE Started \subseteq Started'
<1>1. CASE RowsKept
    BY <1>1 DEF RowsKept, Started, InState
<1>2. CASE RowsExpire
    BY <1>2 DEF RowsExpire, Started, InState, Expired
<1>3. CASE RowOpens
    BY <1>3 DEF TypeOK, RowOpens, Started, InState, Expired
<1>4. CASE RowStarts
    BY <1>4 DEF TypeOK, RowStarts, Started, InState
<1>5. CASE RowEnds
    BY <1>5 DEF TypeOK, RowEnds, Started, InState
<1> QED
    BY <1>1, <1>2, <1>3, <1>4, <1>5 DEF Rows

(* A project's deployments make way before a new one is opened.            *)
LEMMA OneActiveKept ==
    ASSUME TypeOK, OneActivePerSlug, Rows
    PROVE  OneActivePerSlug'
<1> SUFFICES ASSUME NEW d \in Dep, NEW e \in Dep, SlugOf[d] = SlugOf[e],
                    state'[d] \in Active, state'[e] \in Active
             PROVE  d = e
    BY DEF OneActivePerSlug
<1>1. CASE RowsKept
    BY <1>1 DEF RowsKept, OneActivePerSlug
<1>2. CASE RowsExpire
    <2>1. state[d] \in Active /\ state[e] \in Active
        BY <1>2 DEF RowsExpire, Expired, Active
    <2> QED
        BY <2>1 DEF OneActivePerSlug
<1>3. CASE RowOpens
    <2>1. PICK f \in Dep, gone \in SUBSET InState("awaiting") :
              /\ InTheWay(f) \subseteq gone
              /\ state' = [Expired(gone) EXCEPT ![f] = "awaiting"]
        BY <1>3 DEF RowOpens
    <2>2. \A g \in Dep : g # f /\ state'[g] \in Active
                             => g \notin gone /\ state[g] \in Active
        BY <2>1 DEF Expired, Active
    <2>3. \A g \in Dep : g # f /\ state'[g] \in Active => SlugOf[g] # SlugOf[f]
        BY <2>1, <2>2 DEF InTheWay
    <2> QED
        BY <2>2, <2>3 DEF OneActivePerSlug
<1>4. CASE RowStarts
    <2>1. state[d] \in Active /\ state[e] \in Active
        BY <1>4 DEF TypeOK, RowStarts, Active
    <2> QED
        BY <2>1 DEF OneActivePerSlug
<1>5. CASE RowEnds
    <2>1. state[d] \in Active /\ state[e] \in Active
        BY <1>5 DEF TypeOK, RowEnds, Active
    <2> QED
        BY <2>1 DEF OneActivePerSlug
<1> QED
    BY <1>1, <1>2, <1>3, <1>4, <1>5 DEF Rows

(* What was put in service stays so, and a result says a success only of   *)
(* what was.                                                               *)
LEMMA DeployedStays ==
    ASSUME TypeOK, Said, Next
    PROVE  /\ Deployed \subseteq Deployed'
           /\ \A d \in Dep : result'[d] = "succeeded" => d \in Deployed'
<1>1. ASSUME UNCHANGED <<result, progress>>
      PROVE  /\ Deployed \subseteq Deployed'
             /\ \A d \in Dep : result'[d] = "succeeded" => d \in Deployed'
    BY <1>1 DEF Said, Deployed
<1>2. ASSUME MachineReboots
      PROVE  /\ Deployed \subseteq Deployed'
             /\ \A d \in Dep : result'[d] = "succeeded" => d \in Deployed'
    BY <1>2 DEF MachineReboots, Deployed
<1>3. ASSUME NEW e \in Dep, InstallerReports(e) \/ InstallerExtracts(e)
      PROVE  /\ Deployed \subseteq Deployed'
             /\ \A d \in Dep : result'[d] = "succeeded" => d \in Deployed'
    BY <1>3 DEF TypeOK, InstallerReports, InstallerExtracts, Said, Deployed
<1>4. ASSUME NEW e \in Dep, NEW how \in {"succeeded", "failed"}, InstallerEnds(e, how)
      PROVE  /\ Deployed \subseteq Deployed'
             /\ \A d \in Dep : result'[d] = "succeeded" => d \in Deployed'
    BY <1>4 DEF TypeOK, InstallerEnds, Said, Deployed
<1>5. \/ UNCHANGED <<result, progress>>
      \/ MachineReboots
      \/ \E e \in Dep : InstallerReports(e) \/ InstallerExtracts(e)
      \/ \E e \in Dep, how \in {"succeeded", "failed"} : InstallerEnds(e, how)
    BY DEF Next, CreateDeployment, UploadBegins, UploadFails, UploadReceived,
           UploadAccepted, UploadRefused, ReadAsks, ReadJudges, ReadApplies, TickBegins,
           TickAsks, TickJudges, TickApplies, TickUnanswered, TickEnds, StewardStarts,
           StewardRefuses, InstallerMoves, InstallerKilled, TimePasses,
           DashboardRestarts, DashboardCutShort, machine
<1> QED
    BY <1>1, <1>2, <1>3, <1>4, <1>5

LEMMA SuccessKept ==
    ASSUME TypeOK, SuccessIsReal, Rows, Deployed \subseteq Deployed'
    PROVE  SuccessIsReal'
<1> SUFFICES ASSUME NEW d \in Dep, state'[d] = "succeeded"
             PROVE  d \in Deployed'
    BY DEF SuccessIsReal, Deployed
<1>1. state[d] = "succeeded" \/ d \in Deployed
    BY DEF TypeOK, Rows, RowsKept, RowsExpire, RowOpens, RowStarts, RowEnds, Expired
<1> QED
    BY <1>1 DEF SuccessIsReal, Deployed

-----------------------------------------------------------------------------
(* What one step may do to the requests and the tracker's round.           *)

UpMoves ==
    \A u \in Upload :
        \/ up'[u] = up[u]
        \/ up'[u] = NoUploading
        \/ up'[u].at = "receiving" /\ up'[u].of \in Dep
        \/ up'[u].at = "deploying" /\ up'[u].of \in Dep /\ state'[up'[u].of] = "running"
ReaderMoves ==
    \A r \in Reader :
        \/ reader'[r] = reader[r]
        \/ reader'[r].of = NoDep
        \/ \E d \in InState("running") : reader'[r] = [of |-> d, answer |-> Heard(d)]
        \/ reader'[r].of = reader[r].of /\ reader'[r].answer \in {"failed", "running"}
TickMoves ==
    \/ tick' = tick
    \/ /\ tick'.left = tick.left /\ tick'.asked = tick.asked
       /\ tick'.answer \in {"failed", "running"}
    \/ /\ tick'.left \subseteq tick.left \cup InState("running")
       /\ tick'.asked # NoDep => /\ tick'.asked \in tick.left
                                 /\ tick'.answer = Heard(tick'.asked)

LEMMA LostMoves == ASSUME HandlersLost PROVE UpMoves /\ ReaderMoves /\ TickMoves
BY DEF HandlersLost, UpMoves, ReaderMoves, TickMoves, NoReading, NoTick

LEMMA UploadMoves ==
    ASSUME TypeOK, Followed, NEW u \in Upload, NEW d \in Dep,
           \/ UploadBegins(u, d)
           \/ UploadFails(u)
           \/ UploadReceived(u)
           \/ UploadAccepted(u)
           \/ UploadRefused(u)
    PROVE  UpMoves
<1>1. CASE UploadBegins(u, d)
    BY <1>1 DEF TypeOK, UploadBegins, UpMoves
<1>2. CASE UploadFails(u) \/ UploadAccepted(u) \/ UploadRefused(u)
    BY <1>2 DEF TypeOK, UploadFails, UploadAccepted, UploadRefused, UpMoves
<1>3. CASE UploadReceived(u)
    <2>1. up[u].of \in Dep
        BY <1>3 DEF TypeOK, Uploads, Followed, UploadReceived
    <2>2. \/ up' = [up EXCEPT ![u] = NoUploading]
          \/ /\ up' = [up EXCEPT ![u] = [at |-> "deploying", of |-> up[u].of]]
             /\ state' = [state EXCEPT ![up[u].of] = "running"]
        BY <1>3 DEF UploadReceived
    <2> QED
        BY <2>1, <2>2 DEF TypeOK, UpMoves
<1> QED
    BY <1>1, <1>2, <1>3

LEMMA ReadMoves ==
    ASSUME TypeOK, NEW r \in Reader,
           (\E d \in Dep : ReadAsks(r, d)) \/ ReadJudges(r) \/ ReadApplies(r)
    PROVE  ReaderMoves
<1>1. CASE ReadJudges(r)
    <2>1. \A q \in Reader : /\ reader'[q].of = reader[q].of
                            /\ reader'[q] = reader[q] \/ reader'[q].answer = Judged(reader[r].of)
        BY <1>1 DEF ReadJudges, TypeOK, Readings
    <2> QED
        BY <2>1 DEF ReaderMoves, Judged
<1>2. CASE (\E d \in Dep : ReadAsks(r, d)) \/ ReadApplies(r)
    BY <1>2 DEF TypeOK, ReadAsks, ReadApplies, ReaderMoves, NoReading, InState
<1> QED
    BY <1>1, <1>2

LEMMA RoundMoves ==
    ASSUME TypeOK,
           \/ \E d \in Dep : TickAsks(d) \/ TickJudges(d) \/ TickApplies(d) \/ TickUnanswered(d)
           \/ TickBegins
           \/ TickEnds
    PROVE  TickMoves
<1>1. ASSUME NEW d \in Dep, TickAsks(d) PROVE TickMoves
    BY <1>1 DEF TickAsks, Round, TickMoves
<1>2. ASSUME NEW d \in Dep, TickApplies(d) \/ TickUnanswered(d) PROVE TickMoves
    BY <1>2 DEF TickApplies, TickUnanswered, Round, TickMoves
<1>3. ASSUME TickBegins PROVE TickMoves
    BY <1>3 DEF TickBegins, Round, TickMoves
<1>4. ASSUME TickEnds PROVE TickMoves
    BY <1>4 DEF TickEnds, NoTick, TickMoves
<1>5. ASSUME NEW d \in Dep, TickJudges(d) PROVE TickMoves
    BY <1>5 DEF TickJudges, Judged, Round, TickMoves
<1> QED
    BY <1>1, <1>2, <1>3, <1>4, <1>5

LEMMA NextMoves ==
    ASSUME TypeOK, Followed, Next
    PROVE  UpMoves /\ ReaderMoves /\ TickMoves
<1>1. /\ UNCHANGED up => UpMoves
      /\ UNCHANGED reader => ReaderMoves
      /\ UNCHANGED tick => TickMoves
    BY DEF UpMoves, ReaderMoves, TickMoves
<1>2. ASSUME NEW u \in Upload, NEW d \in Dep,
             \/ UploadBegins(u, d)
             \/ UploadFails(u)
             \/ UploadReceived(u)
             \/ UploadAccepted(u)
             \/ UploadRefused(u)
      PROVE  UpMoves /\ ReaderMoves /\ TickMoves
    <2>1. UpMoves
        BY <1>2, UploadMoves
    <2>2. UNCHANGED <<reader, tick>>
        BY <1>2 DEF UploadBegins, UploadFails, UploadReceived, UploadAccepted, UploadRefused
    <2> QED
        BY <1>1, <2>1, <2>2
<1>3. ASSUME NEW r \in Reader, (\E d \in Dep : ReadAsks(r, d)) \/ ReadJudges(r) \/ ReadApplies(r)
      PROVE  UpMoves /\ ReaderMoves /\ TickMoves
    <2>1. ReaderMoves
        BY <1>3, ReadMoves
    <2>2. UNCHANGED <<up, tick>>
        BY <1>3 DEF ReadAsks, ReadJudges, ReadApplies
    <2> QED
        BY <1>1, <2>1, <2>2
<1>4. ASSUME \/ \E d \in Dep : TickAsks(d) \/ TickJudges(d) \/ TickApplies(d) \/ TickUnanswered(d)
             \/ TickBegins
             \/ TickEnds
      PROVE  UpMoves /\ ReaderMoves /\ TickMoves
    <2>1. TickMoves
        BY <1>4, RoundMoves
    <2>2. UNCHANGED <<up, reader>>
        BY <1>4 DEF TickAsks, TickJudges, TickApplies, TickUnanswered, TickBegins, TickEnds
    <2> QED
        BY <1>1, <2>1, <2>2
<1>5. ASSUME HandlersLost PROVE UpMoves /\ ReaderMoves /\ TickMoves
    BY <1>5, LostMoves
<1>6. ASSUME NEW d \in Dep, \/ CreateDeployment(d)
                            \/ StewardStarts(d)
                            \/ StewardRefuses(d)
                            \/ InstallerMoves(d)
                            \/ TimePasses(d)
      PROVE  UpMoves /\ ReaderMoves /\ TickMoves
    <2>1. UNCHANGED <<up, reader, tick>>
        BY <1>6 DEF CreateDeployment, StewardStarts, StewardRefuses, InstallerMoves,
                    InstallerReports, InstallerExtracts, InstallerEnds,
                    InstallerKilled, TimePasses, handlers
    <2> QED
        BY <1>1, <2>1
<1>7. ASSUME NEW u \in Upload, \/ UploadFails(u)
                               \/ UploadReceived(u)
                               \/ UploadAccepted(u)
                               \/ UploadRefused(u)
      PROVE  UpMoves /\ ReaderMoves /\ TickMoves
    <2>1. up[u].of \in Dep
        BY <1>7 DEF TypeOK, Uploads, Followed, UploadFails, UploadReceived,
                    UploadAccepted, UploadRefused
    <2> QED
        BY <1>2, <1>7, <2>1
<1> QED
    BY <1>2, <1>3, <1>4, <1>5, <1>6, <1>7
       DEF Next, DashboardRestarts, DashboardCutShort, MachineReboots

LEMMA FollowedKept ==
    ASSUME TypeOK, Followed, TypeOK', Rows, UpMoves, ReaderMoves, TickMoves
    PROVE  Followed'
<1>0. Started \subseteq Started' /\ Started \subseteq Dep /\ InState("running") \subseteq Started
    BY StartedStays DEF Started, InState
<1>1. ASSUME NEW u \in Upload
      PROVE  /\ up'[u].at = "idle" <=> up'[u].of = NoDep
             /\ up'[u].at = "deploying" => up'[u].of \in Started'
    <2>1. CASE up'[u] = up[u]
        BY <1>0, <2>1 DEF Followed
    <2>2. CASE up'[u] = NoUploading
        BY <2>2 DEF NoUploading
    <2>3. CASE up'[u].at = "receiving" /\ up'[u].of \in Dep
        BY <2>3
    <2>4. CASE /\ up'[u].at = "deploying"
               /\ up'[u].of \in Dep
               /\ state'[up'[u].of] = "running"
        BY <2>4 DEF Started, InState
    <2> QED
        BY <2>1, <2>2, <2>3, <2>4 DEF UpMoves
<1>2. ASSUME NEW r \in Reader, reader'[r].of # NoDep
      PROVE  reader'[r].of \in Started'
    <2>1. CASE reader'[r] = reader[r]
        BY <1>0, <1>2, <2>1 DEF Followed
    <2>2. ASSUME NEW d \in InState("running"),
                 reader'[r] = [of |-> d, answer |-> Heard(d)]
          PROVE  reader'[r].of \in Started'
        <3>1. reader'[r].of = d
            BY <2>2
        <3> QED
            BY <1>0, <3>1
    <2>3. CASE reader'[r].of = reader[r].of
        BY <1>0, <1>2, <2>3 DEF Followed
    <2> QED
        BY <1>2, <2>1, <2>2, <2>3 DEF ReaderMoves
<1>3. /\ tick'.left \subseteq Started'
      /\ tick'.asked # NoDep => tick'.asked \in Started'
    BY <1>0 DEF Followed, TickMoves
<1> QED
    BY <1>1, <1>2, <1>3 DEF Followed

LEMMA SaidKept ==
    ASSUME TypeOK, Followed, Said, ReaderMoves, TickMoves,
           Deployed \subseteq Deployed',
           \A d \in Dep : result'[d] = "succeeded" => d \in Deployed'
    PROVE  Said'
<1>1. ASSUME NEW r \in Reader, reader'[r].of # NoDep, reader'[r].answer = "succeeded"
      PROVE  reader'[r].of \in Deployed'
    <2>1. CASE reader'[r] = reader[r]
        BY <1>1, <2>1 DEF Said
    <2>2. CASE \E d \in InState("running") : reader'[r] = [of |-> d, answer |-> Heard(d)]
        BY <1>1, <2>2, HeardSuccess DEF InState
    <2> QED
        BY <1>1, <2>1, <2>2 DEF ReaderMoves
<1>2. ASSUME tick'.asked # NoDep, tick'.answer = "succeeded"
      PROVE  tick'.asked \in Deployed'
    <2>1. CASE tick' = tick
        BY <1>2, <2>1 DEF Said
    <2>2. CASE tick'.asked \in tick.left /\ tick'.answer = Heard(tick'.asked)
        BY <1>2, <2>2, HeardSuccess, RoundFields
    <2> QED
        BY <1>2, <2>1, <2>2 DEF TickMoves
<1> QED
    BY <1>1, <1>2 DEF Said

-----------------------------------------------------------------------------
LEMMA InitInv == Init => IInv
<1> SUFFICES ASSUME Init PROVE IInv
    OBVIOUS
<1>1. TypeOK
    BY InitTyped
<1>2. Followed
    BY DEF Init, Followed, NoUploading, NoReading, NoTick
<1>3. Said /\ SuccessIsReal /\ OneActivePerSlug
    BY DEF Init, Said, SuccessIsReal, OneActivePerSlug, NoReading, NoTick, Active
<1> QED
    BY <1>1, <1>2, <1>3 DEF IInv

LEMMA NextTyped == ASSUME TypeOK, Followed, Next PROVE TypeOK'
<1>1. ASSUME NEW u \in Upload, \/ UploadFails(u)
                               \/ UploadReceived(u)
                               \/ UploadAccepted(u)
                               \/ UploadRefused(u)
      PROVE  TypeOK'
    <2>1. up[u].of \in Dep
        BY <1>1 DEF TypeOK, Uploads, Followed, UploadFails, UploadReceived,
                    UploadAccepted, UploadRefused
    <2> QED
        BY <1>1, <2>1, UploadTyped, RefusedTyped
<1>2. ASSUME NEW d \in Dep, CreateDeployment(d) \/ \E u \in Upload : UploadBegins(u, d)
      PROVE  TypeOK'
    BY <1>2, CreateTyped, UploadTyped
<1>3. ASSUME NEW r \in Reader, (\E d \in Dep : ReadAsks(r, d)) \/ ReadJudges(r) \/ ReadApplies(r)
      PROVE  TypeOK'
    <2>1. CASE ReadJudges(r) \/ ReadApplies(r)
        <3>1. reader[r].of \in Dep
            BY <2>1 DEF TypeOK, Readings, Followed, ReadJudges, ReadApplies
        <3> QED
            BY <2>1, <3>1, ReadTyped
    <2>2. CASE \E d \in Dep : ReadAsks(r, d)
        BY <2>2, ReadTyped
    <2> QED
        BY <1>3, <2>1, <2>2
<1>4. ASSUME NEW d \in Dep, \/ TickAsks(d)
                            \/ TickJudges(d)
                            \/ TickApplies(d)
                            \/ TickUnanswered(d)
                            \/ StewardStarts(d)
                            \/ StewardRefuses(d)
                            \/ InstallerMoves(d)
                            \/ TimePasses(d)
      PROVE  TypeOK'
    BY <1>4, TickTyped, MachineTyped
<1>5. ASSUME TickBegins PROVE TypeOK'
    <2>1. InState("running") \subseteq Dep /\ {e \in InState("running") : late[e]} \subseteq Dep
        BY DEF InState
    <2>2. tick' \in Rounds
        BY <1>5, <2>1, RoundTyped DEF TickBegins, Found, Answers
    <2>3. state' \in [Dep -> States] /\ archive' \in [Dep -> Folders]
        BY <1>5, GoneTyped DEF TickBegins
    <2> QED
        BY <1>5, <2>2, <2>3 DEF TypeOK, TickBegins, machine
<1>6. ASSUME TickEnds PROVE TypeOK'
    BY <1>6, GoneTyped, IdleTyped DEF TypeOK, TickEnds, table, machine
<1>7. ASSUME \/ DashboardRestarts
             \/ \E d \in Dep, how \in {"succeeded", "failed"} : DashboardCutShort(d, how)
             \/ MachineReboots
      PROVE  TypeOK'
    BY <1>7, CrashTyped
<1> QED
    BY <1>1, <1>2, <1>3, <1>4, <1>5, <1>6, <1>7 DEF Next

LEMMA NextInv == IInv /\ [Next]_vars => IInv'
<1> SUFFICES ASSUME IInv, [Next]_vars PROVE IInv'
    OBVIOUS
<1>1. CASE Next
    <2>1. TypeOK'
        BY <1>1, NextTyped DEF IInv
    <2>2. Rows
        BY <1>1, NextRows DEF IInv
    <2>3. UpMoves /\ ReaderMoves /\ TickMoves
        BY <1>1, NextMoves DEF IInv
    <2>4. /\ Deployed \subseteq Deployed'
          /\ \A d \in Dep : result'[d] = "succeeded" => d \in Deployed'
        BY <1>1, DeployedStays DEF IInv
    <2>5. Followed'
        BY <2>1, <2>2, <2>3, FollowedKept DEF IInv
    <2>6. Said'
        BY <2>3, <2>4, SaidKept DEF IInv
    <2>7. SuccessIsReal' /\ OneActivePerSlug'
        BY <2>2, <2>4, SuccessKept, OneActiveKept DEF IInv
    <2> QED
        BY <2>1, <2>5, <2>6, <2>7 DEF IInv
<1>2. CASE UNCHANGED vars
    BY <1>2 DEF vars, IInv, TypeOK, Followed, Said, SuccessIsReal, OneActivePerSlug,
                Started, Deployed, InState
<1> QED
    BY <1>1, <1>2

LEMMA Inductive == Spec => []IInv
BY InitInv, NextInv, PTL DEF Spec

-----------------------------------------------------------------------------
(* The theorems.                                                           *)

(* Every variable keeps its type, for every number of deployments,         *)
(* requests and restarts.                                                  *)
THEOREM TypeCorrect == Spec => []TypeOK
<1>1. IInv => TypeOK
    BY DEF IInv
<1> QED
    BY Inductive, <1>1, PTL

(* A project never has two deployments under way (api.ts createDeployment). *)
THEOREM OneAtATime == Spec => []OneActivePerSlug
<1>1. IInv => OneActivePerSlug
    BY DEF IInv
<1> QED
    BY Inductive, <1>1, PTL

(* A deployment reported as succeeded was put in service by its installer, *)
(* whatever is lost, killed, restarted or answered late (results.ts).      *)
THEOREM NoFalseSuccess == Spec => []SuccessIsReal
<1>1. IInv => SuccessIsReal
    BY DEF IInv
<1> QED
    BY Inductive, <1>1, PTL

(* The table and the audit implement the book: each step of the system     *)
(* that does not stop it is one of the book's, or changes neither.         *)
THEOREM BookImplemented == Spec => FollowsBook
<1>1. Init => Book!Init
    BY DEF Init, Book!Init
<1>2. ASSUME IInv, [Next]_vars PROVE [kills' = kills => Book!Next]_<<state, told>>
    <2> SUFFICES ASSUME kills' = kills PROVE [Book!Next]_<<state, told>>
        OBVIOUS
    <2>1. CASE Next
        <3>1. Rows
            BY <1>2, <2>1, NextRows DEF IInv
        <3>2. ~HandlersLost
            BY <1>2 DEF IInv, TypeOK, HandlersLost
        <3>3. CASE RowsKept
            BY <3>3 DEF RowsKept
        <3>4. CASE RowsExpire
            <4>1. PICK gone \in SUBSET InState("awaiting") :
                      state' = Expired(gone) /\ UNCHANGED told
                BY <3>4 DEF RowsExpire
            <4>2. CASE gone = {}
                <5>1. Expired({}) = state
                    BY <1>2 DEF Expired, IInv, TypeOK
                <5> QED
                    BY <4>1, <4>2, <5>1
            <4>3. CASE gone # {}
                <5>1. Book!Expires(gone) /\ gone \in SUBSET Book!Awaiting
                    BY <4>1, <4>3 DEF Book!Expires, Book!Expired, Book!Awaiting,
                                      Expired, InState
                <5> QED
                    BY <5>1 DEF Book!Next
            <4> QED
                BY <4>2, <4>3
        <3>5. CASE RowOpens
            <4>1. PICK d \in Dep, gone \in SUBSET InState("awaiting") :
                      /\ state[d] = "none"
                      /\ state' = [Expired(gone) EXCEPT ![d] = "awaiting"]
                      /\ UNCHANGED told
                BY <3>5 DEF RowOpens
            <4>2. Book!Opens(d, gone) /\ gone \in SUBSET Book!Awaiting
                BY <4>1 DEF Book!Opens, Book!Expired, Book!Awaiting, Expired, InState
            <4> QED
                BY <4>2 DEF Book!Next
        <3>6. CASE RowStarts
            <4>1. PICK d \in Dep : /\ state[d] = "awaiting"
                                   /\ Room
                                   /\ state' = [state EXCEPT ![d] = "running"]
                                   /\ UNCHANGED told
                BY <3>6 DEF RowStarts
            <4>2. Book!Running = InState("running")
                BY DEF Book!Running, InState
            <4>3. Book!Cardinality(Book!Running) = Cardinality(InState("running"))
                BY <4>2, Zenon DEF Book!Cardinality, Cardinality
            <4>4. Book!Starts(d)
                BY <4>1, <4>3 DEF Room, Book!Starts
            <4> QED
                BY <4>4 DEF Book!Next
        <3>7. CASE RowEnds
            <4>1. PICK d \in Dep, how \in {"succeeded", "failed"} : Book!Ends(d, how)
                BY <3>2, <3>7 DEF RowEnds, Book!Ends
            <4> QED
                BY <4>1 DEF Book!Next
        <3> QED
            BY <3>1, <3>3, <3>4, <3>5, <3>6, <3>7 DEF Rows
    <2>2. CASE UNCHANGED vars
        BY <2>2 DEF vars
    <2> QED
        BY <1>2, <2>1, <2>2
<1> QED
    BY Inductive, <1>1, <1>2, PTL DEF Spec, FollowsBook

-----------------------------------------------------------------------------
(* The archives. When uploads of one deployment do not overlap, the file   *)
(* of a deployment that waits is the one its upload opened, and nobody but *)
(* its end takes the archive of a running one away.                        *)

Alone ==
    \A u, v \in Upload : up[u].of # NoDep /\ up[u].of = up[v].of => u = v
Mine ==
    \A u \in Upload : up[u].at = "receiving" =>
        /\ state[up[u].of] \notin {"none", "running"}
        /\ state[up[u].of] = "awaiting" => archive[up[u].of].by = u
Whole == \A d \in Dep : state[d] = "running" => archive[d].whole
Waits == Alone /\ Mine /\ Whole

(* Rows and folders a step leaves as they were, opens, ends or finds ended. *)
Spared ==
    \A e \in Dep :
        \/ state'[e] = state[e] /\ archive'[e] = archive[e]
        \/ state[e] = "none" /\ state'[e] = "awaiting"
        \/ state'[e] \in Final
        \/ state'[e] = state[e] /\ state[e] \notin Active
Dropped == \A u \in Upload : up'[u] = up[u] \/ up'[u] = NoUploading

LEMMA WaitsSpared ==
    ASSUME TypeOK, Followed, Waits, Spared, Dropped
    PROVE  Waits'
<1>1. Alone'
    BY DEF Waits, Alone, Dropped, NoUploading
<1>2. Mine'
    <2> SUFFICES ASSUME NEW u \in Upload, up'[u].at = "receiving"
                 PROVE  /\ state'[up'[u].of] \notin {"none", "running"}
                        /\ state'[up'[u].of] = "awaiting" => archive'[up'[u].of].by = u
        BY DEF Mine
    <2>1. up'[u] = up[u] /\ up[u].of \in Dep
        BY DEF Dropped, NoUploading, TypeOK, Uploads, Followed
    <2>2. /\ state[up[u].of] \notin {"none", "running"}
          /\ state[up[u].of] = "awaiting" => archive[up[u].of].by = u
        BY <2>1 DEF Waits, Mine
    <2> QED
        BY <2>1, <2>2 DEF Spared, Final, Active
<1>3. Whole'
    BY DEF Waits, Whole, Spared, Final, Active
<1> QED
    BY <1>1, <1>2, <1>3 DEF Waits

LEMMA ConcludeSpares ==
    ASSUME TypeOK, NEW d \in Dep, NEW how \in {"succeeded", "failed"}, Conclude(d, how)
    PROVE  Spared
BY DEF TypeOK, Conclude, Spared, Final

LEMMA CreateWaits ==
    ASSUME TypeOK, Followed, Waits, NEW d \in Dep, CreateDeployment(d)
    PROVE  Waits'
<1> DEFINE gone == InTheWay(d) \cup Surplus(d)
<1>1. /\ state[d] = "none" /\ up' = up
      /\ archive' = Emptied(gone)
      /\ \/ state' = [Expired(gone) EXCEPT ![d] = "awaiting"]
         \/ state' = Expired(gone)
    BY DEF CreateDeployment, handlers
<1>2. d \notin gone
    BY <1>1 DEF InTheWay, Surplus, InState, Active
<1> HIDE DEF gone
<1>3. Spared
    BY <1>1, <1>2 DEF Spared, Expired, Emptied, Final
<1>4. Dropped
    BY <1>1 DEF Dropped
<1> QED
    BY <1>3, <1>4, WaitsSpared

LEMMA UploadBeginsWaits ==
    ASSUME Overlap = FALSE, TypeOK, Followed, Waits, NEW u \in Upload, NEW d \in Dep,
           UploadBegins(u, d)
    PROVE  Waits'
<1>1. state[d] = "awaiting" /\ \A v \in Upload : up[v].of # d
    BY DEF UploadBegins
<1>2. CASE late[d]
    <2>1. Spared /\ Dropped
        BY <1>2 DEF UploadBegins, Spared, Dropped, Expired, Emptied, Final
    <2> QED
        BY <2>1, WaitsSpared
<1>3. CASE ~late[d]
    <2>1. /\ archive' = [archive EXCEPT ![d] = [by |-> u, whole |-> FALSE]]
          /\ up' = [up EXCEPT ![u] = [at |-> "receiving", of |-> d]]
          /\ state' = state
        BY <1>3 DEF UploadBegins
    <2>2. /\ up'[u] = [at |-> "receiving", of |-> d]
          /\ \A v \in Upload \ {u} : up'[v] = up[v]
          /\ archive'[d] = [by |-> u, whole |-> FALSE]
          /\ \A e \in Dep \ {d} : archive'[e] = archive[e]
        BY <2>1 DEF TypeOK
    <2>3. Alone'
        BY <1>1, <2>2 DEF Waits, Alone
    <2>4. Mine'
        <3> SUFFICES ASSUME NEW v \in Upload, up'[v].at = "receiving"
                     PROVE  /\ state'[up'[v].of] \notin {"none", "running"}
                            /\ state'[up'[v].of] = "awaiting" => archive'[up'[v].of].by = v
            BY DEF Mine
        <3>1. CASE v = u
            BY <1>1, <2>1, <2>2, <3>1
        <3>2. CASE v # u
            <4>1. up'[v] = up[v] /\ up[v].of \in Dep \ {d}
                BY <1>1, <2>2, <3>2 DEF TypeOK, Uploads, Followed
            <4> QED
                BY <2>1, <2>2, <4>1 DEF Waits, Mine
        <3> QED
            BY <3>1, <3>2
    <2>5. Whole'
        BY <1>1, <2>1, <2>2 DEF Waits, Whole
    <2> QED
        BY <2>3, <2>4, <2>5 DEF Waits
<1> QED
    BY <1>2, <1>3

(* An upload that receives, alone, of a deployment that does not run yet:  *)
(* its end touches that deployment only.                                   *)
LEMMA UploadEndsWaits ==
    ASSUME TypeOK, Followed, Waits, NEW u \in Upload, UploadFails(u) \/ UploadReceived(u)
    PROVE  Waits'
<1> DEFINE d == up[u].of
<1>1. /\ up[u].at = "receiving" /\ d \in Dep
      /\ state[d] \notin {"none", "running"}
      /\ state[d] = "awaiting" => archive[d].by = u
    BY DEF UploadFails, UploadReceived, TypeOK, Uploads, Followed, Waits, Mine
<1>2. \A v \in Upload \ {u} : up[v].of # d
    BY <1>1 DEF Waits, Alone
<1>3. /\ up'[u] \in {NoUploading, [at |-> "deploying", of |-> d]}
      /\ \A v \in Upload \ {u} : up'[v] = up[v]
    BY DEF UploadFails, UploadReceived, TypeOK
<1>4. \/ /\ archive' = Emptied({d})
         /\ state' = state
      \/ /\ state[d] = "awaiting"
         /\ archive' = Completed(u, d)
         /\ state' = [state EXCEPT ![d] = "running"]
    <2>1. CASE UploadFails(u)
        BY <2>1 DEF UploadFails, table
    <2>2. CASE UploadReceived(u)
        BY <2>2 DEF UploadReceived, MarkRunning
    <2> QED
        BY <2>1, <2>2
<1>5. /\ \A e \in Dep \ {d} : state'[e] = state[e] /\ archive'[e] = archive[e]
      /\ state'[d] = "running" => archive'[d].whole
    <2>1. CASE archive' = Emptied({d}) /\ state' = state
        BY <1>1, <2>1 DEF Emptied
    <2>2. CASE /\ state[d] = "awaiting"
               /\ archive' = Completed(u, d)
               /\ state' = [state EXCEPT ![d] = "running"]
        <3>1. /\ archive'[d] = [by |-> u, whole |-> TRUE]
              /\ \A e \in Dep \ {d} : archive'[e] = archive[e]
            BY <1>1, <2>2 DEF Completed, TypeOK
        <3> QED
            BY <1>1, <2>2, <3>1 DEF TypeOK
    <2> QED
        BY <1>4, <2>1, <2>2
<1> HIDE DEF d
<1>6. Alone'
    BY <1>2, <1>3 DEF Waits, Alone, NoUploading
<1>7. Mine'
    <2> SUFFICES ASSUME NEW v \in Upload, up'[v].at = "receiving"
                 PROVE  /\ state'[up'[v].of] \notin {"none", "running"}
                        /\ state'[up'[v].of] = "awaiting" => archive'[up'[v].of].by = v
        BY DEF Mine
    <2>1. v # u /\ up'[v] = up[v]
        BY <1>3 DEF NoUploading
    <2>2. up[v].of \in Dep \ {d}
        BY <1>2, <2>1 DEF TypeOK, Uploads, Followed
    <2> QED
        BY <1>5, <2>1, <2>2 DEF Waits, Mine
<1>8. Whole'
    BY <1>5 DEF Waits, Whole
<1> QED
    BY <1>6, <1>7, <1>8 DEF Waits

LEMMA NextWaits ==
    ASSUME Overlap = FALSE, TypeOK, Followed, Waits, Next
    PROVE  Waits'
<1>1. ASSUME NEW d \in Dep, CreateDeployment(d) \/ \E u \in Upload : UploadBegins(u, d)
      PROVE  Waits'
    BY <1>1, CreateWaits, UploadBeginsWaits
<1>2. ASSUME NEW u \in Upload, UploadFails(u) \/ UploadReceived(u) PROVE Waits'
    BY <1>2, UploadEndsWaits
<1>3. ASSUME NEW u \in Upload, UploadAccepted(u) \/ UploadRefused(u) PROVE Waits'
    <2>1. Dropped
        BY <1>3 DEF UploadAccepted, UploadRefused, Dropped, TypeOK
    <2>2. up[u].of \in Dep
        BY <1>3 DEF UploadAccepted, UploadRefused, TypeOK, Uploads, Followed
    <2>3. CASE UploadRefused(u)
        <3>1. Spared
            BY <2>2, <2>3, ConcludeSpares DEF UploadRefused
        <3> QED
            BY <2>1, <3>1, WaitsSpared
    <2>4. CASE UploadAccepted(u)
        <3>1. Spared
            BY <2>4 DEF UploadAccepted, table, Spared
        <3> QED
            BY <2>1, <3>1, WaitsSpared
    <2> QED
        BY <1>3, <2>3, <2>4
<1>4. ASSUME NEW r \in Reader, ReadApplies(r) PROVE Waits'
    <2>1. reader[r].of \in Dep /\ up' = up
        BY <1>4 DEF ReadApplies, TypeOK, Readings
    <2>2. Spared
        <3>1. CASE reader[r].answer \in Final
            <4>1. reader[r].answer \in {"succeeded", "failed"}
                BY <3>1 DEF TypeOK, Readings, Found, Answers, Final
            <4> QED
                BY <1>4, <2>1, <3>1, <4>1, ConcludeSpares DEF ReadApplies
        <3>2. CASE reader[r].answer \notin Final
            BY <1>4, <3>2 DEF ReadApplies, Spared
        <3> QED
            BY <3>1, <3>2
    <2> QED
        BY <2>1, <2>2, WaitsSpared DEF Dropped
<1>5. ASSUME NEW d \in Dep, TickApplies(d) PROVE Waits'
    <2> DEFINE how == Verdict(tick.answer, d \in tick.overdue)
    <2>1. up' = up /\ (how = "none" \/ how \in {"succeeded", "failed"})
        BY <1>5, RoundFields DEF TickApplies, Verdict, Final, Found, Answers
    <2>2. Spared
        <3>1. CASE how = "none"
            BY <1>5, <3>1 DEF TickApplies, Spared
        <3>2. CASE how # "none"
            BY <1>5, <2>1, <3>2, ConcludeSpares DEF TickApplies
        <3> QED
            BY <3>1, <3>2
    <2> QED
        BY <2>1, <2>2, WaitsSpared DEF Dropped
<1>6. CASE TickBegins \/ TickEnds
    <2>1. up' = up
        BY <1>6 DEF TickBegins, TickEnds
    <2>2. Spared
        BY <1>6 DEF TickBegins, TickEnds, Spared, Expired, Emptied, Leftovers, table, Final, TypeOK
    <2> QED
        BY <2>1, <2>2, WaitsSpared DEF Dropped
<1>7. ASSUME NEW d \in Dep,
             \/ \E r \in Reader : ReadAsks(r, d)
             \/ TickAsks(d) \/ TickJudges(d) \/ TickUnanswered(d)
             \/ StewardStarts(d) \/ StewardRefuses(d)
             \/ InstallerMoves(d) \/ TimePasses(d)
      PROVE  Waits'
    <2>1. UNCHANGED <<state, archive, up>>
        BY <1>7 DEF ReadAsks, TickAsks, TickJudges, TickUnanswered, StewardStarts, StewardRefuses, InstallerMoves,
                    InstallerReports, InstallerExtracts, InstallerEnds, InstallerKilled, TimePasses,
                    table, handlers
    <2> QED
        BY <2>1, WaitsSpared DEF Spared, Dropped
<1>9. ASSUME NEW r \in Reader, ReadJudges(r) PROVE Waits'
    BY <1>9, WaitsSpared DEF ReadJudges, table, Spared, Dropped
<1>8. CASE \/ DashboardRestarts \/ MachineReboots
           \/ \E d \in Dep, how \in {"succeeded", "failed"} : DashboardCutShort(d, how)
    <2>1. Dropped
        BY <1>8 DEF DashboardRestarts, MachineReboots, DashboardCutShort, HandlersLost, Dropped
    <2>2. Spared
        BY <1>8 DEF DashboardRestarts, MachineReboots, DashboardCutShort, table, Spared, Final, TypeOK
    <2> QED
        BY <2>1, <2>2, WaitsSpared
<1> QED
    BY <1>1, <1>2, <1>3, <1>4, <1>5, <1>6, <1>7, <1>8, <1>9 DEF Next

(* When the uploads of one deployment do not overlap, a running deployment *)
(* whose installer has yet to read its archive finds it whole in the spool, *)
(* whatever is refused, killed or restarted, and whoever sweeps (spool.ts). *)
THEOREM ArchiveIsThere == ASSUME Overlap = FALSE PROVE Spec => []ArchiveWaits
<1>1. Init => IInv /\ Waits
    <2>1. Init => Waits
        BY DEF Init, Waits, Alone, Mine, Whole, NoUploading
    <2> QED
        BY <2>1, InitInv
<1>2. IInv /\ Waits /\ [Next]_vars => IInv' /\ Waits'
    <2>1. IInv /\ Waits /\ Next => Waits'
        BY NextWaits DEF IInv
    <2>2. Waits /\ UNCHANGED vars => Waits'
        BY DEF vars, Waits, Alone, Mine, Whole
    <2> QED
        BY <2>1, <2>2, NextInv
<1>3. Waits => ArchiveWaits
    BY DEF Waits, Whole, ArchiveWaits
<1> QED
    BY <1>1, <1>2, <1>3, PTL DEF Spec
==============================================================================
