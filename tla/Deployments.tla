---------------------------- MODULE Deployments ----------------------------
(***************************************************************************)
(* The deployments of the control API: the dashboard's table of them, its  *)
(* spool of archives, the requests that open, feed and read a deployment,  *)
(* the tracker that follows them every few seconds, the steward that       *)
(* starts an installer, and the installer's result.                        *)
(*                                                                         *)
(* A request runs from one await to the next in one step: authentication   *)
(* comes first and touches nothing, so an upload is begun, then received,  *)
(* then answered; a reading has the steward read the result, then ask of   *)
(* its unit when it is still running, then applies what was said. How long *)
(* ago such a result was written is left out: its unit is always asked of. *)
(* Clocks are abstracted to one bit per deployment, `late`: a waiting one  *)
(* is past its upload window, a running one past the installer's grace.    *)
(* Which token and which project an identifier is drawn for is fixed by    *)
(* TokenOf and SlugOf: an identifier is drawn at random and used once.     *)
(***************************************************************************)
EXTENDS Naturals, Sequences, FiniteSets

CONSTANTS
    Dep,          \* deployment identifiers
    Slug,         \* projects
    TokenOf,      \* the token that opens each identifier
    SlugOf,       \* the project each identifier is of
    Upload,       \* requests that may carry an archive at the same time
    Reader,       \* requests that may read a deployment at the same time
    NoDep,
    NoUpload,
    MaxRunning,   \* MAX_RUNNING
    MaxAwaiting,  \* MAX_AWAITING_PER_TOKEN
    MaxKills,     \* bound: how often the dashboard or the machine stops
    Overlap,      \* TRUE: two uploads of one deployment may overlap
    LostAnswers   \* TRUE: calls to the steward may outlast their 20 seconds

ASSUME NumbersAssumption ==
    /\ MaxRunning \in Nat \ {0}
    /\ MaxAwaiting \in Nat \ {0}
    /\ MaxKills \in Nat
ASSUME FiniteAssumption == IsFiniteSet(Dep)
ASSUME KindsAssumption ==
    /\ SlugOf \in [Dep -> Slug]
    /\ NoDep \notin Dep
    /\ NoUpload \notin Upload
    /\ Overlap \in BOOLEAN
    /\ LostAnswers \in BOOLEAN

VARIABLES
    state,    \* the table: each deployment's state
    born,     \* the table: the order they were created in
    late,     \* past its upload window, or past the installer's grace
    told,     \* the audit: the ends recorded of each deployment
    archive,  \* the spool: whose upload wrote the file there, and if it is whole
    up,       \* the uploads under way
    reader,   \* the readings under way
    tick,     \* the tracker's round
    call,     \* the steward's `deploy` of each deployment
    unit,     \* which deployment each project's installer unit runs
    result,   \* the installer's result, on tmpfs
    progress, \* how far the installer really went
    kills     \* stops of the dashboard or the machine so far

table == <<state, born, late>>
handlers == <<up, reader, tick>>
machine == <<unit, result, progress>>
vars == <<state, born, late, told, archive, up, reader, tick, call, unit,
          result, progress, kills>>

Active == {"awaiting", "running"}
Final == {"succeeded", "failed", "expired"}
Answers == {"absent", "running", "succeeded", "failed"}
States == {"none"} \cup Active \cup Final

Folders == [by : Upload \cup {NoUpload}, whole : BOOLEAN]
Uploads == [at : {"idle", "receiving", "deploying"}, of : Dep \cup {NoDep}]
\* What the steward has found: a result `unsure` is running, its unit unasked.
Found == Answers \cup {"unsure"}
Readings == [of : Dep \cup {NoDep}, answer : Found]
Rounds == [at : {"idle", "polling"}, left : SUBSET Dep, overdue : SUBSET Dep,
           asked : Dep \cup {NoDep}, answer : Found]

NoArchive == [by |-> NoUpload, whole |-> FALSE]
NoUploading == [at |-> "idle", of |-> NoDep]
NoReading == [of |-> NoDep, answer |-> "absent"]
NoTick == [at |-> "idle", left |-> {}, overdue |-> {}, asked |-> NoDep,
           answer |-> "absent"]
Round(left, overdue, asked, answer) ==
    [at |-> "polling", left |-> left, overdue |-> overdue, asked |-> asked,
     answer |-> answer]

InState(s) == {d \in Dep : state[d] = s}

TypeOK ==
    /\ state \in [Dep -> States]
    /\ born \in [Dep -> Nat]
    /\ late \in [Dep -> BOOLEAN]
    /\ told \in [Dep -> Seq({"succeeded", "failed"})]
    /\ archive \in [Dep -> Folders]
    /\ up \in [Upload -> Uploads]
    /\ reader \in [Reader -> Readings]
    /\ tick \in Rounds
    /\ call \in [Dep -> {"none", "sent", "accepted", "refused"}]
    /\ unit \in [Slug -> Dep \cup {NoDep}]
    /\ result \in [Dep -> Answers]
    /\ progress \in [Dep -> {"none", "extracted", "deployed"}]
    /\ kills \in Nat

Init ==
    /\ state = [d \in Dep |-> "none"]
    /\ born = [d \in Dep |-> 0]
    /\ late = [d \in Dep |-> FALSE]
    /\ told = [d \in Dep |-> << >>]
    /\ archive = [d \in Dep |-> NoArchive]
    /\ up = [u \in Upload |-> NoUploading]
    /\ reader = [r \in Reader |-> NoReading]
    /\ tick = NoTick
    /\ call = [d \in Dep |-> "none"]
    /\ unit = [s \in Slug |-> NoDep]
    /\ result = [d \in Dep |-> "absent"]
    /\ progress = [d \in Dep |-> "none"]
    /\ kills = 0

-----------------------------------------------------------------------------
(* The table and the spool.                                                *)

(* The states with those of `gone` finished as expired, and the spool      *)
(* without their folders.                                                  *)
Expired(gone) == [d \in Dep |-> IF d \in gone THEN "expired" ELSE state[d]]
Emptied(gone) == [d \in Dep |-> IF d \in gone THEN NoArchive ELSE archive[d]]

(* Slip: the end is recorded whatever the row's state.                     *)
ConcludeAgain(d, how) ==
    /\ state' = [state EXCEPT ![d] = how]
    /\ told' = [told EXCEPT ![d] = Append(@, how)]
    /\ archive' = [archive EXCEPT ![d] = NoArchive]

(* The archive is whole, if the folder's file is the one this upload opened. *)
Completed(u, d) ==
    [archive EXCEPT ![d] = IF @.by = u THEN [by |-> u, whole |-> TRUE] ELSE @]

(* How a deployment's end is recorded, by whoever sees it first: only the  *)
(* transition itself is audited, and empties the spool.                    *)
Conclude(d, how) ==
    IF state[d] \in Active
    THEN /\ state' = [state EXCEPT ![d] = how]
         /\ told' = [told EXCEPT ![d] = Append(@, how)]
         /\ archive' = [archive EXCEPT ![d] = NoArchive]
    ELSE UNCHANGED <<state, told, archive>>

(* Is there room for one more running deployment on the machine?           *)
Room == Cardinality(InState("running")) < MaxRunning

(* Slip: a project's deployment still waiting for its archive is not seen. *)
RunningInTheWay(d) == {e \in Dep : SlugOf[e] = SlugOf[d] /\ state[e] = "running"}

(* The deployments of the same project a new one finds in its way, and     *)
(* those of them it may replace.                                           *)
InTheWay(d) == {e \in Dep : SlugOf[e] = SlugOf[d] /\ state[e] \in Active}
Replaceable(d) ==
    {e \in InTheWay(d) : /\ state[e] = "awaiting"
                         /\ TokenOf[e] = TokenOf[d] \/ late[e]}

(* Of the same token's other waiting ones, all but its MaxAwaiting - 1     *)
(* newest.                                                                 *)
Surplus(d) ==
    LET waiting == {e \in InState("awaiting") \ InTheWay(d) :
                        TokenOf[e] = TokenOf[d]}
    IN {e \in waiting : Cardinality({f \in waiting : born[f] > born[e]})
                            >= MaxAwaiting - 1}

-----------------------------------------------------------------------------
(* The requests.                                                           *)

(* POST /deployments, once the steward's preflight has answered. What it   *)
(* replaces is expired before the machine's room is looked at.             *)
CreateDeployment(d) ==
    LET gone == InTheWay(d) \cup Surplus(d)
    IN /\ state[d] = "none"
       /\ InTheWay(d) \subseteq Replaceable(d)
       /\ archive' = Emptied(gone)
       /\ \/ /\ Room
             /\ state' = [Expired(gone) EXCEPT ![d] = "awaiting"]
             /\ born' = [born EXCEPT ![d] = 1 + Cardinality(Dep \ InState("none"))]
          \/ /\ ~Room
             /\ gone # {}
             /\ state' = Expired(gone)
             /\ UNCHANGED born
       /\ UNCHANGED <<late, told, handlers, call, machine, kills>>

(* PUT /deployments/<id>/bundle, up to the body's first byte: the window   *)
(* is judged, then the folder made anew.                                   *)
UploadBegins(u, d) ==
    /\ up[u].at = "idle"
    /\ state[d] = "awaiting"
    /\ Overlap \/ \A v \in Upload : up[v].of # d
    /\ IF late[d]
       THEN /\ state' = Expired({d})
            /\ archive' = Emptied({d})
            /\ UNCHANGED up
       ELSE /\ archive' = [archive EXCEPT ![d] = [by |-> u, whole |-> FALSE]]
            /\ up' = [up EXCEPT ![u] = [at |-> "receiving", of |-> d]]
            /\ UNCHANGED state
    /\ UNCHANGED <<born, late, told, reader, tick, call, machine, kills>>

(* The body is interrupted, empty, too large or no gzip: the folder goes,  *)
(* whoever's file it holds.                                                *)
UploadFails(u) ==
    /\ up[u].at = "receiving"
    /\ archive' = Emptied({up[u].of})
    /\ up' = [up EXCEPT ![u] = NoUploading]
    /\ UNCHANGED <<table, told, reader, tick, call, machine, kills>>

(* One statement: the deployment still waits, and there is room.           *)
MarkRunning(d) == state[d] = "awaiting" /\ Room

(* The body has arrived whole, in the file this upload opened: the machine *)
(* takes the deployment, and the steward is called; or the folder goes.    *)
UploadReceived(u) ==
    LET d == up[u].of
    IN /\ up[u].at = "receiving"
       /\ IF MarkRunning(d)
          THEN /\ state' = [state EXCEPT ![d] = "running"]
               /\ late' = [late EXCEPT ![d] = FALSE]
               /\ call' = [call EXCEPT ![d] = "sent"]
               /\ up' = [up EXCEPT ![u] = [at |-> "deploying", of |-> d]]
               /\ archive' = Completed(u, d)
          ELSE /\ archive' = Emptied({d})
               /\ up' = [up EXCEPT ![u] = NoUploading]
               /\ UNCHANGED <<state, late, call>>
       /\ UNCHANGED <<born, told, reader, tick, machine, kills>>

(* The steward answered 202: the start is audited, the client answered.    *)
UploadAccepted(u) ==
    /\ up[u].at = "deploying"
    /\ call[up[u].of] = "accepted"
    /\ up' = [up EXCEPT ![u] = NoUploading]
    /\ UNCHANGED <<table, told, archive, reader, tick, call, machine, kills>>

(* The steward refused, or gave no answer within the delay: the deployment *)
(* is recorded as failed.                                                  *)
UploadRefused(u) ==
    /\ up[u].at = "deploying"
    /\ call[up[u].of] = "refused" \/ LostAnswers
    /\ Conclude(up[u].of, "failed")
    /\ up' = [up EXCEPT ![u] = NoUploading]
    /\ UNCHANGED <<born, late, reader, tick, call, machine, kills>>

\* deploymentResult: the result as it is read.
Heard(d) == IF result[d] = "running" THEN "unsure" ELSE result[d]

(* Slip: a unit that has ended is taken for a deployment that succeeded.   *)
JudgedByUnit(d) == IF unit[SlugOf[d]] = NoDep THEN "succeeded" ELSE "running"

(* `stopped`, after the result was read running: with no unit of the       *)
(* project active, its installer is taken for stopped half way.            *)
Judged(d) == IF unit[SlugOf[d]] = NoDep THEN "failed" ELSE "running"

(* GET /deployments/<id>: a running row is judged by what the steward says *)
(* of it, applied once the answer is there.                                *)
ReadAsks(r, d) ==
    /\ reader[r].of = NoDep
    /\ state[d] = "running"
    /\ reader' = [reader EXCEPT ![r] = [of |-> d, answer |-> Heard(d)]]
    /\ UNCHANGED <<table, told, archive, up, tick, call, machine, kills>>

ReadJudges(r) ==
    /\ reader[r].of # NoDep /\ reader[r].answer = "unsure"
    /\ reader' = [reader EXCEPT ![r] = [of |-> @.of, answer |-> Judged(@.of)]]
    /\ UNCHANGED <<table, told, archive, up, tick, call, machine, kills>>

ReadApplies(r) ==
    LET d == reader[r].of
    IN /\ d # NoDep /\ reader[r].answer # "unsure"
       /\ IF reader[r].answer \in Final
          THEN Conclude(d, reader[r].answer)
          ELSE UNCHANGED <<state, told, archive>>
       /\ reader' = [reader EXCEPT ![r] = NoReading]
       /\ UNCHANGED <<born, late, up, tick, call, machine, kills>>

-----------------------------------------------------------------------------
(* The tracker: one round at a time.                                       *)

(* The waiting deployments past their window expire, and the running ones  *)
(* are listed, with those already past the installer's grace.              *)
TickBegins ==
    LET gone == {d \in InState("awaiting") : late[d]}
    IN /\ tick.at = "idle"
       /\ state' = Expired(gone)
       /\ archive' = Emptied(gone)
       /\ tick' = Round(InState("running"),
                        {d \in InState("running") : late[d]}, NoDep, "absent")
       /\ UNCHANGED <<born, late, told, up, reader, call, machine, kills>>

TickAsks(d) ==
    /\ tick.at = "polling"
    /\ tick.asked = NoDep
    /\ d \in tick.left
    /\ tick' = Round(tick.left, tick.overdue, d, Heard(d))
    /\ UNCHANGED <<table, told, archive, up, reader, call, machine, kills>>

TickJudges(d) ==
    /\ tick.asked = d /\ tick.answer = "unsure"
    /\ tick' = Round(tick.left, tick.overdue, d, Judged(d))
    /\ UNCHANGED <<table, told, archive, up, reader, call, machine, kills>>

(* Slip: a result that never comes is waited for.                          *)
VerdictPatient(answer, overdue) == IF answer \in Final THEN answer ELSE "none"

(* What a round concludes of a deployment from the steward's answer: its   *)
(* final result, a failure when there is none past the grace, or nothing.  *)
Verdict(answer, overdue) ==
    IF answer \in Final THEN answer
    ELSE IF answer = "absent" /\ overdue THEN "failed" ELSE "none"

TickApplies(d) ==
    LET how == Verdict(tick.answer, d \in tick.overdue)
    IN /\ tick.asked = d /\ tick.answer # "unsure"
       /\ IF how = "none" THEN UNCHANGED <<state, told, archive>>
                          ELSE Conclude(d, how)
       /\ tick' = Round(tick.left \ {d}, tick.overdue, NoDep, "absent")
       /\ UNCHANGED <<born, late, up, reader, call, machine, kills>>

(* The steward does not answer: the next round asks again.                 *)
TickUnanswered(d) ==
    /\ LostAnswers
    /\ tick.at = "polling"
    /\ tick.asked = NoDep
    /\ d \in tick.left
    /\ tick' = Round(tick.left \ {d}, tick.overdue, NoDep, "absent")
    /\ UNCHANGED <<table, told, archive, up, reader, call, machine, kills>>

(* Slip: only what runs is in use.                                         *)
LeftoversButRunning == {d \in Dep : state[d] # "running"}

(* Slip: the folders are removed with their rows' ends, and only then.     *)
NoLeftovers == {}

(* What the spool holds for nobody: an archive no one will install.        *)
Leftovers == {d \in Dep : state[d] \notin Active}

(* The round ends by sweeping the spool.                                   *)
TickEnds ==
    /\ tick.at = "polling"
    /\ tick.asked = NoDep
    /\ tick.left = {}
    /\ archive' = Emptied(Leftovers)
    /\ tick' = NoTick
    /\ UNCHANGED <<table, told, up, reader, call, machine, kills>>

-----------------------------------------------------------------------------
(* The steward and the installer.                                          *)

(* `deploy`: an identifier is used once, and the project's unit is free.   *)
(* The call goes on in the steward when nobody waits for its answer.       *)
StewardStarts(d) ==
    /\ call[d] = "sent"
    /\ result[d] = "absent"
    /\ unit[SlugOf[d]] = NoDep
    /\ call' = [call EXCEPT ![d] = "accepted"]
    /\ unit' = [unit EXCEPT ![SlugOf[d]] = d]
    /\ UNCHANGED <<table, told, archive, handlers, result, progress, kills>>

(* Refused: the unit is busy, the token's rights are gone, the project is  *)
(* being changed by the owner, the steward stopped...                      *)
StewardRefuses(d) ==
    /\ call[d] = "sent"
    /\ call' = [call EXCEPT ![d] = "refused"]
    /\ UNCHANGED <<table, told, archive, handlers, machine, kills>>

(* The installer writes its first line, its result running.                *)
InstallerReports(d) ==
    /\ unit[SlugOf[d]] = d
    /\ result[d] = "absent"
    /\ result' = [result EXCEPT ![d] = "running"]
    /\ UNCHANGED <<table, told, archive, handlers, call, unit, progress, kills>>

(* It extracts the archive it finds in the spool.                          *)
InstallerExtracts(d) ==
    /\ unit[SlugOf[d]] = d
    /\ result[d] = "running"
    /\ progress[d] = "none"
    /\ archive[d].whole
    /\ progress' = [progress EXCEPT ![d] = "extracted"]
    /\ UNCHANGED <<table, told, archive, handlers, call, unit, result, kills>>

(* It writes its final result and its unit ends: a success only of an      *)
(* archive extracted, a failure at any stage.                              *)
InstallerEnds(d, how) ==
    /\ unit[SlugOf[d]] = d
    /\ result[d] = "running"
    /\ how = "succeeded" => progress[d] = "extracted"
    /\ result' = [result EXCEPT ![d] = how]
    /\ unit' = [unit EXCEPT ![SlugOf[d]] = NoDep]
    /\ progress' = IF how = "succeeded"
                   THEN [progress EXCEPT ![d] = "deployed"] ELSE progress
    /\ UNCHANGED <<table, told, archive, handlers, call, kills>>

(* Its unit is stopped half way, by its delay or its memory: its result    *)
(* stays as it was.                                                        *)
InstallerKilled(d) ==
    /\ unit[SlugOf[d]] = d
    /\ unit' = [unit EXCEPT ![SlugOf[d]] = NoDep]
    /\ UNCHANGED <<table, told, archive, handlers, call, result, progress, kills>>

-----------------------------------------------------------------------------
(* Time and crashes.                                                       *)

(* A waiting deployment outlives its window, a running one the grace: the  *)
(* dashboard has long stopped waiting for the steward (20 s against 90),   *)
(* and an installer started has long written its first line.               *)
TimePasses(d) ==
    /\ ~late[d]
    /\ \/ state[d] = "awaiting"
       \/ /\ state[d] = "running"
          /\ \A u \in Upload : up[u] # [at |-> "deploying", of |-> d]
          /\ unit[SlugOf[d]] = d => result[d] # "absent"
    /\ late' = [late EXCEPT ![d] = TRUE]
    /\ UNCHANGED <<state, born, told, archive, handlers, call, machine, kills>>

(* What the dashboard's process loses when it stops: the requests under    *)
(* way and the tracker's round.                                            *)
HandlersLost ==
    /\ kills < MaxKills
    /\ kills' = kills + 1
    /\ up' = [u \in Upload |-> NoUploading]
    /\ reader' = [r \in Reader |-> NoReading]
    /\ tick' = NoTick

(* The dashboard stops and starts again; a call it had just decided may    *)
(* never have left.                                                        *)
DashboardRestarts ==
    /\ HandlersLost
    /\ \E unsent \in SUBSET {d \in Dep : call[d] = "sent"} :
          call' = [d \in Dep |-> IF d \in unsent THEN "none" ELSE call[d]]
    /\ UNCHANGED <<table, told, archive, machine>>

(* The end some request or round is about to record of a deployment.       *)
AboutToRecord(d, how) ==
    \/ tick.asked = d /\ how = Verdict(tick.answer, d \in tick.overdue)
    \/ \E r \in Reader : reader[r].of = d /\ how = Verdict(reader[r].answer, FALSE)
    \/ \E u \in Upload : /\ up[u] = [at |-> "deploying", of |-> d]
                         /\ call[d] = "refused"
                         /\ how = "failed"

(* It stops between the row's transition and the rest: the end is in the   *)
(* table, not in the audit, and the folder is left.                        *)
DashboardCutShort(d, how) ==
    /\ HandlersLost
    /\ state[d] \in Active
    /\ AboutToRecord(d, how)
    /\ state' = [state EXCEPT ![d] = how]
    /\ UNCHANGED <<born, late, told, archive, call, machine>>

(* The machine restarts: the database and the spool are on disk, the       *)
(* results on tmpfs, and every process is gone.                            *)
MachineReboots ==
    /\ HandlersLost
    /\ call' = [d \in Dep |-> "none"]
    /\ unit' = [s \in Slug |-> NoDep]
    /\ result' = [d \in Dep |-> "absent"]
    /\ UNCHANGED <<table, told, archive, progress>>

-----------------------------------------------------------------------------
InstallerMoves(d) ==
    \/ InstallerReports(d)
    \/ InstallerExtracts(d)
    \/ \E how \in {"succeeded", "failed"} : InstallerEnds(d, how)
    \/ InstallerKilled(d)

Next ==
    \/ \E d \in Dep :
          \/ CreateDeployment(d)
          \/ \E u \in Upload : UploadBegins(u, d)
          \/ \E r \in Reader : ReadAsks(r, d)
          \/ TickAsks(d)
          \/ TickJudges(d)
          \/ TickApplies(d)
          \/ TickUnanswered(d)
          \/ StewardStarts(d)
          \/ StewardRefuses(d)
          \/ InstallerMoves(d)
          \/ TimePasses(d)
          \/ \E how \in {"succeeded", "failed"} : DashboardCutShort(d, how)
    \/ \E u \in Upload : \/ UploadFails(u)
                         \/ UploadReceived(u)
                         \/ UploadAccepted(u)
                         \/ UploadRefused(u)
    \/ \E r \in Reader : ReadJudges(r) \/ ReadApplies(r)
    \/ TickBegins
    \/ TickEnds
    \/ DashboardRestarts
    \/ MachineReboots

Spec == Init /\ [][Next]_vars

(* The tracker's timer, the steward's answers, the delays, systemd's bound *)
(* on the installer, and the clock. An upload need never end.              *)
Fairness ==
    /\ WF_vars(TickBegins)
    /\ WF_vars(TickEnds)
    /\ WF_vars(\E d \in Dep : TickAsks(d))
    /\ WF_vars(\E d \in Dep : TickJudges(d) \/ TickApplies(d))
    /\ \A d \in Dep : /\ WF_vars(StewardStarts(d) \/ StewardRefuses(d))
                      /\ WF_vars(InstallerMoves(d))
                      /\ WF_vars(TimePasses(d))
    /\ \A u \in Upload : WF_vars(UploadAccepted(u) \/ UploadRefused(u))

FairSpec == Spec /\ Fairness

-----------------------------------------------------------------------------
(* Safety.                                                                 *)

(* A project never has two deployments waiting or running, whichever       *)
(* tokens open them: api.ts createDeployment.                              *)
OneActivePerSlug ==
    \A d, e \in Dep : /\ SlugOf[d] = SlugOf[e]
                      /\ state[d] \in Active
                      /\ state[e] \in Active
                      => d = e

(* A deployment reported as succeeded was really put in service by its own *)
(* installer: no result, or a cut one, is never read as a success.         *)
SuccessIsReal == \A d \in Dep : state[d] = "succeeded" => progress[d] = "deployed"

(* A running deployment whose installer has yet to read its archive finds  *)
(* it whole in the spool, where "the archives wait for the installer".     *)
ArchiveWaits ==
    \A d \in Dep : /\ state[d] = "running"
                   /\ progress[d] = "none"
                   /\ result[d] = "absent" \/ unit[SlugOf[d]] = d
                   => archive[d].whole

(* The table and the audit do what DeploymentBook promises: forward only,  *)
(* bounded, each end audited once and with its transition, whatever was    *)
(* stopped before.  Only a step that stops the dashboard or the machine    *)
(* need not: it may fall between a row's last transition and its entry     *)
(* (tracker.ts, settle).                                                   *)
Book == INSTANCE DeploymentBook
FollowsBook == Book!Init /\ [][kills' = kills => Book!Next]_<<state, told>>

-----------------------------------------------------------------------------
(* Liveness, under FairSpec.                                               *)

(* Every deployment opened ends, though its client never uploads, its      *)
(* installer is killed, or the dashboard or the machine stops on the way.  *)
EveryDeploymentEnds ==
    \A d \in Dep : state[d] = "awaiting" ~> state[d] \in Final

(* The spool is emptied of every deployment that has ended.                *)
SpoolEmptied ==
    \A d \in Dep : state[d] \in Final ~> archive[d] = NoArchive
=============================================================================
