------------------------------- MODULE Monitor -------------------------------
(***************************************************************************)
(* The monitor: a process the timer starts every minute, which judges each *)
(* check of the machine, remembers in state.json what it said, and sends   *)
(* the webhook one message of what changed.                                *)
(*                                                                         *)
(* A pass reads the memory, judges and writes the memory with its notices  *)
(* in one step: killed before that write it leaves no trace. The message,  *)
(* and the second write, are steps of their own. Dates are abstracted: a   *)
(* failure is dated by its number, each being later than the ones before.  *)
(* A check of a kind the pass could not read as a whole is one that is     *)
(* unknown: both leave what is remembered as it was.                       *)
(***************************************************************************)
EXTENDS Naturals, SequencesExt, FiniteSets

CONSTANTS
    Check,        \* the ids of the checks
    Caddy,        \* the check of Caddy itself
    Site,         \* the checks probed through Caddy
    MaxFailures   \* bound: how many failures begin, of all the checks

ASSUME ChecksAssumption ==
    /\ Caddy \in Check
    /\ Site \subseteq Check \ {Caddy}
    /\ MaxFailures \in Nat

FAIL_AFTER == 2
RECOVER_AFTER == 2
FAIL_WITHIN == 3
WINDOW == 5

VARIABLES
    checks,   \* state.json: what is remembered of each check, or Gone
    outbox,   \* state.json: the notices the webhook has not taken
    pass,     \* the pass under way: its step, its outbox, what was delivered
    heard,    \* the notices that arrived at the other end
    began,    \* how many failures of each check began
    forgone   \* the failures whose notices were dropped, by age or with the memory

monitorVars == <<checks, outbox, pass, heard, began, forgone>>

Verdicts == {"ok", "fail", "unknown", "absent"}
Statuses == {"ok", "failing", "down", "recovering"}
Notices == [event : {"down", "recovered", "cleared"}, id : Check, since : 1..MaxFailures]
Tracked == [status : Statuses, streak : 0..1, since : 0..MaxFailures,
            recent : UNION {[1..n -> {"f", "o"}] : n \in 0..WINDOW}]

(* A check seen for the first time, and one that is not followed.          *)
Fresh == [status |-> "ok", streak |-> 0, since |-> 0, recent |-> << >>]
Gone == [status |-> "gone"]

NoPass == [at |-> "idle", outbox |-> {}, sent |-> {}]

MonitorTypeOK ==
    /\ checks \in [Check -> Tracked \cup {Gone}]
    /\ outbox \in SUBSET Notices
    /\ pass \in [at : {"idle", "written", "answered"}, outbox : SUBSET Notices,
                 sent : SUBSET Notices]
    /\ heard \in SUBSET Notices
    /\ began \in [Check -> 0..MaxFailures]
    /\ forgone \in SUBSET (Check \X (1..MaxFailures))

MonitorInit ==
    /\ checks = [c \in Check |-> Gone]
    /\ outbox = {}
    /\ pass = NoPass
    /\ heard = {}
    /\ began = [c \in Check |-> 0]
    /\ forgone = {}

-----------------------------------------------------------------------------
(* alerts.ts: one check, one verdict.                                      *)

Notice(event, c, since) == [event |-> event, id |-> c, since |-> since]

isDown(t) == t.status \in {"down", "recovering"}
Failures(recent) == Cardinality({i \in DOMAIN recent : recent[i] = "f"})

FromFailure(recent) == SelectInSeq(recent, LAMBDA verdict : verdict = "f")
(* The last five verdicts, from the first failure among them: the          *)
(* successes before it count for nothing.                                  *)
Slid(recent) ==
    LET five == IF Len(recent) > WINDOW THEN Tail(recent) ELSE recent
    IN IF FromFailure(five) = 0 THEN << >> ELSE SubSeq(five, FromFailure(five), Len(five))

(* What is remembered of a check before this verdict.                      *)
Before(c) == IF checks[c] = Gone THEN Fresh ELSE checks[c]

(* Once a check is down its last five verdicts are not read again: its     *)
(* recovery starts the count afresh.                                       *)
Failed(c, t) ==
    LET recent == Slid(Append(t.recent, "f"))
        streak == IF t.status = "ok" THEN 1 ELSE t.streak + 1
        since == IF t.status = "ok" THEN began[c] + 1 ELSE t.since
        due == streak >= FAIL_AFTER \/ Failures(recent) >= FAIL_WITHIN
    IN IF isDown(t) \/ due
       THEN [status |-> "down", streak |-> 0, since |-> since,
             recent |-> IF isDown(t) THEN t.recent ELSE recent]
       ELSE [status |-> "failing", streak |-> streak, since |-> since, recent |-> recent]

Passed(t) ==
    LET recent == Slid(Append(t.recent, "o"))
        streak == IF t.status = "down" THEN 1 ELSE t.streak + 1
    IN IF isDown(t)
       THEN IF streak >= RECOVER_AFTER THEN Fresh
            ELSE [t EXCEPT !.status = "recovering", !.streak = streak]
       ELSE IF t.status = "failing" /\ Failures(recent) > 0
            THEN [t EXCEPT !.streak = 0, !.recent = recent]
            ELSE Fresh

(* Slip: a verdict that is unknown ends the streak.                        *)
StepUnknownClears(c, verdict) ==
    CASE verdict = "fail"    -> Failed(c, Before(c))
      [] verdict = "ok"      -> Passed(Before(c))
      [] verdict = "unknown" -> [Before(c) EXCEPT !.streak = 0]
      [] verdict = "absent"  -> Gone

StepOf(c, verdict) ==
    CASE verdict = "fail"    -> Failed(c, Before(c))
      [] verdict = "ok"      -> Passed(Before(c))
      [] verdict = "unknown" -> Before(c)
      [] verdict = "absent"  -> Gone

(* Slip: only what still fails is said to be no longer checked.            *)
EventMissesRecovering(c, after) ==
    LET t == Before(c)
    IN CASE ~isDown(t) /\ after # Gone /\ isDown(after) -> {Notice("down", c, after.since)}
         [] isDown(t) /\ after # Gone /\ ~isDown(after) -> {Notice("recovered", c, t.since)}
         [] t.status = "down" /\ after = Gone -> {Notice("cleared", c, t.since)}
         [] OTHER -> {}

(* What is said of the change: nothing, down, recovered, or, for a check   *)
(* that was down and is not produced any more, cleared.                    *)
Event(c, after) ==
    LET t == Before(c)
    IN CASE ~isDown(t) /\ after # Gone /\ isDown(after) -> {Notice("down", c, after.since)}
         [] isDown(t) /\ after # Gone /\ ~isDown(after) -> {Notice("recovered", c, t.since)}
         [] isDown(t) /\ after = Gone -> {Notice("cleared", c, t.since)}
         [] OTHER -> {}

-----------------------------------------------------------------------------
(* run.ts: one pass.                                                       *)

(* How many failures began so far.                                         *)
Begun == FoldFunction(+, 0, began)

(* What the machine may show: with Caddy down, no site is judged, and      *)
(* Caddy's own check is always produced.                                   *)
Readings ==
    {v \in [Check -> Verdicts] :
        /\ v[Caddy] # "absent"
        /\ v[Caddy] = "fail" => \A s \in Site : v[s] \in {"unknown", "absent"}
        /\ Begun + Cardinality({c \in Check : v[c] = "fail" /\ Before(c).status = "ok"}) <= MaxFailures}

Episodes(notices) == {<<n.id, n.since>> : n \in notices}

(* Slip: the memory is written without this pass's notices, which are only *)
(* in the message.                                                         *)
WrittenWithout(kept, new) == kept

(* The outbox of the first write: the notices kept, and this pass's.       *)
Written(kept, new) == kept \cup new

(* The pass judges, and writes its memory before it sends anything. The    *)
(* notices that waited a day are let go of.                                *)
PassJudges ==
    /\ pass.at = "idle"
    /\ \E v \in Readings, stale \in SUBSET outbox :
          LET after == [c \in Check |-> StepOf(c, v[c])]
              new == UNION {Event(c, after[c]) : c \in Check}
          IN /\ checks' = after
             /\ outbox' = Written(outbox \ stale, new)
             /\ pass' = [at |-> "written", outbox |-> (outbox \ stale) \cup new, sent |-> {}]
             /\ forgone' = forgone \cup Episodes(stale)
             /\ began' = [c \in Check |->
                             IF after[c] # Gone /\ after[c].since > began[c]
                             THEN after[c].since ELSE began[c]]
    /\ UNCHANGED heard

Rank(event) == CASE event = "down" -> 0 [] event = "cleared" -> 1 [] event = "recovered" -> 2

(* The messages that may be made of an outbox: what is down first, cut     *)
(* where it no longer fits, never empty.                                   *)
Messages(notices) ==
    {s \in SUBSET notices :
        /\ s # {}
        /\ \A n \in s, m \in notices \ s : Rank(n.event) <= Rank(m.event)}

(* The webhook takes the message, and its answer arrives, or not in time.  *)
Delivered ==
    /\ pass.at = "written"
    /\ \E s \in Messages(pass.outbox) :
          /\ heard' = heard \cup s
          /\ \E answer \in {s, {}} :
                pass' = [pass EXCEPT !.at = "answered", !.sent = answer]
    /\ UNCHANGED <<checks, outbox, began, forgone>>

(* It refuses it; or there is nothing to say.                              *)
NotDelivered ==
    /\ pass.at = "written"
    /\ pass' = [pass EXCEPT !.at = "answered"]
    /\ UNCHANGED <<checks, outbox, heard, began, forgone>>

(* What is left for the next pass: all that was not delivered.             *)
Left == pass.outbox \ pass.sent

(* The memory is written again, without what was delivered.                *)
PassEnds ==
    /\ pass.at = "answered"
    /\ outbox' = Left
    /\ pass' = NoPass
    /\ UNCHANGED <<checks, heard, began, forgone>>

(* The pass is killed, by its delay or its memory, or fails to write.      *)
PassKilled ==
    /\ pass.at # "idle"
    /\ pass' = NoPass
    /\ UNCHANGED <<checks, outbox, heard, began, forgone>>

(* state.json does not read: a fresh start. What it held is let go of.     *)
MemoryLost ==
    /\ pass.at = "idle"
    /\ checks' = [c \in Check |-> Gone]
    /\ outbox' = {}
    /\ forgone' = forgone \cup Episodes(outbox)
                     \cup {<<c, checks[c].since>> : c \in {d \in Check :
                                  checks[d] # Gone /\ isDown(checks[d])}}
    /\ UNCHANGED <<pass, heard, began>>

MonitorNext == PassJudges \/ Delivered \/ NotDelivered \/ PassEnds \/ PassKilled \/ MemoryLost

MonitorSpec == MonitorInit /\ [][MonitorNext]_monitorVars

-----------------------------------------------------------------------------
(* A notice has arrived, or still waits in the memory for the next pass.   *)
Said(event, c, n) == Notice(event, c, n) \in heard \cup outbox

Closed(c, n) == Said("recovered", c, n) \/ Said("cleared", c, n)

Forgone(c, n) == <<c, n>> \in forgone

(* A check remembered as down is one the outside hears of: a pass killed   *)
(* at any step "loses no transition, the next run sends it" (run.ts).      *)
DownIsTold ==
    \A c \in Check : checks[c] # Gone /\ isDown(checks[c]) =>
        Said("down", c, checks[c].since) \/ Forgone(c, checks[c].since)

(* Whoever was told of a failure is told of its end: it lasts, or its      *)
(* recovery, or that it is no longer checked, is said, "so that nobody     *)
(* waits for a recovery that will never be announced"; and no end is said  *)
(* of a failure nobody was told of: a blink "must not cost two messages"   *)
(* (alerts.ts).                                                            *)
Lasts(c, n) == checks[c] # Gone /\ isDown(checks[c]) /\ checks[c].since = n
AlertsAndEndsMatch ==
    \A c \in Check, n \in 1..MaxFailures : Forgone(c, n) \/
        /\ Said("down", c, n) => Lasts(c, n) \/ Closed(c, n)
        /\ Closed(c, n) => Said("down", c, n)

EndsTwice(recent) ==
    LET n == Len(recent) IN n >= 2 /\ recent[n] = "f" /\ recent[n - 1] = "f"

(* Two known failures in a row, or three of five, are never kept quiet,    *)
(* whatever could not be read in between (alerts.ts).                      *)
NeverLate ==
    \A c \in Check : checks[c] # Gone /\ ~isDown(checks[c]) =>
        ~EndsTwice(checks[c].recent) /\ Failures(checks[c].recent) < FAIL_WITHIN
=============================================================================
