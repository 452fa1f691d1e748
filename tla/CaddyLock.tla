------------------------------ MODULE CaddyLock ------------------------------
(***************************************************************************)
(* The lock directory /run/sitesolide-gatekeeper/caddy.lock, which every   *)
(* action on Caddy's configuration takes first.  Two implementations share *)
(* it: the gatekeeper and the installer on the machine                     *)
(* (dashboard/src/gatekeeper/real.ts, takeLock) and the workstation's      *)
(* scripts run over ssh (bin/cli/caddy-lock.ts).                           *)
(*                                                                         *)
(* A run is one process: it takes the lock, acts, hands it back, exits.    *)
(* It succeeds in `mkdir` at most once, so a directory is named after the  *)
(* run that made it (its inode), and so is the holder line it writes.      *)
(* The clock is abstracted to one bit per directory: past fifteen minutes. *)
(***************************************************************************)
EXTENDS Naturals, FiniteSets

CONSTANTS
  Machine,    \* runs of the gatekeeper and the installer: their pid is tested
  Station,    \* runs of the workstation's tools: only their age tells
  Killable,   \* runs that may be killed at any step (kill -9, ssh cut off)
  Slow,       \* runs whose action, once they hold the lock, may outlast fifteen minutes
  None

ASSUME RunsAssumption ==
  /\ Machine \cap Station = {}
  /\ None \notin Machine \cup Station

Run == Machine \cup Station

VARIABLES
  pc,       \* where each run stands
  lock,     \* the directory in place at caddy.lock, or None
  aside,    \* the directory each run has renamed aside, or None
  line,     \* the holder line in each directory, or None: missing, unreadable
  old,      \* directories (and their line) dated more than 15 minutes ago
  stuffed,  \* directories that `mv` put another directory into
  seen,     \* what each run last read of the lock: inode, line, age
  tries,    \* takeovers attempted by each run
  leaving   \* workstation runs that are handing the lock back

vars == <<pc, lock, aside, line, old, stuffed, seen, tries, leaving>>

MaxTries == 3

Exits == {"done", "refused", "failed", "dead"}

(* Between a successful mkdir and the end of the hand back. *)
Acting == {"holding", "lent"}
Owning == {"write", "unwind"} \cup Acting

MachineSteps == {"stat", "read", "setaside", "compare", "putback", "look", "remove"}
StationSteps == {"find", "cat", "cond", "mv", "recheck", "test", "mvback"}

Dir == Run \cup {None}

TypeOK ==
  /\ pc \in [Run -> {"idle", "mkdir"} \cup Exits \cup Owning \cup MachineSteps \cup StationSteps]
  /\ lock \in Dir
  /\ aside \in [Run -> Dir]
  /\ line \in [Run -> Dir]
  /\ old \in SUBSET Run
  /\ stuffed \in SUBSET Run
  /\ seen \in [Run -> [dir : Dir, line : Dir, old : BOOLEAN]]
  /\ tries \in [Run -> 0 .. MaxTries]
  /\ leaving \in SUBSET Run

Exited(r) == pc[r] \in Exits
TextAt(d) == IF d = None THEN None ELSE line[d]
Empty(d) == line[d] = None /\ d \notin stuffed

Goto(r, step) == pc' = [pc EXCEPT ![r] = step]

Init ==
  /\ pc = [r \in Run |-> "idle"]
  /\ lock = None
  /\ aside = [r \in Run |-> None]
  /\ line = [r \in Run |-> None]
  /\ old = {}
  /\ stuffed = {}
  /\ seen = [r \in Run |-> [dir |-> None, line |-> None, old |-> FALSE]]
  /\ tries = [r \in Run |-> 0]
  /\ leaving = {}

-----------------------------------------------------------------------------
(* The take, common to both: a non-recursive mkdir, then the holder line.  *)

Start(r) ==
  /\ pc[r] = "idle"
  /\ Goto(r, "mkdir")
  /\ UNCHANGED <<lock, aside, line, old, stuffed, seen, tries, leaving>>

(* mkdir succeeds: for a single one of the candidates. *)
MakeDir(r) ==
  /\ pc[r] = "mkdir"
  /\ lock = None
  /\ lock' = r
  /\ Goto(r, "write")
  /\ UNCHANGED <<aside, line, old, stuffed, seen, tries, leaving>>

(* mkdir fails with EEXIST: the lock in place is examined. *)
FindTaken(r) ==
  /\ pc[r] = "mkdir"
  /\ lock # None
  /\ Goto(r, IF r \in Machine THEN "stat" ELSE "find")
  /\ UNCHANGED <<lock, aside, line, old, stuffed, seen, tries, leaving>>

(* The holder line is written by path, into whatever directory is there. *)
WriteHolder(r) ==
  /\ pc[r] = "write"
  /\ lock # None
  /\ line' = [line EXCEPT ![lock] = r]
  /\ old' = old \ {lock}
  /\ Goto(r, "holding")
  /\ UNCHANGED <<lock, aside, stuffed, seen, tries, leaving>>

(* No directory any more, or a full disk: the write fails. *)
WriteFails(r) ==
  /\ pc[r] = "write"
  /\ Goto(r, "unwind")
  /\ UNCHANGED <<lock, aside, line, old, stuffed, seen, tries, leaving>>

(* ... and the directory in place is removed, by path. *)
Unwind(r) ==
  /\ pc[r] = "unwind"
  /\ lock' = None
  /\ Goto(r, "failed")
  /\ UNCHANGED <<aside, line, old, stuffed, seen, tries, leaving>>

-----------------------------------------------------------------------------
(* The machine's takeover and hand back: real.ts.                          *)

(* `continue`: another of the three attempts, or refused after them. *)
Again(r) ==
  /\ tries' = [tries EXCEPT ![r] = @ + 1]
  /\ Goto(r, IF tries[r] + 1 >= MaxTries THEN "refused" ELSE "mkdir")

(* lstat of the lock: inode and date. *)
Stat(r) ==
  /\ pc[r] = "stat"
  /\ IF lock = None
       THEN Again(r) /\ UNCHANGED seen
       ELSE /\ seen' = [seen EXCEPT ![r] = [@ EXCEPT !.dir = lock, !.old = (lock \in old)]]
            /\ Goto(r, "read")
            /\ UNCHANGED tries
  /\ UNCHANGED <<lock, aside, line, old, stuffed, leaving>>

(* judgeLock: too old by its line or by its directory, or a machine's line
   whose process is gone. *)
JudgedStale(r, text) ==
  \/ seen[r].old
  \/ text # None /\ lock \in old
  \/ text \in Machine /\ Exited(text)

(* Slip: a held lock is polled. *)
JudgePolls(r) ==
  /\ pc[r] = "read"
  /\ Goto(r, IF JudgedStale(r, TextAt(lock)) THEN "setaside" ELSE "mkdir")
  /\ UNCHANGED <<lock, aside, line, old, stuffed, seen, tries, leaving>>

(* The holder is read, a moment after the lstat, and the lock judged. *)
Judge(r) ==
  /\ pc[r] = "read"
  /\ Goto(r, IF JudgedStale(r, TextAt(lock)) THEN "setaside" ELSE "refused")
  /\ UNCHANGED <<lock, aside, line, old, stuffed, seen, tries, leaving>>

SetAside(r) ==
  /\ pc[r] = "setaside"
  /\ IF lock = None
       THEN Again(r) /\ UNCHANGED <<lock, aside>>
       ELSE /\ aside' = [aside EXCEPT ![r] = lock]
            /\ lock' = None
            /\ Goto(r, "compare")
            /\ UNCHANGED tries
  /\ UNCHANGED <<line, old, stuffed, seen, leaving>>


(* The inode set aside is the one examined: erased.  Otherwise put back. *)
Compare(r) ==
  /\ pc[r] = "compare"
  /\ IF aside[r] = seen[r].dir
       THEN aside' = [aside EXCEPT ![r] = None] /\ Again(r)
       ELSE Goto(r, "putback") /\ UNCHANGED <<aside, tries>>
  /\ UNCHANGED <<lock, line, old, stuffed, seen, leaving>>

(* rename(2) of a directory succeeds onto nothing and onto an empty directory,
   which it replaces; onto another one it fails, and the one aside is erased. *)
PutBack(r) ==
  /\ pc[r] = "putback"
  /\ lock' = IF lock = None \/ Empty(lock) THEN aside[r] ELSE lock
  /\ aside' = [aside EXCEPT ![r] = None]
  /\ Again(r)
  /\ UNCHANGED <<line, old, stuffed, seen, leaving>>

(* The hand back: the holder is read, and the lock left alone unless it is
   still this run's line ... *)
Look(r) ==
  /\ r \in Machine
  /\ pc[r] = "holding"
  /\ Goto(r, IF lock # None /\ line[lock] = r THEN "remove" ELSE "done")
  /\ UNCHANGED <<lock, aside, line, old, stuffed, seen, tries, leaving>>

(* ... then removed in place. *)
Remove(r) ==
  /\ pc[r] = "remove"
  /\ lock' = None
  /\ Goto(r, "done")
  /\ UNCHANGED <<aside, line, old, stuffed, seen, tries, leaving>>

-----------------------------------------------------------------------------
(* The workstation's takeover and hand back: caddy-lock.ts.  removeIfState *)
(* serves the takeover (the lock judged stale) and the hand back (the run's *)
(* own line).                                                              *)

Find(r) ==
  /\ pc[r] = "find"
  /\ seen' = [seen EXCEPT ![r].old = (lock \in old)]
  /\ Goto(r, IF lock = None THEN "refused" ELSE "cat")
  /\ UNCHANGED <<lock, aside, line, old, stuffed, tries, leaving>>

(* decideTake: a readable line counts by its own date, an unreadable one by
   the directory's; a lock is taken over at most once. *)
Cat(r) ==
  /\ pc[r] = "cat"
  /\ LET text == TextAt(lock)
         stale == IF text = None THEN seen[r].old ELSE lock \in old
     IN /\ seen' = [seen EXCEPT ![r].line = text]
        /\ Goto(r, IF stale /\ tries[r] = 0 THEN "cond" ELSE "refused")
  /\ UNCHANGED <<lock, aside, line, old, stuffed, tries, leaving>>

(* stateCondition: the expected line word for word, or still an old directory. *)
InState(d, expected) ==
  IF expected = None THEN d \in old ELSE d # None /\ line[d] = expected

Expected(r) == IF r \in leaving THEN r ELSE seen[r].line

(* After removeIfState: the take script again, or the end of the run. *)
After(r) ==
  /\ Goto(r, IF r \in leaving THEN "done" ELSE "mkdir")
  /\ tries' = IF r \in leaving THEN tries ELSE [tries EXCEPT ![r] = 1]

Cond(r) ==
  /\ pc[r] = "cond"
  /\ IF InState(lock, Expected(r)) THEN Goto(r, "mv") /\ UNCHANGED tries ELSE After(r)
  /\ UNCHANGED <<lock, aside, line, old, stuffed, seen, leaving>>

MoveAside(r) ==
  /\ pc[r] = "mv"
  /\ IF lock = None
       THEN After(r) /\ UNCHANGED <<lock, aside>>
       ELSE /\ aside' = [aside EXCEPT ![r] = lock]
            /\ lock' = None
            /\ Goto(r, "recheck")
            /\ UNCHANGED tries
  /\ UNCHANGED <<line, old, stuffed, seen, leaving>>

(* Read again where it is, erased if it is still the expected one. *)
Recheck(r) ==
  /\ pc[r] = "recheck"
  /\ IF InState(aside[r], Expected(r))
       THEN aside' = [aside EXCEPT ![r] = None] /\ After(r)
       ELSE Goto(r, "test") /\ UNCHANGED <<aside, tries>>
  /\ UNCHANGED <<lock, line, old, stuffed, seen, leaving>>

(* [ -e "$d" ]: a new lock is there, the one aside is erased. *)
Test(r) ==
  /\ pc[r] = "test"
  /\ IF lock # None
       THEN aside' = [aside EXCEPT ![r] = None] /\ After(r)
       ELSE Goto(r, "mvback") /\ UNCHANGED <<aside, tries>>
  /\ UNCHANGED <<lock, line, old, stuffed, seen, leaving>>

(* mv "$e" "$d": back in place, or into the directory that came meanwhile. *)
MoveBack(r) ==
  /\ pc[r] = "mvback"
  /\ lock' = IF lock = None THEN aside[r] ELSE lock
  /\ stuffed' = IF lock = None THEN stuffed ELSE stuffed \cup {lock}
  /\ aside' = [aside EXCEPT ![r] = None]
  /\ After(r)
  /\ UNCHANGED <<line, old, seen, leaving>>

HandBack(r) ==
  /\ leaving' = leaving \cup {r}
  /\ Goto(r, "cond")

(* The action is over, or the script it launched is. *)
Release(r) ==
  /\ r \in Station
  /\ pc[r] \in Acting
  /\ HandBack(r)
  /\ UNCHANGED <<lock, aside, line, old, stuffed, seen, tries>>

(* CADDY_LOCK_HELD: a script launched by the run checks on the machine that
   the line is there before it acts; otherwise it refuses and the run ends. *)
Lend(r) ==
  /\ r \in Station
  /\ pc[r] = "holding"
  /\ IF InState(lock, r) THEN Goto(r, "lent") /\ UNCHANGED leaving ELSE HandBack(r)
  /\ UNCHANGED <<lock, aside, line, old, stuffed, seen, tries>>

-----------------------------------------------------------------------------
(* The surroundings: a run killed, a quarter of an hour gone by.           *)

Kill(r) ==
  /\ r \in Killable
  /\ ~Exited(r)
  /\ Goto(r, "dead")
  /\ UNCHANGED <<lock, aside, line, old, stuffed, seen, tries, leaving>>

(* A directory passes fifteen minutes once the run it dates from is over, or
   while that run acts, if it is one that lasts. *)
Over(r) == Exited(r) \/ (r \in Slow /\ pc[r] \in Acting)

Expire(d) ==
  /\ d \notin old
  /\ lock = d \/ \E r \in Run : aside[r] = d
  /\ {d, line[d]} \cap {r \in Run : ~Over(r)} = {}
  /\ old' = old \cup {d}
  /\ UNCHANGED <<pc, lock, aside, line, stuffed, seen, tries, leaving>>

Step(r) ==
  \/ MakeDir(r) \/ FindTaken(r) \/ WriteHolder(r) \/ Unwind(r)
  \/ Stat(r) \/ Judge(r) \/ SetAside(r) \/ Compare(r) \/ PutBack(r)
  \/ Look(r) \/ Remove(r)
  \/ Find(r) \/ Cat(r) \/ Cond(r) \/ MoveAside(r) \/ Recheck(r) \/ Test(r) \/ MoveBack(r)
  \/ Release(r) \/ Lend(r)

Next ==
  \/ \E r \in Run : Start(r) \/ Step(r) \/ WriteFails(r) \/ Kill(r)
  \/ \E d \in Run : Expire(d)

(* A run that is alive goes on to its end; whether one starts is not owed. *)
Spec == Init /\ [][Next]_vars /\ \A r \in Run : WF_vars(Step(r) \/ WriteFails(r))

-----------------------------------------------------------------------------
(* Only one action on Caddy at a time, across every site (machine.ts,      *)
(* takeLock): two runs never act on Caddy's configuration together.        *)
MutualExclusion ==
  \A r, s \in Run : pc[r] \in Acting /\ pc[s] \in Acting => r = s

(* Of two that judge a lock stale together, only one sets it aside (real.ts):
   a directory is in one place, at caddy.lock or in one run's hands. *)
OnePlace ==
  \A r, s \in Run :
     /\ aside[r] # None => aside[r] # lock
     /\ aside[r] # None /\ aside[r] = aside[s] => r = s

(* "A stale lock is taken over" (machine.ts:47): what a
   takeover erases is a lock past fifteen minutes or of a run that is gone,
   unless the place has been taken meanwhile and the live one it had set
   aside by mistake cannot be put back; a hand back erases its own line. *)
Erased(r) == aside[r] # None /\ aside'[r] = None /\ lock' # aside[r]
Dead(d) == d \in old \/ Exited(d) \/ (line[d] # None /\ Exited(line[d]))

(* A run that asked is answered: it acts, is refused, or fails, whatever
   the others do to the lock meanwhile. *)
TakeAnswered ==
  \A r \in Run : pc[r] = "mkdir" ~> pc[r] \in Acting \cup Exits
=============================================================================
