------------------------- MODULE MonitorAndEgressProofs -------------------------
(***************************************************************************)
(* Proofs about Monitor, for any checks and any number of failures, with   *)
(* passes killed at any step, answers that never arrive and a memory lost; *)
(* and about Egress, for any connections, projects, budgets and number of  *)
(* addresses.  The two modules share neither a name nor a variable.        *)
(***************************************************************************)
EXTENDS Monitor, Egress, TLAPS, FiniteSetTheorems, SequenceTheorems, WellFoundedInduction

(* The memory a pass sends from is the one it wrote, and what it counts as *)
(* delivered did arrive.                                                   *)
Sending ==
    /\ pass.at \in {"idle", "written", "answered"}
    /\ pass.at # "idle" => pass.outbox = outbox /\ pass.sent \subseteq heard

(* Whoever was told is told of the end, whatever the failure's number.     *)
EndsMatch ==
    \A c \in Check : \A n : Forgone(c, n) \/
        /\ Said("down", c, n) => Lasts(c, n) \/ Closed(c, n)
        /\ Closed(c, n) => Said("down", c, n)


-----------------------------------------------------------------------------
(* What one verdict makes of a check, and what is said of it.              *)
LEMMA NoticeOf ==
  ASSUME NEW c, NEW d, NEW after, NEW event, NEW n, Notice(event, c, n) \in Event(d, after)
  PROVE d = c
BY DEF Event, Notice

(* A check that goes down says so; one that was down and is not any more   *)
(* says its end; and nothing else is said.                                 *)
LEMMA Events ==
  ASSUME NEW c \in Check, NEW after, NEW n
  PROVE LET was == checks[c] # Gone /\ isDown(checks[c])
            is == after # Gone /\ isDown(after)
        IN  /\ ~was /\ is => Notice("down", c, after.since) \in Event(c, after)
            /\ was /\ ~is => \/ Notice("recovered", c, checks[c].since) \in Event(c, after)
                             \/ Notice("cleared", c, checks[c].since) \in Event(c, after)
            /\ Notice("down", c, n) \in Event(c, after) => ~was /\ is /\ n = after.since
            /\ \A end \in {"recovered", "cleared"} :
                  Notice(end, c, n) \in Event(c, after) => was /\ ~is /\ n = checks[c].since
<1>1. isDown(Before(c)) <=> checks[c] # Gone /\ isDown(checks[c]) BY DEF Before, Fresh, isDown
<1>2. checks[c] # Gone => Before(c) = checks[c] BY DEF Before
<1> QED BY <1>1, <1>2 DEF Event, Notice

-----------------------------------------------------------------------------
(* What is kept of the last verdicts.                                       *)
Recents == Seq({"f", "o"})
Followed == [status : Statuses, streak : 0..1, since : Nat, recent : Recents]

(* A set of numbers that is not empty has a least one.                      *)
LEMMA LeastNumber ==
  ASSUME NEW I \in SUBSET Nat, I # {}
  PROVE \E n \in I : \A m \in I : n <= m
<1>1. PICK n \in I : \A m \in I : ~(<<m, n>> \in OpToRel(<, Nat)) BY NatLessThanWellFounded, WFMin
<1>2. \A m \in I : ~(m < n) BY <1>1 DEF OpToRel
<1> QED BY <1>2

LEMMA FirstFailure ==
  ASSUME NEW s \in Recents
  PROVE FromFailure(s) \in 0..Len(s)
<1> DEFINE I == {i \in 1..Len(s) : s[i] = "f"}
<1>1. Len(s) \in Nat BY DEF Recents
<1>2. FromFailure(s) = IF I # {} THEN Min(I) ELSE 0 BY DEF FromFailure, SelectInSeq
<1>3. CASE I = {} BY <1>1, <1>2, <1>3
<1>4. CASE I # {}
  <2>1. I \in SUBSET Nat BY <1>1
  <2>2. \E n \in I : \A m \in I : n <= m BY <1>4, <2>1, LeastNumber
  <2>3. Min(I) \in I BY <2>2 DEF Min
  <2> QED BY <1>1, <1>2, <1>4, <2>3
<1> QED BY <1>3, <1>4

(* It is nothing, or the verdicts from one of them on.                      *)
LEMMA SlidSuffix ==
  ASSUME NEW s \in Recents, s # << >>
  PROVE /\ Slid(s) \in Recents
        /\ \/ Slid(s) = << >>
           \/ \E k \in 0..(Len(s) - 1) : /\ Len(Slid(s)) = Len(s) - k
                                         /\ \A i \in 1..Len(Slid(s)) : Slid(s)[i] = s[i + k]
<1> DEFINE five == IF Len(s) > WINDOW THEN Tail(s) ELSE s
           j == IF Len(s) > WINDOW THEN 1 ELSE 0
           k == FromFailure(five)
<1>1. Len(s) \in Nat /\ Len(s) > 0 BY DEF Recents
<1>2. /\ five \in Recents /\ Len(five) = Len(s) - j
      /\ \A i \in 1..Len(five) : five[i] = s[i + j] BY <1>1, HeadTailProperties DEF Recents, WINDOW
<1>3. k \in 0..Len(five) BY <1>2, FirstFailure
<1>4. Slid(s) = IF k = 0 THEN << >> ELSE SubSeq(five, k, Len(five)) BY DEF Slid
<1>5. CASE k = 0 BY <1>4, <1>5 DEF Recents
<1>6. CASE k # 0
  <2>1. j \in 0..1 /\ Len(five) \in Nat BY <1>2 DEF Recents
  <2> HIDE DEF five, k, j
  <2>2. k \in 1..Len(five) /\ Slid(s) = SubSeq(five, k, Len(five)) BY <1>3, <1>4, <1>6
  <2>3. \A i \in k..Len(five) : five[i] \in {"f", "o"} BY <1>2, <2>1, <2>2, ElementOfSeq DEF Recents
  <2>4. /\ Slid(s) \in Recents /\ Len(Slid(s)) = Len(five) - k + 1
        /\ \A i \in 1..(Len(five) - k + 1) : Slid(s)[i] = five[k + i - 1]
    BY <2>1, <2>2, <2>3, SubSeqProperties DEF Recents
  <2>5. k - 1 + j \in 0..(Len(s) - 1) /\ Len(Slid(s)) = Len(s) - (k - 1 + j) BY <1>1, <1>2, <2>1, <2>2, <2>4
  <2>6. \A i \in 1..Len(Slid(s)) : Slid(s)[i] = s[i + (k - 1 + j)]
    <3> SUFFICES ASSUME NEW i \in 1..Len(Slid(s)) PROVE Slid(s)[i] = s[i + (k - 1 + j)] OBVIOUS
    <3>1. Slid(s)[i] = five[k + i - 1] BY <2>1, <2>2, <2>4
    <3>2. k + i - 1 \in 1..Len(five) BY <2>1, <2>2, <2>4
    <3>3. five[k + i - 1] = s[k + i - 1 + j] BY <1>2, <3>2
    <3> QED BY <2>1, <2>2, <3>1, <3>3
  <2> QED BY <2>4, <2>5, <2>6
<1> QED BY <1>5, <1>6

LEMMA FailuresNat ==
  ASSUME NEW s \in Recents
  PROVE IsFiniteSet({i \in DOMAIN s : s[i] = "f"}) /\ Failures(s) \in Nat
<1>1. Len(s) \in Nat /\ DOMAIN s = 1..Len(s) BY DEF Recents
<1>2. IsFiniteSet(1..Len(s)) BY <1>1, FS_Interval
<1>3. {i \in DOMAIN s : s[i] = "f"} \in SUBSET (1..Len(s)) BY <1>1
<1>4. IsFiniteSet({i \in DOMAIN s : s[i] = "f"}) BY <1>2, <1>3, FS_Subset
<1> QED BY <1>4, FS_CardinalityType DEF Failures

(* Sliding adds no failure, and ends as it ended.                           *)
LEMMA SlidFailures ==
  ASSUME NEW s \in Recents, s # << >>
  PROVE /\ Failures(Slid(s)) <= Failures(s)
        /\ Slid(s) # << >> => Slid(s)[Len(Slid(s))] = s[Len(s)]
        /\ EndsTwice(Slid(s)) => EndsTwice(s)
<1>1. Slid(s) \in Recents /\ Len(s) \in Nat /\ Len(s) > 0 /\ DOMAIN s = 1..Len(s) BY SlidSuffix DEF Recents
<1>2. CASE Slid(s) = << >>
  <2>1. Len(Slid(s)) = 0 BY <1>2
  <2>2. {i \in DOMAIN Slid(s) : Slid(s)[i] = "f"} = {} BY <1>2
  <2>3. Failures(Slid(s)) = 0 BY <2>2, FS_EmptySet DEF Failures
  <2>4. Failures(s) \in Nat BY FailuresNat
  <2>5. ~EndsTwice(Slid(s)) BY <2>1 DEF EndsTwice
  <2> QED BY <1>2, <2>3, <2>4, <2>5
<1>3. CASE Slid(s) # << >>
  <2>1. PICK k \in 0..(Len(s) - 1) : /\ Len(Slid(s)) = Len(s) - k
                                     /\ \A i \in 1..Len(Slid(s)) : Slid(s)[i] = s[i + k]
    BY <1>3, SlidSuffix
  <2>2. DOMAIN Slid(s) = 1..Len(Slid(s)) /\ Len(Slid(s)) \in Nat BY <1>1 DEF Recents
  <2> DEFINE S == {i \in DOMAIN Slid(s) : Slid(s)[i] = "f"}
             T == {i \in DOMAIN s : s[i] = "f"}
             f == [i \in S |-> i + k]
  <2>3. \A i \in S : i + k \in T BY <1>1, <2>1, <2>2
  <2>4. f \in [S -> T] /\ \A a, b \in S : f[a] = f[b] => a = b BY <2>1, <2>2, <2>3
  <2>5. f \in Injection(S, T) BY <2>4 DEF Injection, IsInjective
  <2>6. IsFiniteSet(T) BY FailuresNat
  <2> HIDE DEF S, T, f
  <2>7. Cardinality(S) <= Cardinality(T) BY <2>5, <2>6, FS_Injection
  <2>8. Failures(Slid(s)) <= Failures(s) BY <2>7 DEF S, T, Failures
  <2>9. Len(Slid(s)) \in 1..Len(Slid(s)) /\ Slid(s)[Len(Slid(s))] = s[Len(s)] BY <1>1, <2>1, <2>2
  <2>10. EndsTwice(Slid(s)) => EndsTwice(s)
    <3> SUFFICES ASSUME EndsTwice(Slid(s)) PROVE EndsTwice(s) OBVIOUS
    <3>1. Len(Slid(s)) >= 2 /\ Slid(s)[Len(Slid(s))] = "f" /\ Slid(s)[Len(Slid(s)) - 1] = "f" BY DEF EndsTwice
    <3>2. Len(Slid(s)) - 1 \in 1..Len(Slid(s)) /\ Slid(s)[Len(Slid(s)) - 1] = s[Len(s) - 1] BY <1>1, <2>1, <2>2, <3>1
    <3> QED BY <1>1, <2>1, <2>9, <3>1, <3>2 DEF EndsTwice
  <2> QED BY <2>8, <2>9, <2>10
<1> QED BY <1>2, <1>3

(* What a check is near to: a failure that would be the second in a row, or *)
(* the third of the last five, is never one of a check not said to be down. *)
Near(t) ==
    /\ t.status = "ok" => t.recent = << >>
    /\ ~isDown(t) => ~EndsTwice(t.recent) /\ Failures(t.recent) < FAIL_WITHIN
    /\ t.status = "failing" /\ t.recent # << >> /\ t.recent[Len(t.recent)] = "f" => t.streak = 1

LEMMA Appended ==
  ASSUME NEW s \in Recents, NEW v \in {"f", "o"}
  PROVE /\ Append(s, v) \in Recents /\ Append(s, v) # << >>
        /\ Len(Append(s, v)) = Len(s) + 1 /\ Append(s, v)[Len(s) + 1] = v
        /\ \A i \in 1..Len(s) : Append(s, v)[i] = s[i]
        /\ v = "o" => Failures(Append(s, v)) <= Failures(s)
<1>1. /\ Append(s, v) \in Recents /\ Append(s, v) # << >> /\ Len(s) \in Nat
      /\ Len(Append(s, v)) = Len(s) + 1 /\ Append(s, v)[Len(s) + 1] = v
      /\ \A i \in 1..Len(s) : Append(s, v)[i] = s[i] BY DEF Recents
<1>2. ASSUME v = "o" PROVE Failures(Append(s, v)) <= Failures(s)
  <2> DEFINE S == {i \in DOMAIN Append(s, v) : Append(s, v)[i] = "f"}
             T == {i \in DOMAIN s : s[i] = "f"}
  <2>1. DOMAIN s = 1..Len(s) /\ DOMAIN Append(s, v) = 1..(Len(s) + 1) BY <1>1 DEF Recents
  <2>2. S \in SUBSET T BY <1>1, <1>2, <2>1
  <2>3. IsFiniteSet(T) BY FailuresNat
  <2> HIDE DEF S, T
  <2>4. Cardinality(S) <= Cardinality(T) BY <2>2, <2>3, FS_Subset
  <2> QED BY <2>4 DEF S, T, Failures
<1> QED BY <1>1, <1>2

LEMMA FreshNear == Fresh \in Followed /\ Near(Fresh)
<1>1. ~EndsTwice(<< >>) BY DEF EndsTwice
<1>2. {i \in DOMAIN << >> : << >>[i] = "f"} = {} OBVIOUS
<1>3. Failures(<< >>) = 0 BY <1>2, FS_EmptySet DEF Failures
<1>4. << >> \in Recents BY DEF Recents
<1> QED BY <1>1, <1>3, <1>4 DEF Fresh, Near, Followed, FAIL_WITHIN, Statuses

LEMMA FailedNear ==
  ASSUME NEW c, NEW t \in Followed, Near(t), began[c] \in Nat
  PROVE Failed(c, t) \in Followed /\ Near(Failed(c, t))
<1> DEFINE recent == Slid(Append(t.recent, "f"))
           streak == IF t.status = "ok" THEN 1 ELSE t.streak + 1
           since == IF t.status = "ok" THEN began[c] + 1 ELSE t.since
           due == streak >= FAIL_AFTER \/ Failures(recent) >= FAIL_WITHIN
<1>1. t.status \in Statuses /\ t.streak \in 0..1 /\ t.since \in Nat /\ t.recent \in Recents BY DEF Followed
<1>2. recent \in Recents BY <1>1, Appended, SlidSuffix
<1>3. Failed(c, t) = IF isDown(t) \/ due
                     THEN [status |-> "down", streak |-> 0, since |-> since,
                           recent |-> IF isDown(t) THEN t.recent ELSE recent]
                     ELSE [status |-> "failing", streak |-> streak, since |-> since, recent |-> recent]
  BY DEF Failed
<1>4. since \in Nat /\ streak \in 1..2 /\ Failures(recent) \in Nat
  <2>1. since \in Nat BY <1>1
  <2>2. streak \in 1..2 BY <1>1
  <2> HIDE DEF recent
  <2>3. Failures(recent) \in Nat BY <1>2, FailuresNat
  <2> QED BY <2>1, <2>2, <2>3
<1>5. CASE isDown(t) \/ due
  <2>1. Failed(c, t).status = "down" BY <1>3, <1>5
  <2>2. Failed(c, t) \in Followed BY <1>1, <1>2, <1>3, <1>4, <1>5 DEF Followed, Statuses
  <2> QED BY <2>1, <2>2 DEF Near, isDown
<1>6. CASE ~(isDown(t) \/ due)
  <2>1. Failed(c, t) = [status |-> "failing", streak |-> streak, since |-> since, recent |-> recent] BY <1>3, <1>6
  <2>2. streak = 1 /\ Failures(recent) < FAIL_WITHIN BY <1>4, <1>6 DEF FAIL_AFTER, FAIL_WITHIN
  <2>3. ~EndsTwice(recent)
    <3>1. ASSUME EndsTwice(Append(t.recent, "f")) PROVE FALSE
      <4>1. Len(t.recent) \in Nat BY <1>1 DEF Recents
      <4>2. /\ Len(t.recent) >= 1 /\ t.recent[Len(t.recent)] = "f"
        BY <1>1, <3>1, <4>1, Appended DEF EndsTwice
      <4>3. t.recent # << >> BY <4>2
      <4>4. t.status = "failing" BY <1>1, <1>6, <4>3 DEF Near, isDown, Statuses
      <4>5. t.streak = 1 BY <4>2, <4>3, <4>4 DEF Near
      <4> QED BY <2>2, <4>4, <4>5
    <3> QED BY <1>1, <3>1, Appended, SlidFailures
  <2>4. Failed(c, t) \in Followed BY <1>2, <1>4, <2>1, <2>2 DEF Followed, Statuses
  <2> HIDE DEF recent, streak, since, due
  <2> QED BY <2>1, <2>2, <2>3, <2>4 DEF Near
<1> QED BY <1>5, <1>6

LEMMA PassedNear ==
  ASSUME NEW t \in Followed, Near(t)
  PROVE Passed(t) \in Followed /\ Near(Passed(t))
<1> DEFINE recent == Slid(Append(t.recent, "o"))
           streak == IF t.status = "down" THEN 1 ELSE t.streak + 1
<1>1. t.status \in Statuses /\ t.streak \in 0..1 /\ t.since \in Nat /\ t.recent \in Recents BY DEF Followed
<1>2. recent \in Recents /\ Append(t.recent, "o") \in Recents /\ Append(t.recent, "o") # << >>
  BY <1>1, Appended, SlidSuffix
<1>3. Passed(t) = IF isDown(t)
                  THEN IF streak >= RECOVER_AFTER THEN Fresh
                       ELSE [t EXCEPT !.status = "recovering", !.streak = streak]
                  ELSE IF t.status = "failing" /\ Failures(recent) > 0
                       THEN [t EXCEPT !.streak = 0, !.recent = recent]
                       ELSE Fresh
  BY DEF Passed
<1>4. CASE Passed(t) = Fresh BY <1>4, FreshNear
<1>5. t = [status |-> t.status, streak |-> t.streak, since |-> t.since, recent |-> t.recent] BY DEF Followed
<1>6. CASE isDown(t) /\ ~(streak >= RECOVER_AFTER)
  <2>1. streak = 1 BY <1>1, <1>6 DEF RECOVER_AFTER
  <2>2. Passed(t) = [t EXCEPT !.status = "recovering", !.streak = 1] BY <1>3, <1>6, <2>1
  <2>3. Passed(t) = [status |-> "recovering", streak |-> 1, since |-> t.since, recent |-> t.recent]
    BY <1>5, <2>2
  <2>4. Passed(t) \in Followed /\ Passed(t).status = "recovering" BY <1>1, <2>3 DEF Followed, Statuses
  <2> QED BY <2>4 DEF Near, isDown
<1>7. CASE ~isDown(t) /\ t.status = "failing"
  <2>1. CASE Failures(recent) > 0
    <3> HIDE DEF recent
    <3>1. Passed(t) = [t EXCEPT !.streak = 0, !.recent = recent] BY <1>3, <1>7, <2>1
    <3>2. Passed(t) = [status |-> "failing", streak |-> 0, since |-> t.since, recent |-> recent]
      BY <1>7, <1>5, <3>1
    <3>3. Passed(t) \in Followed /\ Passed(t).recent = recent /\ Passed(t).status = "failing"
      BY <1>1, <1>2, <3>2 DEF Followed, Statuses
    <3>4. Failures(recent) <= Failures(t.recent)
      <4>1. Failures(recent) <= Failures(Append(t.recent, "o")) BY <1>2, SlidFailures DEF recent
      <4>2. Failures(Append(t.recent, "o")) <= Failures(t.recent) BY <1>1, Appended
      <4>3. Failures(recent) \in Nat /\ Failures(Append(t.recent, "o")) \in Nat /\ Failures(t.recent) \in Nat
        BY <1>1, <1>2, FailuresNat
      <4> QED BY <4>1, <4>2, <4>3
    <3>5. Failures(recent) < FAIL_WITHIN
      <4>1. Failures(t.recent) < FAIL_WITHIN BY <1>7 DEF Near
      <4>2. Failures(recent) \in Nat /\ Failures(t.recent) \in Nat BY <1>1, <1>2, FailuresNat
      <4> QED BY <3>4, <4>1, <4>2 DEF FAIL_WITHIN
    <3>6. recent # << >> => recent[Len(recent)] = "o"
      <4>1. Append(t.recent, "o")[Len(Append(t.recent, "o"))] = "o" BY <1>1, Appended
      <4> QED BY <1>2, <4>1, SlidFailures DEF recent
    <3>7. ~EndsTwice(recent)
      <4>1. Len(recent) \in Nat BY <1>2 DEF Recents
      <4>2. Len(recent) >= 2 => recent # << >> OBVIOUS
      <4> QED BY <3>6, <4>1, <4>2 DEF EndsTwice
    <3> QED BY <3>3, <3>2, <3>5, <3>6, <3>7 DEF Near
  <2>2. CASE ~(Failures(recent) > 0) BY <1>3, <1>7, <2>2, <1>4
  <2> QED BY <2>1, <2>2
<1> QED BY <1>1, <1>3, <1>4, <1>6, <1>7

-----------------------------------------------------------------------------
(* What a pass makes of a check; while the check is down it is the same     *)
(* failure.                                                                 *)
Memory ==
    /\ checks \in [Check -> Followed \cup {Gone}] /\ began \in [Check -> Nat]
    /\ \A c \in Check : checks[c] # Gone => Near(checks[c])

LEMMA BeforeNear ==
  ASSUME Memory, NEW c \in Check
  PROVE Before(c) \in Followed /\ Near(Before(c)) /\ began[c] \in Nat
BY FreshNear DEF Memory, Before

LEMMA Stepped ==
  ASSUME Memory, NEW c \in Check, NEW verdict \in Verdicts
  PROVE /\ StepOf(c, verdict) \in Followed \cup {Gone}
        /\ StepOf(c, verdict) # Gone => StepOf(c, verdict) \in Followed /\ Near(StepOf(c, verdict))
<1>1. Before(c) \in Followed /\ Near(Before(c)) /\ began[c] \in Nat BY BeforeNear
<1>2. Failed(c, Before(c)) \in Followed /\ Near(Failed(c, Before(c))) BY <1>1, FailedNear
<1>3. Passed(Before(c)) \in Followed /\ Near(Passed(Before(c))) BY <1>1, PassedNear
<1> QED BY <1>1, <1>2, <1>3 DEF StepOf, Verdicts

LEMMA SameFailure ==
  ASSUME Memory, NEW c \in Check, NEW verdict \in Verdicts, checks[c] # Gone, isDown(checks[c]),
         StepOf(c, verdict) # Gone, isDown(StepOf(c, verdict))
  PROVE StepOf(c, verdict).since = checks[c].since
<1> DEFINE t == checks[c]
<1>1. Before(c) = t /\ t \in Followed BY DEF Before, Memory
<1>2. t.status # "ok" BY DEF isDown
<1>3. Failed(c, t).since = t.since BY <1>2 DEF Failed, isDown
<1>4. Passed(t) = Fresh \/ Passed(t) = [t EXCEPT !.status = "recovering", !.streak = t.streak + 1]
                        \/ Passed(t) = [t EXCEPT !.status = "recovering", !.streak = 1]
  BY DEF Passed
<1>5. ~isDown(Fresh) BY DEF Fresh, isDown
<1>6. t = [status |-> t.status, streak |-> t.streak, since |-> t.since, recent |-> t.recent] BY <1>1 DEF Followed
<1>7. isDown(Passed(t)) => Passed(t).since = t.since BY <1>4, <1>5, <1>6
<1> QED BY <1>1, <1>3, <1>7 DEF StepOf, Verdicts

-----------------------------------------------------------------------------
IInv == Memory /\ Sending /\ DownIsTold /\ EndsMatch

(* A step that leaves the checks alone only has to keep what was said, or   *)
(* let go of it.                                                            *)
LEMMA StillSaid ==
  ASSUME IInv, UNCHANGED <<checks, began, forgone>>, Sending', heard' \cup outbox' = heard \cup outbox
  PROVE IInv'
<1>1. \A event, c, n : Said(event, c, n)' <=> Said(event, c, n) BY DEF Said
<1>2. Memory' BY DEF IInv, Memory
<1>3. DownIsTold' BY <1>1 DEF IInv, DownIsTold, Forgone
<1>4. EndsMatch' BY <1>1 DEF IInv, EndsMatch, Forgone, Lasts, Closed
<1> QED BY <1>2, <1>3, <1>4 DEF IInv

LEMMA InitInv == ASSUME MonitorInit PROVE IInv
<1>1. \A c \in Check : checks[c] = Gone BY DEF MonitorInit
<1>2. \A event, c, n : ~Said(event, c, n) BY DEF MonitorInit, Said
<1>3. Memory BY <1>1 DEF Memory, MonitorInit
<1>4. Sending BY DEF MonitorInit, Sending, NoPass
<1>5. DownIsTold BY <1>1 DEF DownIsTold
<1>6. EndsMatch BY <1>2 DEF EndsMatch, Closed
<1> QED BY <1>3, <1>4, <1>5, <1>6 DEF IInv

LEMMA JudgesInv == ASSUME IInv, PassJudges PROVE IInv'
<1>1. PICK v \in Readings, stale \in SUBSET outbox :
         LET after == [c \in Check |-> StepOf(c, v[c])]
             new == UNION {Event(c, after[c]) : c \in Check}
         IN /\ checks' = after
            /\ outbox' = Written(outbox \ stale, new)
            /\ pass' = [at |-> "written", outbox |-> (outbox \ stale) \cup new, sent |-> {}]
            /\ forgone' = forgone \cup Episodes(stale)
            /\ began' = [c \in Check |->
                            IF after[c] # Gone /\ after[c].since > began[c]
                            THEN after[c].since ELSE began[c]]
  BY DEF PassJudges
<1> DEFINE after == [c \in Check |-> StepOf(c, v[c])]
           new == UNION {Event(c, after[c]) : c \in Check}
<1>2. /\ checks' = after /\ outbox' = (outbox \ stale) \cup new /\ heard' = heard
      /\ pass' = [at |-> "written", outbox |-> (outbox \ stale) \cup new, sent |-> {}]
      /\ forgone' = forgone \cup Episodes(stale)
      /\ began' = [c \in Check |-> IF after[c] # Gone /\ after[c].since > began[c] THEN after[c].since ELSE began[c]]
  BY <1>1 DEF Written, PassJudges
<1>3. \A c \in Check : v[c] \in Verdicts BY DEF Readings
<1>4. \A c \in Check : /\ after[c] = StepOf(c, v[c]) /\ after[c] \in Followed \cup {Gone}
                       /\ after[c] # Gone => after[c] \in Followed /\ Near(after[c])
  BY <1>3, Stepped DEF IInv
<1> HIDE DEF after
<1>5. Memory'
  <2>1. checks' \in [Check -> Followed \cup {Gone}]
    <3>1. after = [c \in Check |-> StepOf(c, v[c])] BY DEF after
    <3> QED BY <1>2, <1>4, <3>1
  <2>2. \A c \in Check : after[c] # Gone => after[c].since \in Nat BY <1>4 DEF Followed
  <2>3. began' \in [Check -> Nat] BY <1>2, <2>2 DEF IInv, Memory
  <2> QED BY <1>2, <1>4, <2>1, <2>3 DEF Memory
<1>6. Sending' BY <1>2 DEF Sending
(* What was said is still, or is let go of; what is new comes of an event.  *)
<1>7. ASSUME NEW event, NEW c \in Check, NEW n
      PROVE /\ Said(event, c, n) => Said(event, c, n)' \/ Forgone(c, n)'
            /\ Forgone(c, n) => Forgone(c, n)'
            /\ Notice(event, c, n) \in Event(c, after[c]) => Said(event, c, n)'
            /\ Said(event, c, n)' => Said(event, c, n) \/ Notice(event, c, n) \in Event(c, after[c])
  <2>1. Notice(event, c, n) \in stale => <<c, n>> \in Episodes(stale) BY DEF Notice, Episodes
  <2>2. Said(event, c, n) => Said(event, c, n)' \/ Forgone(c, n)' BY <1>2, <2>1 DEF Said, Forgone
  <2>3. Notice(event, c, n) \in new <=> Notice(event, c, n) \in Event(c, after[c]) BY NoticeOf
  <2> HIDE DEF new
  <2>4. Said(event, c, n)' <=> Notice(event, c, n) \in heard \cup (outbox \ stale) \cup new BY <1>2 DEF Said
  <2> QED BY <1>2, <2>2, <2>3, <2>4 DEF Said, Forgone
<1>8. ASSUME NEW c \in Check, checks[c] # Gone, isDown(checks[c]), after[c] # Gone, isDown(after[c])
      PROVE after[c].since = checks[c].since
  BY <1>3, <1>4, <1>8, SameFailure DEF IInv
<1>9. DownIsTold'
  <2> SUFFICES ASSUME NEW c \in Check, NEW n, Lasts(c, n)' PROVE Said("down", c, n)' \/ Forgone(c, n)'
    BY DEF DownIsTold, Lasts
  <2>1. after[c] # Gone /\ isDown(after[c]) /\ after[c].since = n BY <1>2 DEF Lasts
  <2>2. CASE checks[c] # Gone /\ isDown(checks[c])
    <3>1. Said("down", c, checks[c].since) \/ Forgone(c, checks[c].since) BY <2>2 DEF IInv, DownIsTold
    <3> QED BY <1>7, <1>8, <2>1, <2>2, <3>1
  <2>3. CASE ~(checks[c] # Gone /\ isDown(checks[c]))
    <3>1. Notice("down", c, n) \in Event(c, after[c]) BY <2>1, <2>3, Events
    <3> QED BY <1>7, <3>1
  <2> QED BY <2>2, <2>3
<1>10. EndsMatch'
  <2> SUFFICES ASSUME NEW c \in Check, NEW n, ~Forgone(c, n)'
               PROVE /\ Said("down", c, n)' => Lasts(c, n)' \/ Closed(c, n)'
                     /\ Closed(c, n)' => Said("down", c, n)'
    BY DEF EndsMatch
  <2>1. ~Forgone(c, n) BY <1>7
  <2>2. Said("down", c, n)' => Lasts(c, n)' \/ Closed(c, n)'
    <3> SUFFICES ASSUME Said("down", c, n)' PROVE Lasts(c, n)' \/ Closed(c, n)' OBVIOUS
    <3>1. CASE Notice("down", c, n) \in Event(c, after[c]) BY <1>2, <3>1, Events DEF Lasts
    <3>2. CASE Said("down", c, n)
      <4>1. Lasts(c, n) \/ Closed(c, n) BY <2>1, <3>2 DEF IInv, EndsMatch
      <4>2. Closed(c, n) => Closed(c, n)' BY <1>7 DEF Closed
      <4>3. CASE Lasts(c, n) /\ after[c] # Gone /\ isDown(after[c]) BY <1>2, <1>8, <4>3 DEF Lasts
      <4>4. CASE Lasts(c, n) /\ ~(after[c] # Gone /\ isDown(after[c]))
        <5>1. \/ Notice("recovered", c, n) \in Event(c, after[c])
              \/ Notice("cleared", c, n) \in Event(c, after[c]) BY <4>4, Events DEF Lasts
        <5> QED BY <1>7, <5>1 DEF Closed
      <4> QED BY <4>1, <4>2, <4>3, <4>4
    <3> QED BY <1>7, <3>1, <3>2
  <2>3. Closed(c, n)' => Said("down", c, n)'
    <3> SUFFICES ASSUME Closed(c, n)' PROVE Said("down", c, n)' OBVIOUS
    <3>1. CASE Closed(c, n)
      <4>1. Said("down", c, n) BY <2>1, <3>1 DEF IInv, EndsMatch
      <4> QED BY <1>7, <4>1
    <3>2. CASE ~Closed(c, n)
      <4>1. \E end \in {"recovered", "cleared"} : Notice(end, c, n) \in Event(c, after[c])
        BY <1>7, <3>2 DEF Closed
      <4>2. checks[c] # Gone /\ isDown(checks[c]) /\ n = checks[c].since BY <4>1, Events
      <4>3. Said("down", c, n) BY <2>1, <4>2 DEF IInv, DownIsTold
      <4> QED BY <1>7, <4>3
    <3> QED BY <3>1, <3>2
  <2> QED BY <2>2, <2>3
<1> QED BY <1>5, <1>6, <1>9, <1>10 DEF IInv

LEMMA DeliveredInv == ASSUME IInv, Delivered \/ NotDelivered PROVE IInv'
<1>1. UNCHANGED <<checks, outbox, began, forgone>> /\ pass.at = "written" /\ heard \subseteq heard'
  BY DEF Delivered, NotDelivered
<1>2. Sending'
  <2>1. CASE Delivered
    <3>1. PICK s \in Messages(pass.outbox) : /\ heard' = heard \cup s
                                             /\ \E answer \in {s, {}} :
                                                   pass' = [pass EXCEPT !.at = "answered", !.sent = answer]
      BY <2>1 DEF Delivered
    <3> QED BY <1>1, <3>1 DEF IInv, Sending
  <2>2. CASE NotDelivered BY <1>1, <2>2 DEF NotDelivered, IInv, Sending
  <2> QED BY <2>1, <2>2
<1>3. CASE NotDelivered
  <2>1. heard' = heard BY <1>3 DEF NotDelivered
  <2> QED BY <1>1, <1>2, <2>1, StillSaid
<1>4. CASE Delivered
  <2>1. PICK s \in Messages(pass.outbox) : heard' = heard \cup s BY <1>4 DEF Delivered
  <2>2. s \subseteq outbox BY <1>1, <2>1 DEF Messages, IInv, Sending
  <2>3. heard' \cup outbox' = heard \cup outbox BY <1>1, <2>1, <2>2
  <2> QED BY <1>1, <1>2, <2>3, StillSaid
<1> QED BY <1>3, <1>4

LEMMA EndsInv == ASSUME IInv, PassEnds \/ PassKilled PROVE IInv'
<1>1. UNCHANGED <<checks, heard, began, forgone>> /\ pass' = NoPass /\ pass.at # "idle"
  BY DEF PassEnds, PassKilled
<1>2. Sending' BY <1>1 DEF Sending, NoPass
<1>3. heard' \cup outbox' = heard \cup outbox
  <2>1. CASE PassKilled BY <1>1, <2>1 DEF PassKilled
  <2>2. CASE PassEnds
    <3>1. outbox' = outbox \ pass.sent /\ pass.sent \subseteq heard BY <1>1, <2>2 DEF PassEnds, Left, IInv, Sending
    <3> QED BY <1>1, <3>1
  <2> QED BY <2>1, <2>2
<1> QED BY <1>1, <1>2, <1>3, StillSaid

LEMMA LostInv == ASSUME IInv, MemoryLost PROVE IInv'
<1>1. /\ checks' = [c \in Check |-> Gone] /\ outbox' = {} /\ UNCHANGED <<pass, heard, began>> /\ pass.at = "idle"
      /\ forgone' = forgone \cup Episodes(outbox)
                       \cup {<<c, checks[c].since>> : c \in {d \in Check : checks[d] # Gone /\ isDown(checks[d])}}
  BY DEF MemoryLost
<1>2. Memory' BY <1>1 DEF IInv, Memory
<1>3. Sending' BY <1>1 DEF IInv, Sending
<1>4. DownIsTold' BY <1>1 DEF DownIsTold
<1>5. ASSUME NEW event, NEW c \in Check, NEW n
      PROVE /\ Said(event, c, n)' => Said(event, c, n)
            /\ Said(event, c, n) => Said(event, c, n)' \/ Forgone(c, n)'
            /\ Forgone(c, n) => Forgone(c, n)'
            /\ Lasts(c, n) => Forgone(c, n)'
  <2>1. Notice(event, c, n) \in outbox => <<c, n>> \in Episodes(outbox) BY DEF Notice, Episodes
  <2> QED BY <1>1, <2>1 DEF Said, Forgone, Lasts
<1>6. EndsMatch' BY <1>5 DEF IInv, EndsMatch, Closed
<1> QED BY <1>2, <1>3, <1>4, <1>6 DEF IInv

LEMMA StillInv == ASSUME IInv, UNCHANGED monitorVars PROVE IInv'
<1>1. UNCHANGED <<checks, outbox, pass, heard, began, forgone>> BY DEF monitorVars
<1>2. Sending' BY <1>1 DEF IInv, Sending
<1> QED BY <1>1, <1>2, StillSaid

-----------------------------------------------------------------------------
(* Every behaviour keeps the strengthening.                                 *)
THEOREM Kept == MonitorSpec => []IInv
<1>1. MonitorInit => IInv BY InitInv
<1>2. IInv /\ [MonitorNext]_monitorVars => IInv' BY JudgesInv, DeliveredInv, EndsInv, LostInv, StillInv DEF MonitorNext
<1> QED BY <1>1, <1>2, PTL DEF MonitorSpec

(* What is remembered of a check is of its type, its last verdicts and      *)
(* streak with it.                                                          *)
THEOREM MemoryCorrect == MonitorSpec => []Memory
<1>1. IInv => Memory BY DEF IInv
<1> QED BY <1>1, Kept, PTL

(* A check remembered as down has been told of, or its notice waits.        *)
THEOREM NothingLost == MonitorSpec => []DownIsTold
<1>1. IInv => DownIsTold BY DEF IInv
<1> QED BY <1>1, Kept, PTL

(* Whoever was told of a failure is told of its end, and nobody of the end  *)
(* of a failure they were not told of.                                      *)
THEOREM EndsAreTold == MonitorSpec => []AlertsAndEndsMatch
<1>1. IInv => AlertsAndEndsMatch BY DEF IInv, EndsMatch, AlertsAndEndsMatch
<1> QED BY <1>1, Kept, PTL

(* Two failures in a row, or three among the last five, are always said.    *)
THEOREM OnTime == MonitorSpec => []NeverLate
<1>1. IInv => NeverLate BY DEF IInv, Memory, Near, NeverLate
<1> QED BY <1>1, Kept, PTL

-----------------------------------------------------------------------------
(* The egress proxy.                                                        *)

(* What a connection, the admission and the whole are, as records.          *)
Phases == {"head", "deciding", "open", "closed"}
Connection ==
    [phase : Phases, caller : Projects \cup {Nobody, "asked"}, share : Projects \cup {Nobody},
     client : Side, upstream : Side, quiet : BOOLEAN, attempt : 0..Addresses,
     waits : SUBSET (1..Addresses), outside : SUBSET (1..Addresses)]
Admission == [held : Nat, of : [Projects -> Nat], blocked : SUBSET Projects, saturated : BOOLEAN]
Proxy == [conn : [Conns -> Connection], budget : Admission]

-----------------------------------------------------------------------------
(* Bytes that wait, counted over sets of connections.                       *)
Count(each, S) == Cardinality(Bytes(each, S))

LEMMA SideOf ==
  ASSUME NEW x \in Connection
  PROVE /\ x["client"] = x.client /\ x["upstream"] = x.upstream
        /\ \A s \in Sides : x[s] \in Side
        /\ x.client.queued \in Nat /\ x.upstream.queued \in Nat /\ Held(x) \in Nat
<1>1. x.client.queued \in Nat /\ x.upstream.queued \in Nat BY DEF Connection, Side
<1> QED BY <1>1 DEF Connection, Sides, Held

LEMMA WhatWaits ==
  ASSUME NEW each, NEW S, NEW b
  PROVE b \in Bytes(each, S) <=> \E c \in S, s \in Sides : \E i \in 1..each[c][s].queued : b = <<<<c, s>>, i>>
<1> DEFINE Own(c, s) == {<<c, s>>} \X (1..each[c][s].queued)
           All == {Own(c, s) : c \in S, s \in Sides}
<1>1. Bytes(each, S) = UNION All BY DEF Bytes
<1>2. \A B : B \in All <=> \E c \in S, s \in Sides : B = Own(c, s) OBVIOUS
<1>3. \A c, s : b \in Own(c, s) <=> \E i \in 1..each[c][s].queued : b = <<<<c, s>>, i>> OBVIOUS
<1> HIDE DEF Own, All
<1>4. b \in UNION All <=> \E B \in All : b \in B OBVIOUS
<1>5. (\E B \in All : b \in B) <=> \E c \in S, s \in Sides : b \in Own(c, s)
  <2>1. ASSUME NEW B \in All, b \in B PROVE \E c \in S, s \in Sides : b \in Own(c, s)
    <3>1. PICK c \in S, s \in Sides : B = Own(c, s) BY <1>2, <2>1
    <3> QED BY <2>1, <3>1
  <2>2. ASSUME NEW c \in S, NEW s \in Sides, b \in Own(c, s) PROVE \E B \in All : b \in B BY <1>2, <2>2
  <2> QED BY <2>1, <2>2
<1>6. (\E c \in S, s \in Sides : b \in Own(c, s))
        <=> \E c \in S, s \in Sides : \E i \in 1..each[c][s].queued : b = <<<<c, s>>, i>> BY <1>3
<1> QED BY <1>1, <1>4, <1>5, <1>6

LEMMA UpTo ==
  ASSUME NEW n \in Nat
  PROVE IsFiniteSet(1..n) /\ Cardinality(1..n) = n
<1>1. IsFiniteSet(1..n) /\ Cardinality(1..n) = IF 1 > n THEN 0 ELSE n - 1 + 1 BY FS_Interval
<1> QED BY <1>1

LEMMA Apart ==
  ASSUME NEW A, NEW B, IsFiniteSet(A), IsFiniteSet(B), A \cap B = {}
  PROVE /\ IsFiniteSet(A \cup B) /\ Cardinality(A \cup B) = Cardinality(A) + Cardinality(B)
        /\ Cardinality(A) \in Nat /\ Cardinality(B) \in Nat
<1>1. Cardinality(A) \in Nat /\ Cardinality(B) \in Nat BY FS_CardinalityType
<1>2. IsFiniteSet(A \cup B) /\ Cardinality(A \cup B) = Cardinality(A) + Cardinality(B) - Cardinality(A \cap B) BY FS_Union
<1>3. Cardinality(A \cap B) = 0 BY FS_EmptySet
<1> QED BY <1>1, <1>2, <1>3

(* Bytes of one side, and of one connection.                                *)
LEMMA OneByOne ==
  ASSUME NEW a, NEW n \in Nat
  PROVE IsFiniteSet({a} \X (1..n)) /\ Cardinality({a} \X (1..n)) = n
<1>1. IsFiniteSet({a}) /\ Cardinality({a}) = 1 BY FS_Singleton
<1>2. IsFiniteSet(1..n) /\ Cardinality(1..n) = n BY UpTo
<1>3. IsFiniteSet({a} \X (1..n)) /\ Cardinality({a} \X (1..n)) = Cardinality({a}) * Cardinality(1..n)
  BY <1>1, <1>2, FS_Product
<1> QED BY <1>1, <1>2, <1>3

LEMMA OwnBytes ==
  ASSUME NEW each \in [Conns -> Connection], NEW c \in Conns
  PROVE IsFiniteSet(Bytes(each, {c})) /\ Count(each, {c}) = Held(each[c])
<1> DEFINE x == each[c]
           C == {<<c, "client">>} \X (1..x.client.queued)
           U == {<<c, "upstream">>} \X (1..x.upstream.queued)
<1>1. x \in Connection OBVIOUS
<1>2. /\ x["client"] = x.client /\ x["upstream"] = x.upstream
      /\ x.client.queued \in Nat /\ x.upstream.queued \in Nat BY <1>1, SideOf
<1>3. Bytes(each, {c}) = C \cup U
  <2>1. ASSUME NEW b PROVE b \in Bytes(each, {c}) <=> b \in C \cup U
    BY <1>2, WhatWaits DEF Sides
  <2> QED BY <2>1
<1>6. IsFiniteSet(C) /\ Cardinality(C) = x.client.queued BY <1>2, OneByOne
<1>7. IsFiniteSet(U) /\ Cardinality(U) = x.upstream.queued BY <1>2, OneByOne
<1>8. C \cap U = {} OBVIOUS
<1> HIDE DEF C, U
<1>9. IsFiniteSet(C \cup U) /\ Cardinality(C \cup U) = x.client.queued + x.upstream.queued
  BY <1>6, <1>7, <1>8, Apart
<1> QED BY <1>2, <1>3, <1>9 DEF Count, Held

LEMMA CountPart ==
  ASSUME NEW each, NEW S, NEW T \in SUBSET S, IsFiniteSet(Bytes(each, S))
  PROVE /\ IsFiniteSet(Bytes(each, T)) /\ Count(each, T) \in Nat /\ Count(each, T) <= Count(each, S)
<1>1. Bytes(each, T) \in SUBSET Bytes(each, S) BY DEF Bytes
<1> QED BY <1>1, FS_Subset, FS_CardinalityType DEF Count

LEMMA CountSame ==
  ASSUME NEW X \in [Conns -> Connection], NEW Y \in [Conns -> Connection], NEW S \in SUBSET Conns,
         \A d \in S : \A s \in Sides : Y[d][s].queued = X[d][s].queued
  PROVE Bytes(Y, S) = Bytes(X, S)
<1>1. ASSUME NEW b PROVE b \in Bytes(Y, S) <=> b \in Bytes(X, S) BY WhatWaits
<1> QED BY <1>1

(* The share of one connection in what is counted.                          *)
Part(each, c, S) == IF c \in S THEN Held(each[c]) ELSE 0

LEMMA CountOut ==
  ASSUME NEW each \in [Conns -> Connection], NEW c \in Conns, NEW S \in SUBSET Conns, IsFiniteSet(Bytes(each, S \ {c}))
  PROVE IsFiniteSet(Bytes(each, S)) /\ Count(each, S) = Count(each, S \ {c}) + Part(each, c, S) /\ Part(each, c, S) \in Nat
<1> DEFINE R == S \ {c}
<1>1. IsFiniteSet(Bytes(each, R)) /\ Count(each, R) \in Nat BY FS_CardinalityType DEF Count
<1>2. CASE c \notin S
  <2>1. R = S BY <1>2
  <2> QED BY <1>1, <1>2, <2>1 DEF Part
<1>3. CASE c \in S
  <2>1. ASSUME NEW b PROVE b \in Bytes(each, S) <=> b \in Bytes(each, R) \/ b \in Bytes(each, {c})
    BY <1>3, WhatWaits
  <2>2. ASSUME NEW b PROVE ~(b \in Bytes(each, R) /\ b \in Bytes(each, {c})) BY WhatWaits
  <2>3. IsFiniteSet(Bytes(each, {c})) /\ Count(each, {c}) = Held(each[c]) BY OwnBytes
  <2>4. Bytes(each, S) = Bytes(each, R) \cup Bytes(each, {c}) BY <2>1
  <2>5. Bytes(each, R) \cap Bytes(each, {c}) = {} BY <2>2
  <2>6. /\ IsFiniteSet(Bytes(each, S)) /\ Count(each, S) = Count(each, R) + Count(each, {c})
        /\ Count(each, {c}) \in Nat
    <3> DEFINE A == Bytes(each, R)
               B == Bytes(each, {c})
    <3>1. IsFiniteSet(A) /\ IsFiniteSet(B) /\ A \cap B = {} /\ Bytes(each, S) = A \cup B BY <1>1, <2>3, <2>4, <2>5
    <3>2. /\ IsFiniteSet(A \cup B) /\ Cardinality(A \cup B) = Cardinality(A) + Cardinality(B)
          /\ Cardinality(A) \in Nat /\ Cardinality(B) \in Nat
      <4> HIDE DEF A, B
      <4> QED BY <3>1, Apart
    <3> QED BY <3>1, <3>2 DEF Count
  <2> QED BY <1>3, <2>3, <2>6 DEF Part
<1> QED BY <1>2, <1>3

(* One connection changes, in what waits for it or in where it is counted.  *)
LEMMA CountStep ==
  ASSUME NEW X \in [Conns -> Connection], NEW Y \in [Conns -> Connection], NEW c \in Conns,
         NEW S \in SUBSET Conns, NEW T \in SUBSET Conns, S \ {c} = T \ {c}, IsFiniteSet(Bytes(X, S)),
         \A d \in Conns \ {c} : \A s \in Sides : Y[d][s].queued = X[d][s].queued
  PROVE /\ IsFiniteSet(Bytes(Y, T))
        /\ Count(Y, T) = Count(X, S) - Part(X, c, S) + Part(Y, c, T)
        /\ Count(X, S) \in Nat /\ Count(Y, T) \in Nat /\ Part(X, c, S) \in Nat /\ Part(Y, c, T) \in Nat
<1>1. IsFiniteSet(Bytes(X, S \ {c})) /\ Count(X, S \ {c}) \in Nat /\ Count(X, S) \in Nat BY CountPart
<1>2. Bytes(Y, T \ {c}) = Bytes(X, S \ {c}) BY CountSame
<1>3. Count(X, S) = Count(X, S \ {c}) + Part(X, c, S) /\ Part(X, c, S) \in Nat BY <1>1, CountOut
<1>4. IsFiniteSet(Bytes(Y, T)) /\ Count(Y, T) = Count(Y, T \ {c}) + Part(Y, c, T) /\ Part(Y, c, T) \in Nat BY <1>1, <1>2, CountOut
<1> QED BY <1>1, <1>2, <1>3, <1>4 DEF Count

-----------------------------------------------------------------------------
(* What holds of one connection, whatever the others do.                    *)
Joined(x) == x.client.socket /\ x.upstream.socket

Shape(c, x) ==
    /\ \A s \in Sides : x[s].reads <=> x[s].socket /\ ~x[s].paused
    /\ x.outside = IF x.upstream.socket THEN {x.attempt} ELSE {}
    /\ x.caller = "asked" => x.share = Nobody /\ x.attempt = 0
    /\ x.phase = "closed" =>
         /\ x.caller = "asked" /\ x.client = NoSide /\ x.upstream = NoSide /\ ~x.quiet /\ x.outside = {}
    /\ x.phase \in {"head", "deciding"} =>
         /\ x.client.socket /\ x.client.queued = 0
         /\ ~x.upstream.socket /\ ~x.upstream.paused /\ ~x.upstream.ending /\ ~x.client.ending
    /\ x.phase = "head" => x.attempt = 0 /\ x.upstream.queued = 0 /\ ~x.client.paused
    /\ x.phase = "open" => x.attempt \notin x.waits /\ x.caller # "asked"
    /\ c \in Calls =>
         /\ ~x.upstream.socket /\ x.upstream.queued = 0 /\ x.attempt = 0
         /\ x.client.queued <= AnswerBytes
         /\ x.phase = "open" => x.client.socket
    /\ c \in Tunnels /\ x.phase = "open" =>
         \A s \in Sides : ~x[s].socket =>
            /\ x[s].queued = 0
            /\ x[Other(s)].socket /\ x[Other(s)].ending /\ x[Other(s)].queued > 0 /\ ~x[Other(s)].paused

(* Pauses, and what justifies them: bytes the other side has to take, or a  *)
(* budget crossed; and while the total is, every tunnel is paused.          *)
PausedFor(m, c, s) ==
    LET x == m.conn[c]
    IN  x.phase = "open" /\ Joined(x) /\ x[s].paused => x[Other(s)].queued > 0 \/ ~MayRead(m, c)
HeldBack(m, c, s) ==
    LET x == m.conn[c]
    IN  x.phase = "open" /\ Joined(x) /\ m.budget.saturated => x[s].paused

(* Only who is read, and who was told to pause, changed.                    *)
Alike(x, y) ==
    /\ y.phase = x.phase /\ y.caller = x.caller /\ y.share = x.share /\ y.quiet = x.quiet
    /\ y.attempt = x.attempt /\ y.waits = x.waits /\ y.outside = x.outside
    /\ \A s \in Sides : y[s].socket = x[s].socket /\ y[s].queued = x[s].queued /\ y[s].ending = x[s].ending

Passes(m, n, c) ==
    /\ Alike(m.conn[c], n.conn[c])
    /\ Shape(c, m.conn[c]) => Shape(c, n.conn[c])
    /\ m.conn[c].phase # "open" => n.conn[c] = m.conn[c]
    /\ \A s \in Sides : /\ PausedFor(m, c, s) => PausedFor(n, c, s)
                        /\ HeldBack(m, c, s) => HeldBack(n, c, s)

LEMMA Others ==
  /\ Other("client") = "upstream" /\ Other("upstream") = "client"
  /\ "client" \in Sides /\ "upstream" \in Sides
  /\ \A s \in Sides : Other(s) \in Sides /\ Other(s) # s /\ Other(Other(s)) = s
BY DEF Other, Sides

LEMMA StopFacts ==
  ASSUME NEW c \in Conns, NEW x \in Connection
  PROVE LET y == StopReading(x)
        IN  /\ y \in Connection /\ Alike(x, y) /\ (Shape(c, x) => Shape(c, y))
            /\ x.phase # "open" => y = x
            /\ \A s \in Sides : x[s].paused => y[s].paused
            /\ x.phase = "open" /\ Joined(x) => \A s \in Sides : y[s].paused
<1> DEFINE y == StopReading(x)
<1>1. CASE x.phase # "open" BY <1>1 DEF StopReading, Alike
<1>2. CASE x.phase = "open"
  <2>1. /\ x["client"] = x.client /\ x["upstream"] = x.upstream /\ x.client \in Side /\ x.upstream \in Side BY SideOf, Others
  <2>2. /\ y.client = IF x.upstream.socket /\ ~x.client.paused THEN Pause(x.client) ELSE x.client
        /\ y.upstream = IF x.client.socket /\ ~x.upstream.paused THEN Pause(x.upstream) ELSE x.upstream
        /\ y = [x EXCEPT !.client = y.client, !.upstream = y.upstream]
    BY <1>2 DEF StopReading, Connection
  <2>3. y.client \in Side /\ y.upstream \in Side BY <2>1, <2>2 DEF Side, Pause
  <2> HIDE DEF y
  <2>4. y \in Connection BY <2>2, <2>3 DEF Connection
  <2>5. y["client"] = y.client /\ y["upstream"] = y.upstream BY <2>4, SideOf
  <2>6. Alike(x, y)
    <3>1. /\ y.phase = x.phase /\ y.caller = x.caller /\ y.share = x.share /\ y.quiet = x.quiet
          /\ y.attempt = x.attempt /\ y.waits = x.waits /\ y.outside = x.outside
      BY <2>2 DEF Connection
    <3>2. /\ y.client.socket = x.client.socket /\ y.client.queued = x.client.queued /\ y.client.ending = x.client.ending
          /\ y.upstream.socket = x.upstream.socket /\ y.upstream.queued = x.upstream.queued
          /\ y.upstream.ending = x.upstream.ending
      BY <2>1, <2>2 DEF Side, Pause
    <3>3. \A s \in Sides : y[s].socket = x[s].socket /\ y[s].queued = x[s].queued /\ y[s].ending = x[s].ending
      BY <2>1, <2>5, <3>2 DEF Sides
    <3> QED BY <3>1, <3>3 DEF Alike
  <2>7. \A s \in Sides : x[s].paused => y[s].paused BY <2>1, <2>2, <2>5 DEF Sides, Side, Pause
  <2>8. Joined(x) => \A s \in Sides : y[s].paused BY <2>1, <2>2, <2>5 DEF Sides, Side, Pause, Joined
  <2>9. ASSUME Shape(c, x) PROVE Shape(c, y)
    <3>1. \A s \in Sides : y[s].reads <=> y[s].socket /\ ~y[s].paused
      BY <2>1, <2>2, <2>5, <2>9 DEF Shape, Sides, Side, Pause
    <3>2. ASSUME c \in Tunnels, NEW s \in Sides, ~y[s].socket
          PROVE y[s].queued = 0 /\ y[Other(s)].socket /\ y[Other(s)].ending /\ y[Other(s)].queued > 0 /\ ~y[Other(s)].paused
      <4>1. ~x[s].socket BY <2>6, <3>2 DEF Alike
      <4>2. x[s].queued = 0 /\ x[Other(s)].socket /\ x[Other(s)].ending /\ x[Other(s)].queued > 0 /\ ~x[Other(s)].paused
        BY <1>2, <2>9, <3>2, <4>1 DEF Shape
      <4>3. y[Other(s)] = x[Other(s)] BY <2>1, <2>2, <2>5, <4>1, Others DEF Sides
      <4> QED BY <2>6, <3>2, <4>2, <4>3 DEF Alike
    <3>3. y.client.queued = x.client.queued /\ y.upstream.queued = x.upstream.queued
      BY <2>1, <2>2 DEF Side, Pause
    <3>4. y.client.socket = x.client.socket /\ y.upstream.socket = x.upstream.socket
      BY <2>1, <2>2 DEF Side, Pause
    <3> QED BY <1>2, <2>6, <2>9, <3>1, <3>2, <3>3, <3>4 DEF Shape, Alike
  <2> QED BY <1>2, <2>4, <2>6, <2>7, <2>8, <2>9 DEF y
<1> QED BY <1>1, <1>2

LEMMA ResumeFacts ==
  ASSUME NEW m \in Proxy, NEW c \in Conns, NEW from \in Sides
  PROVE LET x == m.conn[c]
            n == ResumeIfAllowed(m, c, from)
            y == n.conn[c]
        IN  /\ n \in Proxy /\ n.budget = m.budget /\ \A d \in Conns \ {c} : n.conn[d] = m.conn[d]
            /\ Alike(x, y) /\ (Shape(c, x) => Shape(c, y))
            /\ ~(x.phase = "open" /\ Joined(x) /\ MayRead(m, c)) => n = m
            /\ y[Other(from)] = x[Other(from)]
            /\ y[from].paused => x[from].paused
            /\ x.phase = "open" /\ Joined(x) /\ MayRead(m, c) /\ y[from].paused => x[Other(from)].queued > 0
<1> DEFINE x == m.conn[c]
           n == ResumeIfAllowed(m, c, from)
           y == n.conn[c]
           to == Other(from)
<1>1. x \in Connection /\ to \in Sides /\ to # from BY Others DEF Proxy
<1>2. x[from] \in Side /\ x[to] \in Side BY <1>1, SideOf
<1>3. x["client"] = x.client /\ x["upstream"] = x.upstream BY <1>1, SideOf
<1>4. Joined(x) <=> x[from].socket /\ x[to].socket BY <1>3, Others DEF Joined, Sides
<1>5. CASE ~(x.phase = "open" /\ x[from].socket /\ x[to].socket /\ x[to].queued = 0 /\ MayRead(m, c))
  <2>1. n = m BY <1>5 DEF ResumeIfAllowed
  <2>2. x[to].queued \in Nat BY <1>2 DEF Side
  <2> QED BY <1>4, <1>5, <2>1, <2>2 DEF Alike
<1>6. CASE x.phase = "open" /\ x[from].socket /\ x[to].socket /\ x[to].queued = 0 /\ MayRead(m, c)
  <2>1. n = [m EXCEPT !.conn[c][from] = Resume(@)] BY <1>6 DEF ResumeIfAllowed
  <2>2. Resume(x[from]) \in Side /\ Resume(x[from]) = [x[from] EXCEPT !.paused = FALSE, !.reads = TRUE] BY <1>2, <1>6 DEF Side, Resume
  <2>3. /\ n.budget = m.budget /\ \A d \in Conns \ {c} : n.conn[d] = m.conn[d]
        /\ n.conn = [m.conn EXCEPT ![c] = y] /\ y = [x EXCEPT ![from] = Resume(@)]
    BY <2>1 DEF Proxy
  <2> HIDE DEF n, y
  <2>4. y \in Connection BY <1>1, <2>2, <2>3 DEF Connection, Sides
  <2>5. n \in Proxy BY <2>1, <2>3, <2>4 DEF Proxy
  <2>6. y[from] = Resume(x[from]) /\ y[to] = x[to] BY <1>1, <2>3 DEF Connection, Sides
  <2>7. Alike(x, y)
    <3>1. /\ y.phase = x.phase /\ y.caller = x.caller /\ y.share = x.share /\ y.quiet = x.quiet
          /\ y.attempt = x.attempt /\ y.waits = x.waits /\ y.outside = x.outside
      BY <1>1, <2>3 DEF Connection, Sides
    <3>2. \A s \in Sides : s = from \/ s = to BY <1>1 DEF Sides
    <3>3. \A s \in Sides : y[s].socket = x[s].socket /\ y[s].queued = x[s].queued /\ y[s].ending = x[s].ending
      <4>1. /\ Resume(x[from]).socket = x[from].socket /\ Resume(x[from]).queued = x[from].queued
            /\ Resume(x[from]).ending = x[from].ending BY <1>2, <2>2 DEF Side
      <4> QED BY <2>6, <3>2, <4>1
    <3> QED BY <3>1, <3>3 DEF Alike
  <2>8. ~y[from].paused /\ y[from].reads BY <1>2, <2>2, <2>6 DEF Side
  <2>9. ASSUME Shape(c, x) PROVE Shape(c, y)
    <3>1. y["client"] = y.client /\ y["upstream"] = y.upstream BY <2>4, SideOf
    <3>2. \A s \in Sides : y[s].socket BY <1>1, <1>6, <2>7 DEF Alike, Sides
    <3>3. \A s \in Sides : y[s].reads <=> y[s].socket /\ ~y[s].paused
      BY <1>1, <2>6, <2>8, <2>9, <3>2 DEF Shape, Sides
    <3>4. /\ y.client.queued = x.client.queued /\ y.upstream.queued = x.upstream.queued
          /\ y.client.socket = x.client.socket /\ y.upstream.socket = x.upstream.socket
      BY <1>3, <2>7, <3>1, Others DEF Alike
    <3> QED BY <1>6, <2>7, <2>9, <3>2, <3>3, <3>4 DEF Shape, Alike
  <2>10. ~(x.phase = "open" /\ Joined(x) /\ MayRead(m, c)) => n = m BY <1>4, <1>6
  <2> QED BY <2>3, <2>5, <2>6, <2>7, <2>8, <2>9, <2>10 DEF n, y
<1> QED BY <1>5, <1>6

LEMMA StartFacts ==
  ASSUME NEW m \in Proxy, NEW c \in Conns
  PROVE LET x == m.conn[c]
            n == StartReading(m, c)
            y == n.conn[c]
        IN  /\ y \in Connection /\ Alike(x, y) /\ (Shape(c, x) => Shape(c, y))
            /\ ~(x.phase = "open" /\ Joined(x) /\ MayRead(m, c)) => y = x
            /\ \A s \in Sides : y[s].paused => x[s].paused
            /\ x.phase = "open" /\ Joined(x) /\ MayRead(m, c) => \A s \in Sides : y[s].paused => x[Other(s)].queued > 0
<1> DEFINE x == m.conn[c]
           one == ResumeIfAllowed(m, c, "client")
           z == one.conn[c]
           two == ResumeIfAllowed(one, c, "upstream")
           y == two.conn[c]
<1>1. /\ one \in Proxy /\ one.budget = m.budget /\ Alike(x, z) /\ (Shape(c, x) => Shape(c, z))
      /\ ~(x.phase = "open" /\ Joined(x) /\ MayRead(m, c)) => one = m
      /\ z["upstream"] = x["upstream"] /\ (z["client"].paused => x["client"].paused)
      /\ x.phase = "open" /\ Joined(x) /\ MayRead(m, c) /\ z["client"].paused => x["upstream"].queued > 0
  BY Others, ResumeFacts
<1> HIDE DEF one
<1>2. /\ two \in Proxy /\ Alike(z, y) /\ (Shape(c, z) => Shape(c, y))
      /\ ~(z.phase = "open" /\ Joined(z) /\ MayRead(one, c)) => two = one
      /\ y["client"] = z["client"] /\ (y["upstream"].paused => z["upstream"].paused)
      /\ z.phase = "open" /\ Joined(z) /\ MayRead(one, c) /\ y["upstream"].paused => z["client"].queued > 0
  BY <1>1, Others, ResumeFacts
<1> HIDE DEF two
<1>3. x \in Connection /\ z \in Connection /\ y \in Connection BY <1>1, <1>2 DEF Proxy
<1>4. MayRead(one, c) <=> MayRead(m, c) BY <1>1 DEF MayRead, Alike
<1>5. /\ x["client"] = x.client /\ x["upstream"] = x.upstream /\ z["client"] = z.client /\ z["upstream"] = z.upstream
  BY <1>3, SideOf
<1>6. z.phase = x.phase /\ (Joined(z) <=> Joined(x)) BY <1>1, <1>5, Others DEF Alike, Joined
<1>7. Alike(x, y) BY <1>1, <1>2 DEF Alike
<1>8. ~(x.phase = "open" /\ Joined(x) /\ MayRead(m, c)) => y = x BY <1>1, <1>2, <1>4, <1>6
<1>9. \A s \in Sides : y[s].paused => x[s].paused BY <1>1, <1>2 DEF Sides
<1>10. z["client"].queued = x["client"].queued BY <1>1, Others DEF Alike
<1>11. x.phase = "open" /\ Joined(x) /\ MayRead(m, c) => \A s \in Sides : y[s].paused => x[Other(s)].queued > 0
  BY <1>1, <1>2, <1>4, <1>6, <1>10, Others DEF Sides
<1> QED BY <1>1, <1>2, <1>3, <1>7, <1>8, <1>9, <1>11 DEF StartReading, one, two

-----------------------------------------------------------------------------
(* Crossing a budget, and crossing it back.                                 *)
Above(b, p) == 2 * b.of[p] > ProjectBuffer
Marked(b) ==
    /\ \A p \in b.blocked : Above(b, p)
    /\ b.saturated => 2 * b.held > TotalBuffer
    /\ ~b.saturated => b.held <= TotalBuffer

LEMMA Numbers ==
  /\ MaxConnections \in Nat /\ MaxPerProject \in Nat /\ ProjectBuffer \in Nat /\ TotalBuffer \in Nat
  /\ Addresses \in Nat /\ BufferBytes \in Nat /\ PendingBytes \in Nat /\ AnswerBytes \in Nat
BY NumbersAssumption

LEMMA OverFacts ==
  ASSUME NEW m \in Proxy, NEW p \in Projects \cup {Nobody},
         \A q \in m.budget.blocked : Above(m.budget, q), m.budget.saturated => 2 * m.budget.held > TotalBuffer
  PROVE LET n == OverBudget(m, p)
        IN  /\ n \in Proxy /\ n.budget.held = m.budget.held /\ n.budget.of = m.budget.of
            /\ Marked(n.budget) /\ \A d \in Conns : Passes(m, n, d)
<1> DEFINE n == OverBudget(m, p)
           blocks == p \in Projects /\ p \notin m.budget.blocked /\ m.budget.of[p] > ProjectBuffer
           saturates == ~m.budget.saturated /\ m.budget.held > TotalBuffer
           S == (IF blocks THEN Members(m, p) ELSE {}) \cup (IF saturates THEN Conns ELSE {})
           marks == [m EXCEPT !.budget.blocked = IF blocks THEN @ \cup {p} ELSE @,
                              !.budget.saturated = @ \/ saturates]
<1>1. /\ marks \in Proxy /\ marks.conn = m.conn
      /\ marks.budget.held = m.budget.held /\ marks.budget.of = m.budget.of
      /\ marks.budget.blocked = IF blocks THEN m.budget.blocked \cup {p} ELSE m.budget.blocked
      /\ marks.budget.saturated <=> m.budget.saturated \/ saturates
  BY DEF Proxy, Admission
<1>2. n = Stopped(marks, S) BY DEF OverBudget
<1> HIDE DEF marks, n
<1>3. /\ n.budget = marks.budget
      /\ n.conn = [d \in Conns |-> IF d \in S THEN StopReading(m.conn[d]) ELSE m.conn[d]]
  BY <1>1, <1>2 DEF Stopped, Proxy
<1>4. \A d \in Conns : StopReading(m.conn[d]) \in Connection BY StopFacts DEF Proxy
<1>5. n \in Proxy
  <2>1. n = [marks EXCEPT !.conn = n.conn] BY <1>2 DEF Stopped, Proxy
  <2>2. n.conn \in [Conns -> Connection] BY <1>3, <1>4 DEF Proxy
  <2> QED BY <1>1, <2>1, <2>2 DEF Proxy
<1>6. Marked(n.budget)
  <2>1. m.budget.of \in [Projects -> Nat] /\ m.budget.held \in Nat /\ m.budget.blocked \subseteq Projects
    BY DEF Proxy, Admission
  <2>2. ASSUME NEW q \in n.budget.blocked PROVE Above(n.budget, q)
    <3>1. q \in Projects /\ m.budget.of[q] \in Nat BY <1>1, <1>3, <2>1, <2>2
    <3>2. q \in m.budget.blocked \/ m.budget.of[q] > ProjectBuffer BY <1>1, <1>3, <2>2
    <3>3. 2 * m.budget.of[q] > ProjectBuffer BY <3>1, <3>2, Numbers DEF Above
    <3> QED BY <1>1, <1>3, <3>3 DEF Above
  <2>3. /\ m.budget.held > TotalBuffer => 2 * m.budget.held > TotalBuffer
        /\ ~(m.budget.held > TotalBuffer) => m.budget.held <= TotalBuffer BY <2>1, Numbers
  <2>4. /\ n.budget.saturated <=> m.budget.saturated \/ m.budget.held > TotalBuffer
        /\ n.budget.held = m.budget.held BY <1>1, <1>3
  <2>5. /\ n.budget.saturated => 2 * n.budget.held > TotalBuffer
        /\ ~n.budget.saturated => n.budget.held <= TotalBuffer BY <2>3, <2>4
  <2> QED BY <2>2, <2>5 DEF Marked
<1>7. ASSUME NEW d \in Conns PROVE Passes(m, n, d)
  <2> DEFINE x == m.conn[d]
             y == n.conn[d]
  <2>1. x \in Connection BY DEF Proxy
  <2>2. y = IF d \in S THEN StopReading(x) ELSE x BY <1>3
  <2>3. /\ Alike(x, y) /\ (Shape(d, x) => Shape(d, y)) /\ (x.phase # "open" => y = x)
        /\ \A s \in Sides : x[s].paused => y[s].paused
        /\ d \in S /\ x.phase = "open" /\ Joined(x) => \A s \in Sides : y[s].paused
    BY <2>1, <2>2, StopFacts DEF Alike
  <2>4. y.phase = x.phase /\ y.share = x.share /\ (Joined(y) <=> Joined(x))
    BY <1>5, <2>1, <2>3, SideOf, Others DEF Alike, Joined, Proxy
  <2>5. ~MayRead(m, d) => ~MayRead(n, d) BY <1>1, <1>3, <2>4 DEF MayRead
  <2>6. d \in S => ~MayRead(n, d) BY <1>1, <1>3, <2>4 DEF MayRead, Members
  <2>7. ASSUME NEW s \in Sides, PausedFor(m, d, s) PROVE PausedFor(n, d, s)
    <3>1. Other(s) \in Sides BY Others
    <3> QED BY <2>2, <2>3, <2>4, <2>5, <2>6, <2>7, <3>1 DEF PausedFor, Alike
  <2>8. ASSUME NEW s \in Sides, HeldBack(m, d, s) PROVE HeldBack(n, d, s)
    <3>1. n.budget.saturated /\ ~m.budget.saturated => d \in S BY <1>1, <1>3
    <3> QED BY <2>3, <2>4, <2>8, <3>1 DEF HeldBack
  <2> QED BY <2>3, <2>7, <2>8 DEF Passes
<1> QED BY <1>1, <1>3, <1>5, <1>6, <1>7 DEF n

LEMMA UnderFacts ==
  ASSUME NEW m \in Proxy, NEW p \in Projects \cup {Nobody},
         \A q \in m.budget.blocked \ {p} : Above(m.budget, q), ~m.budget.saturated => m.budget.held <= TotalBuffer
  PROVE LET n == UnderBudget(m, p)
        IN  /\ n \in Proxy /\ n.budget.held = m.budget.held /\ n.budget.of = m.budget.of
            /\ Marked(n.budget) /\ \A d \in Conns : Passes(m, n, d)
            /\ \A d \in Conns : ~Joined(m.conn[d]) => n.conn[d] = m.conn[d]
<1> DEFINE n == UnderBudget(m, p)
           unblocks == p \in m.budget.blocked /\ 2 * m.budget.of[p] <= ProjectBuffer
           drains == m.budget.saturated /\ 2 * m.budget.held <= TotalBuffer
           S == (IF unblocks THEN Members(m, p) ELSE {}) \cup (IF drains THEN Conns ELSE {})
           marks == [m EXCEPT !.budget.blocked = IF unblocks THEN @ \ {p} ELSE @,
                              !.budget.saturated = @ /\ ~drains]
<1>1. /\ marks \in Proxy /\ marks.conn = m.conn
      /\ marks.budget.held = m.budget.held /\ marks.budget.of = m.budget.of
      /\ marks.budget.blocked = IF unblocks THEN m.budget.blocked \ {p} ELSE m.budget.blocked
      /\ marks.budget.saturated <=> m.budget.saturated /\ ~drains
  BY DEF Proxy, Admission
<1>2. n = Started(marks, S) BY DEF UnderBudget
<1> HIDE DEF marks, n
<1>3. /\ n.budget = marks.budget
      /\ n.conn = [d \in Conns |-> IF d \in S THEN StartReading(marks, d).conn[d] ELSE m.conn[d]]
  BY <1>1, <1>2 DEF Started, Proxy
<1>4. \A d \in Conns : StartReading(marks, d).conn[d] \in Connection BY <1>1, StartFacts
<1>5. n \in Proxy
  <2>1. n = [marks EXCEPT !.conn = n.conn] BY <1>2 DEF Started, Proxy
  <2>2. n.conn \in [Conns -> Connection] BY <1>3, <1>4 DEF Proxy
  <2> QED BY <1>1, <2>1, <2>2 DEF Proxy
<1>6. Marked(n.budget)
  <2>1. m.budget.of \in [Projects -> Nat] /\ m.budget.held \in Nat /\ m.budget.blocked \subseteq Projects
    BY DEF Proxy, Admission
  <2>2. ASSUME NEW q \in n.budget.blocked PROVE Above(n.budget, q)
    <3>1. q \in m.budget.blocked /\ q \in Projects /\ m.budget.of[q] \in Nat BY <1>1, <1>3, <2>1, <2>2
    <3>2. CASE q = p
      <4>1. ~(2 * m.budget.of[q] <= ProjectBuffer) BY <1>1, <1>3, <2>2, <3>1, <3>2
      <4>2. 2 * m.budget.of[q] > ProjectBuffer BY <3>1, <4>1, Numbers
      <4> QED BY <1>1, <1>3, <4>2 DEF Above
    <3>3. CASE q # p BY <1>1, <1>3, <3>1, <3>3 DEF Above
    <3> QED BY <3>2, <3>3
  <2>3. /\ ~(2 * m.budget.held <= TotalBuffer) => 2 * m.budget.held > TotalBuffer
        /\ 2 * m.budget.held <= TotalBuffer => m.budget.held <= TotalBuffer BY <2>1, Numbers
  <2>4. /\ n.budget.saturated <=> m.budget.saturated /\ ~(2 * m.budget.held <= TotalBuffer)
        /\ n.budget.held = m.budget.held BY <1>1, <1>3
  <2>5. /\ n.budget.saturated => 2 * n.budget.held > TotalBuffer
        /\ ~n.budget.saturated => n.budget.held <= TotalBuffer BY <2>3, <2>4
  <2> QED BY <2>2, <2>5 DEF Marked
<1>7. ASSUME NEW d \in Conns PROVE Passes(m, n, d) /\ (~Joined(m.conn[d]) => n.conn[d] = m.conn[d])
  <2> DEFINE x == m.conn[d]
             y == n.conn[d]
  <2>1. x \in Connection /\ marks.conn[d] = x BY <1>1 DEF Proxy
  <2>2. y = IF d \in S THEN StartReading(marks, d).conn[d] ELSE x BY <1>3
  <2>3. /\ Alike(x, y) /\ (Shape(d, x) => Shape(d, y))
        /\ ~(x.phase = "open" /\ Joined(x) /\ MayRead(marks, d)) => y = x
        /\ d \in S /\ x.phase = "open" /\ Joined(x) /\ MayRead(marks, d) =>
             \A s \in Sides : y[s].paused => x[Other(s)].queued > 0
        /\ \A s \in Sides : y[s].paused => x[s].paused
    BY <1>1, <2>1, <2>2, StartFacts DEF Alike
  <2>4. y.phase = x.phase /\ y.share = x.share /\ (Joined(y) <=> Joined(x))
    BY <1>5, <2>1, <2>3, SideOf, Others DEF Alike, Joined, Proxy
  <2>5. MayRead(marks, d) <=> MayRead(n, d) BY <1>3, <2>1, <2>4 DEF MayRead
  <2>6. d \notin S /\ x.phase # "closed" => (MayRead(marks, d) <=> MayRead(m, d))
    BY <1>1, <2>1 DEF MayRead, Members, Alive
  <2>7. ASSUME NEW s \in Sides, PausedFor(m, d, s) PROVE PausedFor(n, d, s)
    <3>1. Other(s) \in Sides BY Others
    <3>2. CASE d \in S BY <2>3, <2>4, <2>5, <3>1, <3>2 DEF PausedFor, Alike
    <3>3. CASE d \notin S BY <2>2, <2>5, <2>6, <2>7, <3>3 DEF PausedFor
    <3> QED BY <3>2, <3>3
  <2>8. ASSUME NEW s \in Sides, HeldBack(m, d, s) PROVE HeldBack(n, d, s)
    <3>1. n.budget.saturated => m.budget.saturated /\ ~MayRead(marks, d) BY <1>1, <1>3 DEF MayRead
    <3> QED BY <2>3, <2>8, <3>1 DEF HeldBack
  <2> QED BY <2>3, <2>7, <2>8 DEF Passes
<1> QED BY <1>1, <1>3, <1>5, <1>6, <1>7 DEF n

(* Bytes that start or stop waiting in one connection.                      *)
LEMMA AccountFacts ==
  ASSUME NEW m \in Proxy, NEW c \in Conns, NEW bytes \in Int, Marked(m.budget),
         m.budget.held + bytes \in Nat, Adds(m, m.conn[c].share, bytes) \in [Projects -> Nat]
  PROVE LET n == Account(m, c, bytes)
        IN  /\ n \in Proxy /\ n.budget.held = m.budget.held + bytes
            /\ n.budget.of = Adds(m, m.conn[c].share, bytes)
            /\ Marked(n.budget) /\ \A d \in Conns : Passes(m, n, d)
            /\ bytes <= 0 => \A d \in Conns : ~Joined(m.conn[d]) => n.conn[d] = m.conn[d]
<1> DEFINE p == m.conn[c].share
           of == Adds(m, p, bytes)
           counted == [m EXCEPT !.budget.held = @ + bytes, !.budget.of = of]
           n == Account(m, c, bytes)
<1>1. /\ n = IF bytes > 0 THEN OverBudget(counted, p)
             ELSE IF bytes < 0 THEN UnderBudget(counted, p)
             ELSE counted
  BY DEF Account
<1>2. p \in Projects \cup {Nobody} BY DEF Proxy, Connection
<1>3. m.budget.of \in [Projects -> Nat] /\ m.budget.held \in Nat /\ m.budget.blocked \subseteq Projects
  BY DEF Proxy, Admission
<1>4. /\ counted.conn = m.conn /\ counted.budget.held = m.budget.held + bytes /\ counted.budget.of = of
      /\ counted.budget.blocked = m.budget.blocked /\ counted.budget.saturated = m.budget.saturated
      /\ counted \in Proxy
  BY DEF Proxy, Admission
<1> HIDE DEF counted, n
<1>5. \A q \in Projects \ {p} : of[q] = m.budget.of[q] BY <1>3 DEF Adds
<1>6. p \in Projects => of[p] = m.budget.of[p] \/ of[p] = m.budget.of[p] + bytes BY <1>3 DEF Adds
<1>7. \A d \in Conns : Passes(m, counted, d)
  BY <1>4 DEF Passes, Alike, PausedFor, HeldBack, MayRead
<1>8. \A d \in Conns : counted.conn[d] = m.conn[d] BY <1>4
<1>9. CASE bytes > 0
  <2>1. ASSUME NEW q \in counted.budget.blocked PROVE Above(counted.budget, q)
    <3>1. q \in Projects /\ 2 * m.budget.of[q] > ProjectBuffer BY <1>3, <1>4, <2>1 DEF Marked, Above
    <3>2. m.budget.of[q] \in Nat /\ (of[q] = m.budget.of[q] \/ of[q] = m.budget.of[q] + bytes) BY <1>3, <1>5, <1>6, <3>1
    <3>3. 2 * of[q] > ProjectBuffer BY <1>9, <3>1, <3>2, Numbers
    <3> QED BY <1>4, <3>3 DEF Above
  <2>2. counted.budget.saturated => 2 * counted.budget.held > TotalBuffer
    BY <1>3, <1>4, <1>9, Numbers DEF Marked
  <2>3. /\ n \in Proxy /\ n.budget.held = counted.budget.held /\ n.budget.of = counted.budget.of
        /\ Marked(n.budget) /\ \A d \in Conns : Passes(counted, n, d)
    BY <1>1, <1>2, <1>4, <1>9, <2>1, <2>2, OverFacts
  <2>4. \A d \in Conns : Passes(m, n, d) BY <1>7, <1>8, <2>3 DEF Passes
  <2> QED BY <1>4, <1>9, <2>3, <2>4 DEF n
<1>10. CASE bytes < 0
  <2>1. ASSUME NEW q \in counted.budget.blocked \ {p} PROVE Above(counted.budget, q)
    BY <1>3, <1>4, <1>5 DEF Marked, Above
  <2>2. ~counted.budget.saturated => counted.budget.held <= TotalBuffer
    BY <1>3, <1>4, <1>10, Numbers DEF Marked
  <2>3. /\ n \in Proxy /\ n.budget.held = counted.budget.held /\ n.budget.of = counted.budget.of
        /\ Marked(n.budget) /\ \A d \in Conns : Passes(counted, n, d)
        /\ \A d \in Conns : ~Joined(counted.conn[d]) => n.conn[d] = counted.conn[d]
    <3>1. n = UnderBudget(counted, p) BY <1>1, <1>10
    <3> QED BY <1>2, <1>4, <2>1, <2>2, <3>1, UnderFacts
  <2>4. \A d \in Conns : Passes(m, n, d) BY <1>7, <1>8, <2>3 DEF Passes
  <2> QED BY <1>4, <1>8, <1>10, <2>3, <2>4 DEF n
<1>11. CASE bytes = 0
  <2>1. n = counted BY <1>1, <1>11
  <2>2. of = m.budget.of BY <1>3, <1>11 DEF Adds
  <2>3. Marked(n.budget) BY <1>3, <1>4, <1>11, <2>1, <2>2 DEF Marked, Above
  <2> QED BY <1>4, <1>7, <1>8, <1>11, <2>1, <2>3 DEF n
<1> QED BY <1>9, <1>10, <1>11

-----------------------------------------------------------------------------
(* The invariant: what the admission counted is what waits, its marks are   *)
(* those of what it counted, and each connection is as its phase says and   *)
(* paused for a reason.                                                     *)
Minded(m, c) == \A s \in Sides : PausedFor(m, c, s) /\ HeldBack(m, c, s)

Tallied(m) ==
    /\ IsFiniteSet(Bytes(m.conn, Conns))
    /\ m.budget.held = Count(m.conn, Conns)
    /\ \A p \in Projects : m.budget.of[p] = Count(m.conn, Members(m, p))

(* All of it, but for a connection a step is still at work on.              *)
Steady(m, c) ==
    /\ m \in Proxy /\ Tallied(m) /\ Marked(m.budget)
    /\ \A d \in Conns \ {c} : Shape(d, m.conn[d]) /\ Minded(m, d)

Sound(m) ==
    /\ m \in Proxy /\ Tallied(m) /\ Marked(m.budget)
    /\ \A d \in Conns : Shape(d, m.conn[d]) /\ Minded(m, d)

Untouched(m, n, c) == \A d \in Conns \ {c} : Alike(m.conn[d], n.conn[d])

LEMMA SoundWhenSteady ==
  ASSUME NEW m, NEW c \in Conns
  PROVE /\ Sound(m) <=> Steady(m, c) /\ Shape(c, m.conn[c]) /\ Minded(m, c)
        /\ m.conn[c].phase # "open" \/ ~Joined(m.conn[c]) => Minded(m, c)
BY DEF Sound, Steady, Minded, PausedFor, HeldBack

LEMMA UntouchedOn ==
  ASSUME NEW k, NEW m, NEW n, NEW c, Untouched(k, m, c), Untouched(m, n, c)
  PROVE Untouched(k, n, c)
BY DEF Untouched, Alike

(* Where a connection is counted.                                           *)
LEMMA MembersKept ==
  ASSUME NEW m \in Proxy, NEW n \in Proxy, NEW c \in Conns, Untouched(m, n, c), NEW p
  PROVE Members(n, p) \ {c} = Members(m, p) \ {c}
BY DEF Members, Untouched, Alike, Alive

LEMMA TallyStep ==
  ASSUME NEW m \in Proxy, NEW n \in Proxy, NEW c \in Conns, Untouched(m, n, c), Tallied(m)
  PROVE /\ IsFiniteSet(Bytes(n.conn, Conns))
        /\ Count(n.conn, Conns) = m.budget.held - Held(m.conn[c]) + Held(n.conn[c])
        /\ Count(n.conn, Conns) \in Nat
        /\ \A p \in Projects :
             /\ Count(n.conn, Members(n, p)) =
                  m.budget.of[p] - Part(m.conn, c, Members(m, p)) + Part(n.conn, c, Members(n, p))
             /\ Count(n.conn, Members(n, p)) \in Nat
        /\ Count(n.conn, Tunnels) = Count(m.conn, Tunnels) - Part(m.conn, c, Tunnels) + Part(n.conn, c, Tunnels)
        /\ Count(n.conn, Tunnels) \in Nat /\ Count(m.conn, Tunnels) \in Nat
        /\ Count(n.conn, Tunnels) <= Count(n.conn, Conns)
<1> DEFINE X == m.conn
           Y == n.conn
<1>1. X \in [Conns -> Connection] /\ Y \in [Conns -> Connection] BY DEF Proxy
<1>2. \A d \in Conns \ {c} : \A s \in Sides : Y[d][s].queued = X[d][s].queued BY DEF Untouched, Alike
<1>3. IsFiniteSet(Bytes(X, Conns)) BY DEF Tallied
<1>4. /\ IsFiniteSet(Bytes(Y, Conns)) /\ Count(Y, Conns) = Count(X, Conns) - Held(X[c]) + Held(Y[c])
      /\ Count(Y, Conns) \in Nat
  <2>1. /\ IsFiniteSet(Bytes(Y, Conns)) /\ Count(Y, Conns) = Count(X, Conns) - Part(X, c, Conns) + Part(Y, c, Conns)
        /\ Count(Y, Conns) \in Nat
    <3>1. Conns \ {c} = Conns \ {c} /\ Conns \in SUBSET Conns OBVIOUS
    <3> HIDE DEF X, Y
    <3> QED BY <1>1, <1>2, <1>3, <3>1, CountStep
  <2> QED BY <2>1 DEF Part
<1>5. ASSUME NEW p \in Projects
      PROVE /\ Count(Y, Members(n, p)) = m.budget.of[p] - Part(X, c, Members(m, p)) + Part(Y, c, Members(n, p))
            /\ Count(Y, Members(n, p)) \in Nat
  <2> DEFINE S == Members(m, p)
             T == Members(n, p)
  <2>1. S \in SUBSET Conns /\ T \in SUBSET Conns BY DEF Members
  <2>2. S \ {c} = T \ {c} BY MembersKept
  <2>3. IsFiniteSet(Bytes(X, S)) BY <1>3, <2>1, CountPart
  <2>4. Count(Y, T) = Count(X, S) - Part(X, c, S) + Part(Y, c, T) /\ Count(Y, T) \in Nat
    <3> HIDE DEF X, Y, S, T
    <3> QED BY <1>1, <1>2, <2>1, <2>2, <2>3, CountStep
  <2> QED BY <2>4 DEF Tallied
<1>6. /\ Count(Y, Tunnels) = Count(X, Tunnels) - Part(X, c, Tunnels) + Part(Y, c, Tunnels)
      /\ Count(Y, Tunnels) \in Nat /\ Count(X, Tunnels) \in Nat
  <2>1. Tunnels \in SUBSET Conns BY DEF Conns
  <2>2. IsFiniteSet(Bytes(X, Tunnels)) BY <1>3, <2>1, CountPart
  <2> HIDE DEF X, Y
  <2> QED BY <1>1, <1>2, <2>1, <2>2, CountStep
<1>7. Count(Y, Tunnels) <= Count(Y, Conns)
  <2>1. Tunnels \in SUBSET Conns BY DEF Conns
  <2> QED BY <1>4, <2>1, CountPart
<1> QED BY <1>4, <1>5, <1>6, <1>7 DEF Tallied

(* Nothing that is counted changes.                                         *)
LEMMA SteadyStep ==
  ASSUME NEW m, NEW n \in Proxy, NEW c \in Conns, Steady(m, c), n.budget = m.budget,
         \A d \in Conns \ {c} : n.conn[d] = m.conn[d],
         \A s \in Sides : n.conn[c][s].queued = m.conn[c][s].queued,
         n.conn[c].share = m.conn[c].share,
         (Alive(n.conn[c]) <=> Alive(m.conn[c])) \/ m.conn[c].share = Nobody
  PROVE Steady(n, c) /\ Untouched(m, n, c) /\ Held(n.conn[c]) = Held(m.conn[c])
<1>1. m \in Proxy /\ Tallied(m) BY DEF Steady
<1>2. Untouched(m, n, c) BY DEF Untouched, Alike
<1>3. Held(n.conn[c]) = Held(m.conn[c]) /\ Held(m.conn[c]) \in Nat
  <2>1. n.conn[c] \in Connection /\ m.conn[c] \in Connection BY <1>1 DEF Proxy
  <2> QED BY <2>1, SideOf, Others DEF Held
<1>4. ASSUME NEW p \in Projects PROVE Part(n.conn, c, Members(n, p)) = Part(m.conn, c, Members(m, p)) /\ Part(m.conn, c, Members(m, p)) \in Nat
  <2>1. p # Nobody BY KindsAssumption
  <2>2. c \in Members(n, p) <=> c \in Members(m, p) BY <2>1 DEF Members
  <2> QED BY <1>3, <2>2 DEF Part
<1>5. Tallied(n)
  <2>1. IsFiniteSet(Bytes(n.conn, Conns)) BY <1>1, <1>2, TallyStep
  <2>2. n.budget.held = Count(n.conn, Conns)
    <3>1. Count(n.conn, Conns) = m.budget.held - Held(m.conn[c]) + Held(n.conn[c]) BY <1>1, <1>2, TallyStep
    <3>2. m.budget.held \in Nat BY <1>1 DEF Proxy, Admission
    <3> QED BY <1>3, <3>1, <3>2
  <2>3. ASSUME NEW p \in Projects PROVE n.budget.of[p] = Count(n.conn, Members(n, p))
    <3>1. Count(n.conn, Members(n, p)) = m.budget.of[p] - Part(m.conn, c, Members(m, p)) + Part(n.conn, c, Members(n, p))
      BY <1>1, <1>2, TallyStep
    <3>2. m.budget.of[p] \in Nat BY <1>1 DEF Proxy, Admission
    <3> QED BY <1>4, <3>1, <3>2
  <2> QED BY <2>1, <2>2, <2>3 DEF Tallied
<1>6. ASSUME NEW d \in Conns \ {c} PROVE Shape(d, n.conn[d]) /\ Minded(n, d)
  <2>1. Shape(d, m.conn[d]) /\ Minded(m, d) BY DEF Steady
  <2> QED BY <2>1 DEF Minded, PausedFor, HeldBack, MayRead
<1>7. Marked(n.budget) BY DEF Steady
<1> QED BY <1>2, <1>3, <1>5, <1>6, <1>7 DEF Steady

(* Bytes of one connection change, and are accounted.                       *)
LEMMA AccountStep ==
  ASSUME NEW m, NEW k \in Proxy, NEW c \in Conns, Steady(m, c), k.budget = m.budget,
         \A d \in Conns \ {c} : k.conn[d] = m.conn[d],
         k.conn[c].share = m.conn[c].share, Alive(k.conn[c]), Alive(m.conn[c]),
         NEW bytes \in Int, Held(k.conn[c]) = Held(m.conn[c]) + bytes
  PROVE LET n == Account(k, c, bytes)
        IN  /\ Steady(n, c) /\ Untouched(m, n, c) /\ Passes(k, n, c)
            /\ bytes <= 0 /\ ~Joined(k.conn[c]) => n.conn[c] = k.conn[c]
<1> DEFINE n == Account(k, c, bytes)
           share == k.conn[c].share
<1>1. m \in Proxy /\ Tallied(m) /\ Marked(m.budget) BY DEF Steady
<1>2. Untouched(m, k, c) BY DEF Untouched, Alike
<1>3. Held(k.conn[c]) \in Nat /\ Held(m.conn[c]) \in Nat BY <1>1, SideOf DEF Proxy
<1>4. /\ m.budget.held \in Nat /\ m.budget.of \in [Projects -> Nat] BY <1>1 DEF Proxy, Admission
<1>5. /\ IsFiniteSet(Bytes(k.conn, Conns)) /\ Count(k.conn, Conns) = k.budget.held + bytes
      /\ k.budget.held + bytes \in Nat
  <2>1. /\ IsFiniteSet(Bytes(k.conn, Conns)) /\ Count(k.conn, Conns) \in Nat
        /\ Count(k.conn, Conns) = m.budget.held - Held(m.conn[c]) + Held(k.conn[c]) BY <1>1, <1>2, TallyStep
  <2> QED BY <1>3, <1>4, <2>1
<1>6. ASSUME NEW p \in Projects
      PROVE /\ Count(k.conn, Members(k, p)) = m.budget.of[p] + (IF p = share THEN bytes ELSE 0)
            /\ Count(k.conn, Members(k, p)) \in Nat
            /\ p = share => c \in Members(k, p)
  <2>1. /\ Count(k.conn, Members(k, p)) = m.budget.of[p] - Part(m.conn, c, Members(m, p)) + Part(k.conn, c, Members(k, p))
        /\ Count(k.conn, Members(k, p)) \in Nat
    BY <1>1, <1>2, TallyStep
  <2>2. (c \in Members(m, p) <=> p = share) /\ (c \in Members(k, p) <=> p = share) BY DEF Members
  <2>3. CASE p = share BY <1>3, <1>4, <2>1, <2>2, <2>3 DEF Part
  <2>4. CASE p # share BY <1>4, <2>1, <2>2, <2>4 DEF Part
  <2> QED BY <2>3, <2>4
<1>7. share \in Projects \cup {Nobody} /\ Nobody \notin Projects BY KindsAssumption DEF Proxy, Connection
<1>8. \A p \in Projects : Adds(k, share, bytes)[p] = Count(k.conn, Members(k, p))
  BY <1>4, <1>6, <1>7 DEF Adds
<1>9. Adds(k, share, bytes) \in [Projects -> Nat]
  <2>1. Adds(k, share, bytes) = [p \in Projects |-> Adds(k, share, bytes)[p]] BY <1>4 DEF Adds
  <2> QED BY <1>6, <1>8, <2>1
<1>10. /\ n \in Proxy /\ n.budget.held = k.budget.held + bytes
       /\ n.budget.of = Adds(k, share, bytes)
       /\ Marked(n.budget) /\ \A d \in Conns : Passes(k, n, d)
       /\ bytes <= 0 => \A d \in Conns : ~Joined(k.conn[d]) => n.conn[d] = k.conn[d]
  BY <1>1, <1>5, <1>9, AccountFacts
<1> HIDE DEF n
<1>11. Untouched(k, n, c) /\ Alike(k.conn[c], n.conn[c]) BY <1>10 DEF Untouched, Passes
<1>12. Bytes(n.conn, Conns) = Bytes(k.conn, Conns) /\ \A p \in Projects : Bytes(n.conn, Members(n, p)) = Bytes(k.conn, Members(k, p))
  <2>1. k.conn \in [Conns -> Connection] /\ n.conn \in [Conns -> Connection] BY <1>10 DEF Proxy
  <2>2. \A d \in Conns : Alike(k.conn[d], n.conn[d]) BY <1>10 DEF Passes
  <2>3. \A d \in Conns : \A s \in Sides : n.conn[d][s].queued = k.conn[d][s].queued BY <2>2 DEF Alike
  <2>4. \A p \in Projects : Members(n, p) = Members(k, p) BY <2>2 DEF Members, Alike, Alive
  <2>5. \A p \in Projects : Members(k, p) \in SUBSET Conns BY DEF Members
  <2>6. Bytes(n.conn, Conns) = Bytes(k.conn, Conns) BY <2>1, <2>3, CountSame
  <2>7. \A p \in Projects : Bytes(n.conn, Members(k, p)) = Bytes(k.conn, Members(k, p))
    BY <2>1, <2>3, <2>5, CountSame
  <2> QED BY <2>4, <2>6, <2>7
<1>13. Tallied(n)
  <2>1. \A p \in Projects : n.budget.of[p] = Count(n.conn, Members(n, p)) BY <1>8, <1>10, <1>12 DEF Count
  <2> QED BY <1>5, <1>10, <1>12, <2>1 DEF Tallied, Count
<1>14. ASSUME NEW d \in Conns \ {c} PROVE Shape(d, n.conn[d]) /\ Minded(n, d)
  <2>1. Shape(d, m.conn[d]) /\ Minded(m, d) BY DEF Steady
  <2>2. Shape(d, k.conn[d]) BY <2>1
  <2>3. Minded(k, d) BY <2>1 DEF Minded, PausedFor, HeldBack, MayRead
  <2> QED BY <1>10, <2>2, <2>3 DEF Passes, Minded
<1>15. Untouched(m, n, c) BY <1>2, <1>11, UntouchedOn
<1> QED BY <1>10, <1>13, <1>14, <1>15 DEF Steady, n

-----------------------------------------------------------------------------
(* A connection's end gives back its place and its bytes, and its share     *)
(* goes with the last of it.                                                *)
LEMMA EndedFacts ==
  ASSUME NEW c \in Conns, NEW x \in Connection, x.outside \subseteq {x.attempt}
  PROVE /\ Ended(x) \in Connection /\ Held(Ended(x)) = 0 /\ Shape(c, Ended(x))
        /\ Ended(x).phase = "closed" /\ ~Joined(Ended(x)) /\ Ended(x).share = Nobody
<1> DEFINE y == Ended(x)
<1>1. /\ y = [phase |-> "closed", caller |-> "asked", share |-> Nobody, client |-> NoSide, upstream |-> NoSide,
              quiet |-> FALSE, attempt |-> 0, waits |-> x.waits, outside |-> {}]
  <2>1. x.outside \ {x.attempt} = {} OBVIOUS
  <2>2. y = [Vacant EXCEPT !.waits = x.waits, !.outside = {}] BY <2>1 DEF Ended
  <2> QED BY <2>2 DEF Vacant
<1>2. NoSide \in Side /\ NoSide.queued = 0 /\ ~NoSide.socket /\ ~NoSide.reads BY DEF NoSide, Side
<1> HIDE DEF y
<1>3. y \in Connection
  <2>1. x.waits \in SUBSET (1..Addresses) /\ 0 \in 0..Addresses BY Numbers DEF Connection
  <2> QED BY <1>1, <1>2, <2>1 DEF Connection, Phases
<1>4. y["client"] = NoSide /\ y["upstream"] = NoSide BY <1>1, <1>3, SideOf
<1>5. Held(y) = 0 BY <1>1, <1>2 DEF Held
<1>6. Shape(c, y) BY <1>1, <1>2, <1>4, Numbers DEF Shape, Sides
<1> QED BY <1>1, <1>2, <1>3, <1>5, <1>6 DEF Joined, y

LEMMA CloseFacts ==
  ASSUME NEW m, NEW c \in Conns, Steady(m, c), Alive(m.conn[c]), m.conn[c].outside \subseteq {m.conn[c].attempt}
  PROVE LET n == Close(m, c)
        IN  Sound(n) /\ Untouched(m, n, c) /\ n.conn[c] = Ended(m.conn[c]) /\ Held(n.conn[c]) = 0
<1> DEFINE x == m.conn[c]
           p == x.share
           y == Ended(x)
           left == Leave(m, c)
           last == p # Nobody /\ Members(left, p) = {}
           bytes == -Held(x)
           counted == Account(left, c, bytes)
           n == Close(m, c)
<1>1. m \in Proxy /\ Tallied(m) /\ Marked(m.budget) BY DEF Steady
<1>2. x \in Connection /\ Held(x) \in Nat /\ x.phase # "closed" BY <1>1, SideOf DEF Proxy, Alive
<1>3. /\ m.budget.held \in Nat /\ m.budget.of \in [Projects -> Nat] /\ m.budget.blocked \subseteq Projects
  BY <1>1 DEF Proxy, Admission
<1>4. p \in Projects \cup {Nobody} /\ Nobody \notin Projects BY <1>2, KindsAssumption DEF Connection
<1>5. y \in Connection /\ Held(y) = 0 /\ Shape(c, y) /\ y.phase = "closed" /\ ~Joined(y) /\ y.share = Nobody
  BY <1>2, EndedFacts
<1>6. /\ left \in Proxy /\ \A d \in Conns \ {c} : left.conn[d] = m.conn[d]
      /\ left.conn[c] = [x EXCEPT !.phase = "closed"]
      /\ left.budget.held = m.budget.held /\ left.budget.saturated = m.budget.saturated
      /\ left.budget.of = IF last THEN [m.budget.of EXCEPT ![p] = 0] ELSE m.budget.of
      /\ left.budget.blocked = IF last THEN m.budget.blocked \ {p} ELSE m.budget.blocked
  <2> DEFINE gone == [m EXCEPT !.conn[c].phase = "closed"]
  <2>1. gone \in Proxy /\ gone.conn = [m.conn EXCEPT ![c] = [x EXCEPT !.phase = "closed"]] /\ gone.budget = m.budget
    BY <1>1 DEF Proxy, Connection, Phases
  <2>2. left = IF p = Nobody \/ Members(gone, p) # {} THEN gone
               ELSE [gone EXCEPT !.budget.of[p] = 0, !.budget.blocked = @ \ {p}]
    BY DEF Leave
  <2> HIDE DEF gone, left
  <2>3. left.conn = gone.conn
    BY <2>1, <2>2 DEF Proxy
  <2>4. Members(left, p) = Members(gone, p) BY <2>3 DEF Members
  <2>5. CASE last
    <3>1. left = [gone EXCEPT !.budget.of[p] = 0, !.budget.blocked = @ \ {p}] BY <2>2, <2>4, <2>5
    <3>2. p \in Projects BY <1>4, <2>5
    <3> QED BY <1>1, <2>1, <2>3, <2>5, <3>1, <3>2 DEF Proxy, Admission
  <2>6. CASE ~last
    <3>1. left = gone BY <2>2, <2>4, <2>6
    <3> QED BY <1>1, <2>1, <2>6, <3>1 DEF Proxy
  <2> QED BY <2>5, <2>6
<1> HIDE DEF left
<1>7. /\ left.conn[c].phase = "closed" /\ left.conn[c].share = p
      /\ \A q \in Projects : Members(left, q) = Members(m, q) \ {c}
  <2>1. left.conn[c].phase = "closed" /\ left.conn[c].share = p BY <1>2, <1>6 DEF Connection
  <2>2. ASSUME NEW q \in Projects, NEW d PROVE d \in Members(left, q) <=> d \in Members(m, q) \ {c}
    <3>1. CASE d = c BY <2>1, <3>1 DEF Members, Alive
    <3>2. CASE d # c BY <1>6, <3>2 DEF Members
    <3> QED BY <3>1, <3>2
  <2> QED BY <2>1, <2>2
<1>8. ASSUME NEW q \in Projects
      PROVE /\ m.budget.of[q] - (IF q = p THEN Held(x) ELSE 0) = Count(m.conn, Members(m, q) \ {c})
            /\ Count(m.conn, Members(m, q) \ {c}) \in Nat
  <2>1. Members(m, q) \in SUBSET Conns /\ Members(m, q) \ {c} \in SUBSET Conns BY DEF Members
  <2>2. IsFiniteSet(Bytes(m.conn, Members(m, q) \ {c})) /\ Count(m.conn, Members(m, q) \ {c}) \in Nat
    BY <1>1, <2>1, CountPart DEF Tallied
  <2>3. Count(m.conn, Members(m, q)) = Count(m.conn, Members(m, q) \ {c}) + Part(m.conn, c, Members(m, q))
    <3>1. m.conn \in [Conns -> Connection] BY <1>1 DEF Proxy
    <3> QED BY <2>1, <2>2, <3>1, CountOut
  <2>4. Part(m.conn, c, Members(m, q)) = IF q = p THEN Held(x) ELSE 0 BY <1>2 DEF Part, Members, Alive
  <2>5. m.budget.of[q] = Count(m.conn, Members(m, q)) BY <1>1 DEF Tallied
  <2> QED BY <1>2, <2>2, <2>3, <2>4, <2>5
<1>9. m.budget.held - Held(x) \in Nat
  <2>1. Conns \ {c} \in SUBSET Conns OBVIOUS
  <2>2. IsFiniteSet(Bytes(m.conn, Conns \ {c})) /\ Count(m.conn, Conns \ {c}) \in Nat
    BY <1>1, <2>1, CountPart DEF Tallied
  <2>3. Count(m.conn, Conns) = Count(m.conn, Conns \ {c}) + Part(m.conn, c, Conns)
    <3>1. m.conn \in [Conns -> Connection] BY <1>1 DEF Proxy
    <3> QED BY <2>2, <3>1, CountOut
  <2> QED BY <1>1, <1>2, <2>2, <2>3 DEF Part, Tallied
<1>10. /\ Adds(left, p, bytes) \in [Projects -> Nat]
       /\ \A q \in Projects : Adds(left, p, bytes)[q] = Count(m.conn, Members(m, q) \ {c})
  <2>1. CASE last
    <3>1. Adds(left, p, bytes) = [m.budget.of EXCEPT ![p] = 0] BY <1>6, <2>1 DEF Adds
    <3>2. Count(m.conn, Members(m, p) \ {c}) = 0
      <4>1. p \in Projects BY <1>4, <2>1
      <4>2. Members(m, p) \ {c} = {} BY <1>7, <2>1, <4>1
      <4>3. Bytes(m.conn, {}) = {} BY DEF Bytes
      <4> QED BY <4>2, <4>3, FS_EmptySet DEF Count
    <3>3. \A q \in Projects \ {p} : m.budget.of[q] = Count(m.conn, Members(m, q) \ {c}) BY <1>3, <1>8
    <3>4. p \in Projects BY <1>4, <2>1
    <3> HIDE DEF bytes
    <3>5. \A q \in Projects : Adds(left, p, bytes)[q] = IF q = p THEN 0 ELSE m.budget.of[q] BY <1>3, <3>1, <3>4
    <3>6. Adds(left, p, bytes) \in [Projects -> Nat] BY <1>3, <3>1, <3>4
    <3> QED BY <3>2, <3>3, <3>5, <3>6
  <2>2. CASE p = Nobody
    <3>1. Adds(left, p, bytes) = m.budget.of BY <1>6, <2>2 DEF Adds
    <3>2. \A q \in Projects : m.budget.of[q] = Count(m.conn, Members(m, q) \ {c}) BY <1>3, <1>4, <1>8, <2>2
    <3> QED BY <1>3, <3>1, <3>2
  <2>3. CASE p # Nobody /\ ~last
    <3>1. Adds(left, p, bytes) = [m.budget.of EXCEPT ![p] = @ + bytes] BY <1>6, <2>3 DEF Adds
    <3>2. m.budget.of[p] + bytes = Count(m.conn, Members(m, p) \ {c}) /\ m.budget.of[p] + bytes \in Nat
      BY <1>2, <1>3, <1>4, <1>8, <2>3
    <3>3. \A q \in Projects \ {p} : m.budget.of[q] = Count(m.conn, Members(m, q) \ {c}) BY <1>3, <1>8
    <3>4. p \in Projects BY <1>4, <2>3
    <3> HIDE DEF bytes
    <3> QED BY <1>3, <3>1, <3>2, <3>3, <3>4
  <2> QED BY <2>1, <2>2, <2>3
<1>11. Marked(left.budget)
  <2>1. \A q \in left.budget.blocked : Above(left.budget, q) BY <1>1, <1>3, <1>6 DEF Marked, Above
  <2> QED BY <1>1, <1>6, <2>1 DEF Marked
<1>12. /\ counted \in Proxy /\ counted.budget.held = m.budget.held - Held(x)
       /\ counted.budget.of = Adds(left, p, bytes)
       /\ Marked(counted.budget) /\ \A d \in Conns : Passes(left, counted, d)
  <2>1. bytes \in Int /\ left.budget.held + bytes = m.budget.held - Held(x) BY <1>2, <1>3, <1>6
  <2> HIDE DEF bytes
  <2>2. left.budget.held + bytes \in Nat /\ Adds(left, left.conn[c].share, bytes) \in [Projects -> Nat]
    BY <1>7, <1>9, <1>10, <2>1
  <2>3. /\ counted \in Proxy /\ counted.budget.held = left.budget.held + bytes
        /\ counted.budget.of = Adds(left, left.conn[c].share, bytes)
        /\ Marked(counted.budget) /\ \A d \in Conns : Passes(left, counted, d)
    BY <1>6, <1>11, <2>1, <2>2, AccountFacts
  <2> QED BY <1>7, <2>1, <2>3
<1>13. n = [counted EXCEPT !.conn[c] = y] BY DEF Close, left
<1> HIDE DEF counted, n, y
<1>14. /\ n \in Proxy /\ n.budget = counted.budget /\ n.conn[c] = y
       /\ \A d \in Conns \ {c} : n.conn[d] = counted.conn[d]
  BY <1>5, <1>12, <1>13 DEF Proxy
<1>15. ASSUME NEW d \in Conns \ {c} PROVE Alike(m.conn[d], n.conn[d])
  <2>1. Alike(left.conn[d], counted.conn[d]) BY <1>12 DEF Passes
  <2> QED BY <1>6, <1>14, <2>1
<1>16. Untouched(m, n, c) BY <1>15 DEF Untouched
<1>17. \A q \in Projects : Members(n, q) = Members(m, q) \ {c}
  BY <1>4, <1>5, <1>14, <1>15 DEF Members, Alike, Alive
<1>18. Tallied(n)
  <2>1. /\ IsFiniteSet(Bytes(n.conn, Conns)) /\ Count(n.conn, Conns) = m.budget.held - Held(x) + Held(y)
    BY <1>1, <1>14, <1>16, TallyStep
  <2>2. n.budget.held = Count(n.conn, Conns) BY <1>2, <1>3, <1>5, <1>12, <1>14, <2>1
  <2>3. ASSUME NEW q \in Projects PROVE n.budget.of[q] = Count(n.conn, Members(n, q))
    <3>1. Members(m, q) \ {c} \in SUBSET Conns /\ c \notin Members(m, q) \ {c} BY DEF Members
    <3>2. \A d \in Members(m, q) \ {c} : \A s \in Sides : n.conn[d][s].queued = m.conn[d][s].queued
      BY <1>15, <3>1 DEF Alike
    <3>3. Bytes(n.conn, Members(m, q) \ {c}) = Bytes(m.conn, Members(m, q) \ {c})
      <4>1. n.conn \in [Conns -> Connection] /\ m.conn \in [Conns -> Connection] BY <1>1, <1>14 DEF Proxy
      <4> QED BY <3>1, <3>2, <4>1, CountSame
    <3> QED BY <1>10, <1>12, <1>14, <1>17, <3>3 DEF Count
  <2> QED BY <2>1, <2>2, <2>3 DEF Tallied
<1>19. ASSUME NEW d \in Conns \ {c} PROVE Shape(d, n.conn[d]) /\ Minded(n, d)
  <2>1. Shape(d, m.conn[d]) /\ Minded(m, d) BY DEF Steady
  <2>2. m.conn[d].phase = "open" => (MayRead(left, d) <=> MayRead(m, d))
    <3>1. last /\ m.conn[d].phase = "open" => m.conn[d].share # p
      <4>1. SUFFICES ASSUME last, m.conn[d].phase = "open", m.conn[d].share = p PROVE FALSE OBVIOUS
      <4>2. d \in Members(left, p) BY <1>6, <4>1 DEF Members, Alive
      <4> QED BY <4>1, <4>2
    <3> QED BY <1>6, <3>1 DEF MayRead
  <2>3. Minded(left, d) BY <1>6, <2>1, <2>2 DEF Minded, PausedFor, HeldBack
  <2>4. Shape(d, left.conn[d]) BY <1>6, <2>1
  <2>5. Shape(d, counted.conn[d]) /\ Minded(counted, d) BY <1>12, <2>3, <2>4 DEF Passes, Minded
  <2> QED BY <1>14, <2>5 DEF Minded, PausedFor, HeldBack, MayRead
<1>20. Minded(n, c) BY <1>5, <1>14 DEF Minded, PausedFor, HeldBack
<1> QED BY <1>5, <1>12, <1>14, <1>16, <1>18, <1>19, <1>20 DEF Sound, n, y

(* One side goes: the other is drained first, past pauses and budgets.      *)
LEMMA SideClosedFacts ==
  ASSUME NEW m, NEW c \in Tunnels, NEW gone \in Sides, Steady(m, c), m.conn[c].phase # "closed",
         NEW outside, Shape(c, [m.conn[c] EXCEPT !.outside = outside]), m.conn[c][gone].socket,
         m.conn[c].outside = IF gone = "upstream" \/ ~m.conn[c].upstream.socket THEN {} ELSE {m.conn[c].attempt}
  PROVE LET n == SideClosed(m, c, gone)
        IN  /\ Sound(n) /\ Untouched(m, n, c) /\ Held(n.conn[c]) <= Held(m.conn[c])
            /\ n.conn[c].phase = "closed" \/ m.conn[c][Other(gone)].socket
<1> DEFINE x == m.conn[c]
           rest == Other(gone)
           empty == [x[gone] EXCEPT !.socket = FALSE, !.reads = FALSE, !.queued = 0]
           y == [x EXCEPT ![gone] = empty]
           k == [m EXCEPT !.conn[c][gone] = [@ EXCEPT !.socket = FALSE, !.reads = FALSE, !.queued = 0]]
           bytes == -x[gone].queued
           dropped == Account(k, c, bytes)
           n == SideClosed(m, c, gone)
<1>1. m \in Proxy /\ c \in Conns /\ c \notin Calls BY KindsAssumption DEF Steady, Conns
<1>2. x \in Connection /\ x["client"] = x.client /\ x["upstream"] = x.upstream BY <1>1, SideOf DEF Proxy
<1>3. x[gone] \in Side /\ x[rest] \in Side /\ rest \in Sides /\ rest # gone BY <1>2, SideOf, Others
<1>4. empty \in Side /\ ~empty.socket /\ ~empty.reads /\ empty.queued = 0 BY <1>3 DEF Side
<1> HIDE DEF empty
<1>5. /\ y \in Connection /\ y[gone] = empty /\ y[rest] = x[rest]
      /\ y.phase = x.phase /\ y.share = x.share /\ y.caller = x.caller /\ y.quiet = x.quiet
      /\ y.attempt = x.attempt /\ y.waits = x.waits /\ y.outside = x.outside
  BY <1>2, <1>3, <1>4 DEF Connection, Sides
<1>6. k = [m EXCEPT !.conn[c] = y] BY <1>1, <1>2 DEF Proxy, empty
<1> HIDE DEF k, y
<1>7. k \in Proxy /\ k.budget = m.budget /\ k.conn[c] = y /\ \A d \in Conns \ {c} : k.conn[d] = m.conn[d]
  BY <1>1, <1>5, <1>6 DEF Proxy
<1>8. /\ y["client"] = y.client /\ y["upstream"] = y.upstream /\ Held(y) \in Nat /\ Held(x) \in Nat
  BY <1>2, <1>5, SideOf
<1>9. Held(y) = Held(x) + bytes /\ bytes \in Int /\ bytes <= 0 /\ Held(y) <= Held(x)
  <2>1. x[gone].queued \in Nat /\ x[rest].queued \in Nat /\ y[gone].queued = 0 /\ y[rest].queued = x[rest].queued
    BY <1>3, <1>4, <1>5 DEF Side
  <2>2. Held(x) = x[gone].queued + x[rest].queued /\ Held(y) = y[gone].queued + y[rest].queued
    BY <1>2, <1>3, <1>8, <2>1 DEF Held, Sides, Other
  <2> QED BY <2>1, <2>2
<1>10. ~Joined(y) BY <1>4, <1>5, <1>8 DEF Joined, Sides
<1>11. Steady(dropped, c) /\ Untouched(m, dropped, c) /\ dropped.conn[c] = y
  <2>1. Alive(y) /\ Alive(x) BY <1>5 DEF Alive
  <2> HIDE DEF bytes
  <2> QED BY <1>1, <1>5, <1>7, <1>9, <1>10, <2>1, AccountStep
<1>12. n = LET other == dropped.conn[c][rest]
           IN  IF ~other.socket \/ other.queued = 0 THEN Close(dropped, c)
               ELSE [dropped EXCEPT !.conn[c][rest] = Resume([@ EXCEPT !.ending = TRUE])]
  BY DEF SideClosed, k
<1> HIDE DEF dropped, n, bytes
<1>13. CASE ~x[rest].socket \/ x[rest].queued = 0
  <2>1. n = Close(dropped, c) BY <1>5, <1>11, <1>12, <1>13
  <2>2. Alive(y) /\ y.outside \subseteq {y.attempt} BY <1>5 DEF Alive
  <2>3. Sound(n) /\ Untouched(dropped, n, c) /\ n.conn[c] = Ended(y) /\ Held(n.conn[c]) = 0
    BY <1>1, <1>11, <2>1, <2>2, CloseFacts
  <2>4. Untouched(m, n, c) BY <1>11, <2>3, UntouchedOn
  <2>5. n.conn[c].phase = "closed" BY <1>1, <1>5, <2>2, <2>3, EndedFacts
  <2> QED BY <1>8, <2>3, <2>4, <2>5 DEF n
<1>14. CASE x[rest].socket /\ x[rest].queued # 0
  <2> DEFINE told == Resume([x[rest] EXCEPT !.ending = TRUE])
             z == [y EXCEPT ![rest] = told]
  <2>1. /\ told \in Side /\ told.socket /\ told.reads /\ ~told.paused /\ told.ending /\ told.queued = x[rest].queued
    BY <1>3, <1>14 DEF Side, Resume
  <2>2. told.queued > 0 BY <1>3, <1>14, <2>1 DEF Side
  <2>3. n = [dropped EXCEPT !.conn[c][rest] = Resume([@ EXCEPT !.ending = TRUE])] BY <1>5, <1>11, <1>12, <1>14
  <2> HIDE DEF told
  <2>4. /\ z \in Connection /\ z[rest] = told /\ z[gone] = empty
        /\ z.phase = x.phase /\ z.share = x.share /\ z.caller = x.caller /\ z.quiet = x.quiet
        /\ z.attempt = x.attempt /\ z.waits = x.waits /\ z.outside = x.outside
    BY <1>3, <1>5, <2>1 DEF Connection, Sides
  <2>5. n = [dropped EXCEPT !.conn[c] = z] BY <1>5, <1>11, <2>3 DEF Proxy, Steady, told
  <2> HIDE DEF z
  <2>6. n \in Proxy /\ n.budget = dropped.budget /\ n.conn[c] = z /\ \A d \in Conns \ {c} : n.conn[d] = dropped.conn[d]
    BY <1>1, <1>11, <2>4, <2>5 DEF Proxy, Steady
  <2>7. \A s \in Sides : z[s].queued = y[s].queued BY <1>3, <1>5, <2>1, <2>4 DEF Sides
  <2>8. Steady(n, c) /\ Untouched(dropped, n, c) /\ Held(z) = Held(y)
    BY <1>1, <1>5, <1>11, <2>4, <2>6, <2>7, SteadyStep DEF Alive
  <2>9. z["client"] = z.client /\ z["upstream"] = z.upstream BY <2>4, SideOf
  <2>10. Shape(c, z)
    <3> DEFINE w == [x EXCEPT !.outside = outside]
    <3>1. /\ w["client"] = x.client /\ w["upstream"] = x.upstream /\ w.client = x.client /\ w.upstream = x.upstream
          /\ w.phase = x.phase /\ w.share = x.share /\ w.caller = x.caller /\ w.attempt = x.attempt /\ w.waits = x.waits
      BY <1>2 DEF Connection
    <3> HIDE DEF w
    <3>2. Shape(c, w) BY DEF w
    <3>3. x.phase = "open"
      <4>1. x.client.socket /\ x.upstream.socket BY <1>2, <1>3, <1>14 DEF Sides
      <4> QED BY <1>2, <3>1, <3>2, <4>1 DEF Shape, Connection, Phases
    <3>4. \A s \in Sides : z[s].reads <=> z[s].socket /\ ~z[s].paused
      BY <1>3, <1>4, <2>1, <2>4 DEF Sides
    <3>5. z.outside = IF z.upstream.socket THEN {z.attempt} ELSE {}
      <4>1. CASE gone = "upstream" BY <1>3, <1>4, <2>4, <2>9, <4>1
      <4>2. CASE gone = "client"
        <5>1. rest = "upstream" BY <4>2 DEF Other
        <5> QED BY <1>2, <1>14, <2>1, <2>4, <2>9, <4>2, <5>1
      <4> QED BY <4>1, <4>2 DEF Sides
    <3>6. \A s \in Sides : ~z[s].socket =>
            z[s].queued = 0 /\ z[Other(s)].socket /\ z[Other(s)].ending /\ z[Other(s)].queued > 0 /\ ~z[Other(s)].paused
      <4>1. \A s \in Sides : s = gone \/ s = rest BY <1>3 DEF Sides
      <4> QED BY <1>4, <2>1, <2>2, <2>4, <4>1
    <3>7. x.caller = "asked" => x.share = Nobody /\ x.attempt = 0 BY <3>1, <3>2 DEF Shape
    <3>8. x.attempt \notin x.waits /\ x.caller # "asked" BY <3>1, <3>2, <3>3 DEF Shape
    <3> QED BY <1>1, <2>4, <3>3, <3>4, <3>5, <3>6, <3>7, <3>8 DEF Shape
  <2>11. ~Joined(z) BY <1>4, <2>4, <2>9 DEF Joined, Sides
  <2>12. Sound(n) BY <1>1, <2>6, <2>8, <2>10, <2>11, SoundWhenSteady
  <2>13. Untouched(m, n, c) BY <1>11, <2>8, UntouchedOn
  <2> QED BY <1>9, <1>14, <2>6, <2>8, <2>12, <2>13 DEF n
<1> QED BY <1>13, <1>14

-----------------------------------------------------------------------------
(* Bytes between the two sides.                                             *)
LEMMA SendFacts ==
  ASSUME NEW m, NEW c \in Conns, NEW to \in Sides, Steady(m, c), Shape(c, m.conn[c]), Minded(m, c),
         m.conn[c].phase = "open", m.conn[c][to].socket, NEW n \in Nat, NEW k \in 0..n,
         c \in Tunnels => Joined(m.conn[c]),
         c \in Calls => to = "client" /\ m.conn[c].client.queued = 0 /\ n <= AnswerBytes
  PROVE LET r == Send(m, c, to, n, k)
        IN  Sound(r) /\ Untouched(m, r, c) /\ r.conn[c].phase = "open" /\ Held(r.conn[c]) <= Held(m.conn[c]) + n
<1> DEFINE x == m.conn[c]
           s == x[to]
           from == Other(to)
           kept == IF s.queued = 0 THEN n - k ELSE n
           short == s.queued = 0 /\ kept > 0
           full == kept > 0 /\ s.queued + kept > BufferBytes
           a == [IF short THEN WrittenShort(s) ELSE s EXCEPT !.queued = @ + kept]
           b == IF full /\ ~x[from].paused THEN Pause(x[from]) ELSE x[from]
           y == [[x EXCEPT ![to] = a] EXCEPT ![from] = b]
           fed == [m EXCEPT !.conn[c][to] = [IF short THEN WrittenShort(s) ELSE s EXCEPT !.queued = @ + kept],
                            !.conn[c][Other(to)] =
                               IF kept > 0 /\ s.queued + kept > BufferBytes /\ ~@.paused THEN Pause(@) ELSE @]
           r == Send(m, c, to, n, k)
<1>1. m \in Proxy BY DEF Steady
<1>2. x \in Connection /\ x["client"] = x.client /\ x["upstream"] = x.upstream /\ Held(x) \in Nat BY <1>1, SideOf DEF Proxy
<1>3. /\ s \in Side /\ x[from] \in Side /\ from \in Sides /\ from # to
      /\ \A side \in Sides : side = to \/ side = from
  BY <1>2, SideOf, Others DEF Sides
<1>4. kept \in Nat /\ kept <= n /\ s.queued \in Nat BY <1>3 DEF Side
<1> HIDE DEF kept
<1>5. /\ a \in Side /\ a.socket = s.socket /\ a.socket /\ a.paused = s.paused /\ a.queued = s.queued + kept
      /\ a.ending = s.ending
      /\ (s.reads <=> ~s.paused) => (a.reads <=> ~a.paused)
  <2> DEFINE e == IF short THEN WrittenShort(s) ELSE s
  <2>1. /\ e \in Side /\ e.socket = s.socket /\ e.paused = s.paused /\ e.queued = s.queued /\ e.ending = s.ending
        /\ (s.reads <=> ~s.paused) => (e.reads <=> ~e.paused)
    BY <1>3 DEF Side, WrittenShort
  <2>2. a = [e EXCEPT !.queued = @ + kept] OBVIOUS
  <2> HIDE DEF e, a
  <2>3. /\ a.socket = e.socket /\ a.paused = e.paused /\ a.reads = e.reads /\ a.ending = e.ending
        /\ a.queued = e.queued + kept
    BY <2>1, <2>2 DEF Side
  <2>4. a \in Side BY <1>4, <2>1, <2>2 DEF Side
  <2> QED BY <2>1, <2>3, <2>4
<1>6. /\ b \in Side /\ b.socket = x[from].socket /\ b.queued = x[from].queued /\ b.ending = x[from].ending
      /\ b.paused <=> full \/ x[from].paused
      /\ (x[from].reads <=> x[from].socket /\ ~x[from].paused) => (b.reads <=> b.socket /\ ~b.paused)
  BY <1>3 DEF Side, Pause
<1> HIDE DEF a, b
<1>7. /\ y \in Connection /\ y[to] = a /\ y[from] = b
      /\ y.phase = x.phase /\ y.share = x.share /\ y.caller = x.caller /\ y.quiet = x.quiet
      /\ y.attempt = x.attempt /\ y.waits = x.waits /\ y.outside = x.outside
  BY <1>2, <1>3, <1>5, <1>6 DEF Connection, Sides
<1>8. fed = [m EXCEPT !.conn[c] = y]
  BY ZenonT(40), <1>1, <1>2, <1>3 DEF Proxy, Connection, Sides, a, b
<1> HIDE DEF fed, y
<1>9. fed \in Proxy /\ fed.budget = m.budget /\ fed.conn[c] = y /\ \A d \in Conns \ {c} : fed.conn[d] = m.conn[d]
  BY <1>1, <1>7, <1>8 DEF Proxy
<1>10. y["client"] = y.client /\ y["upstream"] = y.upstream BY <1>7, SideOf
<1>11. Held(y) = Held(x) + kept
  <2>1. Held(x) = s.queued + x[from].queued /\ Held(y) = y[to].queued + y[from].queued
    <3>1. x.client.queued \in Nat /\ x.upstream.queued \in Nat /\ y.client.queued \in Nat /\ y.upstream.queued \in Nat
      BY <1>2, <1>7, SideOf
    <3> QED BY <1>2, <1>10, <3>1 DEF Held, Sides, Other
  <2>2. x[from].queued \in Nat BY <1>3 DEF Side
  <2> QED BY <1>4, <1>5, <1>6, <1>7, <2>1, <2>2
<1>12. r = Account(fed, c, kept) BY DEF Send, fed, kept
<1> HIDE DEF r
<1>13. Steady(r, c) /\ Untouched(m, r, c) /\ Passes(fed, r, c)
  <2>1. Alive(y) /\ Alive(x) BY <1>7 DEF Alive
  <2> QED BY <1>4, <1>7, <1>9, <1>11, <1>12, <2>1, AccountStep
<1>14. Shape(c, y)
  <2>1. \A side \in Sides : y[side].reads <=> y[side].socket /\ ~y[side].paused
    BY <1>3, <1>5, <1>6, <1>7 DEF Shape
  <2>2. y.client.socket = x.client.socket /\ y.upstream.socket = x.upstream.socket
    BY <1>2, <1>3, <1>5, <1>6, <1>7, <1>10 DEF Sides
  <2>3. c \in Calls => y.client.queued <= AnswerBytes /\ y.upstream.queued = 0
    <3>1. SUFFICES ASSUME c \in Calls PROVE y.client.queued <= AnswerBytes /\ y.upstream.queued = 0 OBVIOUS
    <3>2. to = "client" /\ s.queued = 0 /\ n <= AnswerBytes BY <1>2, <3>1
    <3>3. from = "upstream" /\ x.upstream.queued = 0 BY <3>1, <3>2 DEF Other, Shape
    <3> QED BY <1>2, <1>4, <1>5, <1>6, <1>7, <1>10, <3>2, <3>3, Numbers
  <2>4. c \in Tunnels => \A side \in Sides : y[side].socket BY <1>2, <1>10, <2>2 DEF Joined, Sides
  <2> QED BY <1>7, <2>1, <2>2, <2>3, <2>4 DEF Shape
<1>15. Minded(fed, c)
  <2>1. MayRead(fed, c) <=> MayRead(m, c) BY <1>7, <1>9 DEF MayRead
  <2>2. Joined(y) => Joined(x) BY <1>2, <1>3, <1>5, <1>6, <1>7, <1>10 DEF Joined, Sides
  <2>3. PausedFor(m, c, to) /\ PausedFor(m, c, from) /\ HeldBack(m, c, to) /\ HeldBack(m, c, from) BY <1>3 DEF Minded
  <2>4. PausedFor(fed, c, to) /\ HeldBack(fed, c, to)
    BY <1>3, <1>5, <1>6, <1>7, <1>9, <2>1, <2>2, <2>3, Others DEF PausedFor, HeldBack
  <2>5. HeldBack(fed, c, from)
    BY <1>3, <1>5, <1>6, <1>7, <1>9, <2>1, <2>2, <2>3, Others DEF HeldBack
  <2>6. Other(from) = to /\ (s.queued > 0 => a.queued > 0) BY <1>4, <1>5, Others
  <2>7. full => a.queued > 0 BY <1>4, <1>5
  <2>8. PausedFor(fed, c, from)
    BY <1>6, <1>7, <1>9, <2>1, <2>2, <2>3, <2>6, <2>7 DEF PausedFor
  <2> QED BY <1>3, <2>4, <2>5, <2>8 DEF Minded
<1>16. Sound(r) BY <1>9, <1>13, <1>14, <1>15, SoundWhenSteady DEF Passes, Minded
<1>17. Held(r.conn[c]) = Held(y) /\ r.conn[c].phase = "open"
  <2>1. r.conn[c] \in Connection BY <1>13 DEF Steady, Proxy
  <2> QED BY <1>7, <1>9, <1>10, <1>13, <2>1, SideOf, Others DEF Passes, Alike, Held
<1> QED BY <1>2, <1>4, <1>11, <1>13, <1>16, <1>17 DEF r

LEMMA FlushFacts ==
  ASSUME NEW m, NEW c \in Conns, NEW to \in Sides, Steady(m, c), Shape(c, m.conn[c]),
         m.conn[c].phase = "open", m.conn[c][to].socket, NEW k \in 0..m.conn[c][to].queued,
         PausedFor(m, c, to), \A s \in Sides : HeldBack(m, c, s)
  PROVE LET r == Flush(m, c, to, k)
        IN  /\ Sound(r) /\ Untouched(m, r, c) /\ Held(r.conn[c]) <= Held(m.conn[c])
            /\ r.conn[c].phase = "open" => Held(r.conn[c]) = Held(m.conn[c]) - k
<1> DEFINE x == m.conn[c]
           s == x[to]
           from == Other(to)
           a == [IF k < s.queued THEN WrittenShort(s) ELSE s EXCEPT !.queued = @ - k]
           y == [[x EXCEPT ![to] = a] EXCEPT !.quiet = @ /\ k = 0]
           written == [m EXCEPT !.conn[c][to] = [IF k < s.queued THEN WrittenShort(s) ELSE s EXCEPT !.queued = @ - k],
                                !.conn[c].quiet = @ /\ k = 0]
           counted == Account(written, c, -k)
           r == Flush(m, c, to, k)
<1>1. m \in Proxy BY DEF Steady
<1>2. x \in Connection /\ x["client"] = x.client /\ x["upstream"] = x.upstream /\ Held(x) \in Nat BY <1>1, SideOf DEF Proxy
<1>3. /\ s \in Side /\ x[from] \in Side /\ from \in Sides /\ from # to /\ Other(from) = to
      /\ \A side \in Sides : side = to \/ side = from
  BY <1>2, SideOf, Others DEF Sides
<1>4. s.queued \in Nat /\ k \in Nat /\ k <= s.queued /\ s.queued - k \in Nat BY <1>3 DEF Side
<1>5. /\ a \in Side /\ a.socket = s.socket /\ a.socket /\ a.paused = s.paused /\ a.queued = s.queued - k
      /\ a.ending = s.ending
      /\ (s.reads <=> ~s.paused) => (a.reads <=> ~a.paused)
  <2> DEFINE e == IF k < s.queued THEN WrittenShort(s) ELSE s
  <2>1. /\ e \in Side /\ e.socket = s.socket /\ e.paused = s.paused /\ e.queued = s.queued /\ e.ending = s.ending
        /\ (s.reads <=> ~s.paused) => (e.reads <=> ~e.paused)
    BY <1>3 DEF Side, WrittenShort
  <2>2. a = [e EXCEPT !.queued = @ - k] OBVIOUS
  <2> HIDE DEF e, a
  <2>3. /\ a.socket = e.socket /\ a.paused = e.paused /\ a.reads = e.reads /\ a.ending = e.ending
        /\ a.queued = e.queued - k
    BY <2>1, <2>2 DEF Side
  <2>4. a \in Side BY <1>4, <2>1, <2>2 DEF Side
  <2> QED BY <2>1, <2>3, <2>4
<1> HIDE DEF a
<1>6. /\ y \in Connection /\ y[to] = a /\ y[from] = x[from]
      /\ y.phase = x.phase /\ y.share = x.share /\ y.caller = x.caller
      /\ y.attempt = x.attempt /\ y.waits = x.waits /\ y.outside = x.outside
  BY <1>2, <1>3, <1>5 DEF Connection, Sides
<1>7. written = [m EXCEPT !.conn[c] = y] BY ZenonT(40), <1>1, <1>2, <1>3 DEF Proxy, Connection, Sides, a
<1> HIDE DEF written, y
<1>8. written \in Proxy /\ written.budget = m.budget /\ written.conn[c] = y /\ \A d \in Conns \ {c} : written.conn[d] = m.conn[d]
  BY <1>1, <1>6, <1>7 DEF Proxy
<1>9. y["client"] = y.client /\ y["upstream"] = y.upstream BY <1>6, SideOf
<1>10. Held(y) = Held(x) - k /\ Held(y) \in Nat
  <2>1. /\ Held(x) = s.queued + x[from].queued /\ Held(y) = y[to].queued + y[from].queued /\ Held(y) \in Nat
    <3>1. x.client.queued \in Nat /\ x.upstream.queued \in Nat /\ y.client.queued \in Nat /\ y.upstream.queued \in Nat
      BY <1>2, <1>6, SideOf
    <3> QED BY <1>2, <1>9, <3>1 DEF Held, Sides, Other
  <2>2. x[from].queued \in Nat BY <1>3 DEF Side
  <2> QED BY <1>4, <1>5, <1>6, <2>1, <2>2
<1>11. Steady(counted, c) /\ Untouched(m, counted, c) /\ Passes(written, counted, c)
  <2>1. Alive(y) /\ Alive(x) BY <1>6 DEF Alive
  <2>2. -k \in Int /\ Held(y) = Held(x) + (-k) BY <1>2, <1>4, <1>10
  <2> QED BY <1>6, <1>8, <2>1, <2>2, AccountStep
<1>12. r = IF k < s.queued THEN counted
           ELSE IF s.ending THEN Close(counted, c)
           ELSE ResumeIfAllowed(counted, c, from)
  BY DEF Flush, written
<1> HIDE DEF counted, r
<1> DEFINE z == counted.conn[c]
<1>13. /\ z \in Connection /\ Alike(y, z) /\ Held(z) = Held(x) - k /\ Held(z) \in Nat /\ z.phase = "open"
       /\ (Joined(z) <=> Joined(x))
  <2>1. z \in Connection /\ Alike(y, z) BY <1>8, <1>11 DEF Steady, Proxy, Passes
  <2>2. Held(z) = Held(y) BY <1>9, <2>1, SideOf, Others DEF Alike, Held
  <2>3. Joined(y) <=> Joined(x) BY <1>2, <1>3, <1>5, <1>6, <1>9 DEF Joined, Sides
  <2>4. Joined(z) <=> Joined(y) BY <1>9, <2>1, SideOf, Others DEF Alike, Joined
  <2> QED BY <1>6, <1>10, <2>1, <2>2, <2>3, <2>4 DEF Alike
<1>14. MayRead(written, c) <=> MayRead(m, c) BY <1>6, <1>8 DEF MayRead
<1>15. Joined(y) <=> Joined(x) BY <1>2, <1>3, <1>5, <1>6, <1>9 DEF Joined, Sides
<1>16. PausedFor(counted, c, to) /\ HeldBack(counted, c, to) /\ HeldBack(counted, c, from)
  <2>1. PausedFor(written, c, to) BY <1>5, <1>6, <1>8, <1>14, <1>15 DEF PausedFor
  <2>2. HeldBack(written, c, to) /\ HeldBack(written, c, from) BY <1>3, <1>5, <1>6, <1>8, <1>15 DEF HeldBack
  <2> QED BY <1>3, <1>11, <2>1, <2>2 DEF Passes
<1>17. k < s.queued => PausedFor(counted, c, from)
  <2>1. k < s.queued => PausedFor(written, c, from) BY <1>3, <1>4, <1>5, <1>6, <1>8 DEF PausedFor
  <2> QED BY <1>3, <1>11, <2>1 DEF Passes
<1>18. k < s.queued \/ Joined(x) \/ c \in Calls => Shape(c, z)
  <2>1. SUFFICES ASSUME k < s.queued \/ Joined(x) \/ c \in Calls PROVE Shape(c, y) BY <1>8, <1>11 DEF Passes
  <2>2. \A side \in Sides : y[side].reads <=> y[side].socket /\ ~y[side].paused
    BY <1>3, <1>5, <1>6 DEF Shape
  <2>3. y.client.socket = x.client.socket /\ y.upstream.socket = x.upstream.socket
    BY <1>2, <1>3, <1>5, <1>6, <1>9 DEF Sides
  <2>4. /\ x.client.queued \in Nat /\ x.upstream.queued \in Nat
        /\ y.client.queued \in Nat /\ y.upstream.queued \in Nat
        /\ y.client.queued <= x.client.queued /\ y.upstream.queued <= x.upstream.queued
    BY <1>2, <1>3, <1>4, <1>5, <1>6, <1>9, SideOf DEF Sides
  <2>5. c \in Calls => y.client.queued <= AnswerBytes /\ y.upstream.queued = 0
    <3>1. c \in Calls => x.client.queued <= AnswerBytes /\ x.upstream.queued = 0 BY DEF Shape
    <3> QED BY <2>4, <3>1, Numbers
  <2>6. ASSUME c \in Tunnels, NEW side \in Sides, ~y[side].socket
        PROVE /\ y[side].queued = 0 /\ y[Other(side)].socket /\ y[Other(side)].ending
              /\ y[Other(side)].queued > 0 /\ ~y[Other(side)].paused
    <3>1. side = from /\ Other(side) = to BY <1>3, <1>5, <1>6, <2>6
    <3>2. ~Joined(x) /\ c \notin Calls BY <1>3, <1>6, <1>2, <2>6, <3>1, KindsAssumption DEF Joined, Sides
    <3>3. k < s.queued /\ a.queued > 0 BY <1>4, <1>5, <2>1, <3>2
    <3>4. ~x[from].socket BY <1>6, <2>6, <3>1
    <3>5. x[from].queued = 0 /\ s.ending /\ ~s.paused BY <1>3, <2>6, <3>4 DEF Shape
    <3> QED BY <1>5, <1>6, <3>1, <3>3, <3>5
  <2> QED BY <1>6, <2>2, <2>3, <2>5, <2>6 DEF Shape
<1>19. CASE k < s.queued
  <2>1. Minded(counted, c) BY <1>3, <1>16, <1>17, <1>19 DEF Minded
  <2>2. r = counted BY <1>12, <1>19
  <2>3. Held(z) <= Held(x) BY <1>2, <1>4, <1>13
  <2> QED BY <1>11, <1>13, <1>18, <1>19, <2>1, <2>2, <2>3, SoundWhenSteady DEF r
<1>20. CASE ~(k < s.queued) /\ s.ending
  <2>1. r = Close(counted, c) BY <1>12, <1>20
  <2>2. z.outside = x.outside /\ z.attempt = x.attempt BY <1>6, <1>13 DEF Alike
  <2>3. Alive(z) /\ z.outside \subseteq {z.attempt} BY <1>13, <2>2 DEF Alive, Shape
  <2>4. Sound(r) /\ Untouched(counted, r, c) /\ r.conn[c] = Ended(z) /\ Held(r.conn[c]) = 0
    BY <1>11, <2>1, <2>3, CloseFacts
  <2>5. r.conn[c].phase = "closed" BY <1>13, <2>3, <2>4, EndedFacts
  <2>6. Untouched(m, r, c) BY <1>11, <2>4, UntouchedOn
  <2> QED BY <1>2, <2>4, <2>5, <2>6 DEF r
<1>21. CASE ~(k < s.queued) /\ ~s.ending
  <2> DEFINE w == r.conn[c]
  <2>1. r = ResumeIfAllowed(counted, c, from) BY <1>12, <1>21
  <2>2. counted \in Proxy BY <1>11 DEF Steady
  <2>3. /\ r \in Proxy /\ r.budget = counted.budget /\ \A d \in Conns \ {c} : r.conn[d] = counted.conn[d]
        /\ Alike(z, w) /\ (Shape(c, z) => Shape(c, w))
        /\ ~(z.phase = "open" /\ Joined(z) /\ MayRead(counted, c)) => r = counted
        /\ w[Other(from)] = z[Other(from)]
        /\ z.phase = "open" /\ Joined(z) /\ MayRead(counted, c) /\ w[from].paused => z[Other(from)].queued > 0
    BY <1>3, <2>1, <2>2, ResumeFacts
  <2>4. Joined(x) \/ c \in Calls
    <3>1. SUFFICES ASSUME ~Joined(x), c \in Tunnels PROVE FALSE BY DEF Conns
    <3>2. ~x[from].socket BY <1>2, <1>3, <3>1 DEF Joined, Sides
    <3>3. s.ending BY <1>3, <3>1, <3>2 DEF Shape
    <3> QED BY <1>21, <3>3
  <2>5. Shape(c, w) BY <1>18, <2>3, <2>4
  <2>6. Steady(r, c) /\ Untouched(counted, r, c) /\ Held(w) = Held(z)
    <3>1. w.share = z.share /\ (Alive(w) <=> Alive(z)) /\ \A side \in Sides : w[side].queued = z[side].queued
      BY <2>3 DEF Alike, Alive
    <3> QED BY <1>11, <2>3, <3>1, SteadyStep
  <2>7. MayRead(r, c) <=> MayRead(counted, c) BY <2>3 DEF MayRead, Alike
  <2>8. w.phase = z.phase /\ (Joined(w) <=> Joined(z))
    <3>1. w \in Connection BY <2>3 DEF Proxy
    <3> QED BY <1>13, <2>3, <3>1, SideOf, Others DEF Alike, Joined
  <2>9. PausedFor(r, c, to) /\ HeldBack(r, c, to)
    BY <1>3, <1>16, <2>3, <2>7, <2>8 DEF PausedFor, HeldBack, Alike
  <2>10. PausedFor(r, c, from)
    BY <1>3, <1>13, <2>3, <2>7, <2>8 DEF PausedFor, Alike
  <2>11. HeldBack(r, c, from) BY <1>16, <2>3, <2>8 DEF HeldBack, MayRead
  <2>12. Sound(r) BY <1>3, <2>5, <2>6, <2>9, <2>10, <2>11, SoundWhenSteady DEF Minded
  <2>13. Untouched(m, r, c) BY <1>11, <2>6, UntouchedOn
  <2>14. Held(w) = Held(x) - k /\ Held(w) <= Held(x) BY <1>2, <1>4, <1>13, <2>6
  <2> QED BY <2>12, <2>13, <2>14 DEF r
<1> QED BY <1>19, <1>20, <1>21

LEMMA HoldEarlyFacts ==
  ASSUME NEW m, NEW c \in Tunnels, Steady(m, c), Shape(c, m.conn[c]), m.conn[c].phase = "deciding", NEW n \in {0, 1}
  PROVE LET r == HoldEarly(m, c, n)
        IN  /\ Sound(r) /\ Untouched(m, r, c) /\ r.conn[c].phase # "open"
            /\ Held(r.conn[c]) <= Held(m.conn[c]) \/ ~r.budget.saturated
<1> DEFINE x == m.conn[c]
           y == [x EXCEPT !.upstream.queued = @ + n]
           k == [m EXCEPT !.conn[c].upstream.queued = @ + n]
           kept == Account(k, c, n)
           r == HoldEarly(m, c, n)
<1>1. m \in Proxy /\ c \in Conns /\ c \notin Calls BY KindsAssumption DEF Steady, Conns
<1>2. x \in Connection /\ x["client"] = x.client /\ x["upstream"] = x.upstream /\ Held(x) \in Nat BY <1>1, SideOf DEF Proxy
<1>3. x.client \in Side /\ x.upstream \in Side /\ x.client.queued \in Nat /\ x.upstream.queued \in Nat
  BY <1>2, SideOf, Others
<1>4. CASE n = 0
  <2>1. r = m BY <1>4 DEF HoldEarly
  <2>2. Sound(m) BY <1>1, SoundWhenSteady
  <2> QED BY <1>2, <2>1, <2>2 DEF Untouched, Alike
<1>5. CASE n = 1
  <2>1. /\ y \in Connection /\ y.client = x.client
        /\ y.upstream = [x.upstream EXCEPT !.queued = @ + 1]
        /\ y.phase = x.phase /\ y.share = x.share /\ y.caller = x.caller /\ y.quiet = x.quiet
        /\ y.attempt = x.attempt /\ y.waits = x.waits /\ y.outside = x.outside
    <3>1. [x.upstream EXCEPT !.queued = @ + 1] \in Side BY <1>3 DEF Side
    <3> QED BY <1>2, <1>5, <3>1 DEF Connection
  <2>2. /\ y.upstream.socket = x.upstream.socket /\ y.upstream.reads = x.upstream.reads
        /\ y.upstream.paused = x.upstream.paused /\ y.upstream.ending = x.upstream.ending
        /\ y.upstream.queued = x.upstream.queued + 1
    BY <1>3, <2>1 DEF Side
  <2>3. k = [m EXCEPT !.conn[c] = y] BY <1>1, <1>2 DEF Proxy
  <2> HIDE DEF k, y
  <2>4. k \in Proxy /\ k.budget = m.budget /\ k.conn[c] = y /\ \A d \in Conns \ {c} : k.conn[d] = m.conn[d]
    BY <1>1, <2>1, <2>3 DEF Proxy
  <2>5. y["client"] = y.client /\ y["upstream"] = y.upstream BY <2>1, SideOf
  <2>6. Held(y) = Held(x) + n BY <1>3, <1>5, <2>1, <2>2 DEF Held
  <2>7. Steady(kept, c) /\ Untouched(m, kept, c) /\ Passes(k, kept, c)
    <3>1. Alive(y) /\ Alive(x) /\ n \in Int BY <2>1 DEF Alive
    <3> QED BY <1>1, <2>1, <2>4, <2>6, <3>1, AccountStep
  <2>8. kept.conn[c] = y BY <1>1, <2>1, <2>4, <2>7 DEF Passes
  <2>9. Shape(c, y)
    <3>1. \A s \in Sides : y[s].reads <=> y[s].socket /\ ~y[s].paused BY <1>2, <2>1, <2>2, <2>5 DEF Shape, Sides
    <3> QED BY <1>1, <2>1, <2>2, <3>1 DEF Shape
  <2>10. r = IF kept.conn[c].upstream.queued > PendingBytes \/ ~MayRead(kept, c) THEN Close(kept, c) ELSE kept
    BY <1>5 DEF HoldEarly, k
  <2> HIDE DEF kept, r
  <2>11. CASE kept.conn[c].upstream.queued > PendingBytes \/ ~MayRead(kept, c)
    <3>1. r = Close(kept, c) BY <2>10, <2>11
    <3>2. y.outside \subseteq {y.attempt} /\ Alive(y) BY <2>1, <2>9 DEF Shape, Alive
    <3>3. Sound(r) /\ Untouched(kept, r, c) /\ r.conn[c] = Ended(y) /\ Held(r.conn[c]) = 0
      BY <1>1, <2>7, <2>8, <3>1, <3>2, CloseFacts
    <3>4. r.conn[c].phase = "closed" BY <1>1, <2>1, <3>2, <3>3, EndedFacts
    <3>5. Untouched(m, r, c) BY <2>7, <3>3, UntouchedOn
    <3> QED BY <1>2, <3>3, <3>4, <3>5 DEF r
  <2>12. CASE ~(kept.conn[c].upstream.queued > PendingBytes \/ ~MayRead(kept, c))
    <3>1. r = kept /\ ~r.budget.saturated BY <2>10, <2>12 DEF MayRead
    <3>2. Sound(r) BY <1>1, <2>1, <2>7, <2>8, <2>9, <3>1, SoundWhenSteady
    <3> QED BY <2>1, <2>7, <2>8, <3>1, <3>2 DEF r
  <2> QED BY <2>11, <2>12
<1> QED BY <1>4, <1>5

(* A connection joins its share with what it holds already.                 *)
LEMMA JoinFacts ==
  ASSUME NEW m, NEW c \in Conns, NEW p \in Projects, Steady(m, c), Shape(c, m.conn[c]), m.conn[c].share = Nobody,
         Alive(m.conn[c]), m.conn[c].phase # "open", m.conn[c].caller # "asked"
  PROVE LET n == Join(m, c, p)
        IN  /\ Sound(n) /\ Untouched(m, n, c) /\ Held(n.conn[c]) = Held(m.conn[c]) /\ n.conn[c].phase # "open"
<1> DEFINE x == m.conn[c]
           y == [x EXCEPT !.share = p]
           k == [m EXCEPT !.conn[c].share = p, !.budget.of[p] = @ + Held(m.conn[c])]
           n == Join(m, c, p)
<1>1. m \in Proxy /\ Tallied(m) /\ Marked(m.budget) BY DEF Steady
<1>2. x \in Connection /\ Held(x) \in Nat BY <1>1, SideOf DEF Proxy
<1>3. /\ m.budget.held \in Nat /\ m.budget.of \in [Projects -> Nat] /\ m.budget.blocked \subseteq Projects
  BY <1>1 DEF Proxy, Admission
<1>4. /\ y \in Connection /\ y.client = x.client /\ y.upstream = x.upstream /\ y.share = p
      /\ y.phase = x.phase /\ y.caller = x.caller /\ y.quiet = x.quiet
      /\ y.attempt = x.attempt /\ y.waits = x.waits /\ y.outside = x.outside
  BY <1>2 DEF Connection
<1>5. /\ k.conn = [m.conn EXCEPT ![c] = y] /\ k.budget.of = [m.budget.of EXCEPT ![p] = @ + Held(x)]
      /\ k.budget.held = m.budget.held /\ k.budget.blocked = m.budget.blocked
      /\ k.budget.saturated = m.budget.saturated
      /\ k \in Proxy
  <2> DEFINE of == [m.budget.of EXCEPT ![p] = @ + Held(x)]
  <2>1. of \in [Projects -> Nat] BY <1>2, <1>3
  <2>2. k = [m EXCEPT !.conn = [@ EXCEPT ![c] = y], !.budget = [@ EXCEPT !.of = of]] BY <1>1 DEF Proxy, Admission
  <2> HIDE DEF k, of
  <2>3. k.conn = [m.conn EXCEPT ![c] = y] /\ k.budget = [m.budget EXCEPT !.of = of] BY <1>1, <2>2 DEF Proxy
  <2>4. k.budget \in Admission /\ k.conn \in [Conns -> Connection]
    BY <1>1, <1>4, <2>1, <2>3 DEF Proxy, Admission
  <2> QED BY <1>1, <2>2, <2>3, <2>4 DEF Proxy, Admission, of
<1>6. n = OverBudget(k, p) BY DEF Join
<1> HIDE DEF k, y, n
<1>7. k.conn[c] = y /\ \A d \in Conns \ {c} : k.conn[d] = m.conn[d] BY <1>1, <1>5 DEF Proxy
<1>8. Untouched(m, k, c) BY <1>7 DEF Untouched, Alike
<1>9. Held(y) = Held(x) BY <1>4 DEF Held
<1>10. Nobody \notin Projects BY KindsAssumption
<1>11. ASSUME NEW q \in Projects PROVE k.budget.of[q] = Count(k.conn, Members(k, q))
  <2>1. Count(k.conn, Members(k, q)) = m.budget.of[q] - Part(m.conn, c, Members(m, q)) + Part(k.conn, c, Members(k, q))
    BY <1>1, <1>5, <1>8, TallyStep
  <2>2. Part(m.conn, c, Members(m, q)) = 0 BY <1>10 DEF Part, Members
  <2>3. Part(k.conn, c, Members(k, q)) = IF q = p THEN Held(x) ELSE 0
    BY <1>4, <1>7, <1>9 DEF Part, Members, Alive
  <2>4. m.budget.of[q] \in Nat BY <1>3
  <2>5. k.budget.of[q] = IF q = p THEN m.budget.of[q] + Held(x) ELSE m.budget.of[q] BY <1>3, <1>5
  <2> QED BY <1>2, <2>1, <2>2, <2>3, <2>4, <2>5
<1>12. IsFiniteSet(Bytes(k.conn, Conns)) /\ k.budget.held = Count(k.conn, Conns)
  <2>1. /\ IsFiniteSet(Bytes(k.conn, Conns))
        /\ Count(k.conn, Conns) = m.budget.held - Held(x) + Held(k.conn[c])
    BY ZenonT(40), <1>1, <1>5, <1>8, TallyStep
  <2>2. Held(k.conn[c]) = Held(x) BY <1>7, <1>9
  <2> QED BY <1>2, <1>3, <1>5, <2>1, <2>2
<1>13. ASSUME NEW q \in k.budget.blocked PROVE Above(k.budget, q)
  <2>1. q \in Projects /\ m.budget.of[q] \in Nat /\ 2 * m.budget.of[q] > ProjectBuffer BY <1>1, <1>3, <1>5, <1>13 DEF Marked, Above
  <2>2. k.budget.of[q] = m.budget.of[q] \/ k.budget.of[q] = m.budget.of[q] + Held(x) BY <1>3, <1>5, <2>1
  <2> QED BY <1>2, <2>1, <2>2, Numbers DEF Above
<1>14. /\ n \in Proxy /\ n.budget.held = k.budget.held /\ n.budget.of = k.budget.of
       /\ Marked(n.budget) /\ \A d \in Conns : Passes(k, n, d)
  <2>1. k.budget.saturated => 2 * k.budget.held > TotalBuffer BY <1>1, <1>5 DEF Marked
  <2> QED BY <1>5, <1>6, <1>13, <2>1, OverFacts
<1>15. \A d \in Conns : Alike(k.conn[d], n.conn[d]) BY <1>14 DEF Passes
<1>16. Tallied(n)
  <2>1. k.conn \in [Conns -> Connection] /\ n.conn \in [Conns -> Connection] BY <1>5, <1>14 DEF Proxy
  <2>2. \A d \in Conns : \A s \in Sides : n.conn[d][s].queued = k.conn[d][s].queued BY <1>15 DEF Alike
  <2>3. \A q \in Projects : Members(n, q) = Members(k, q) BY <1>15 DEF Members, Alike, Alive
  <2>4. \A q \in Projects : Members(k, q) \in SUBSET Conns BY DEF Members
  <2>5. Bytes(n.conn, Conns) = Bytes(k.conn, Conns) BY <2>1, <2>2, CountSame
  <2>6. \A q \in Projects : Bytes(n.conn, Members(k, q)) = Bytes(k.conn, Members(k, q)) BY <2>1, <2>2, <2>4, CountSame
  <2> QED BY <1>11, <1>12, <1>14, <2>3, <2>5, <2>6 DEF Tallied, Count
<1>17. n.conn[c] = y BY <1>4, <1>7, <1>14 DEF Passes
<1>18. Shape(c, y)
  <2>1. y["client"] = x["client"] /\ y["upstream"] = x["upstream"] BY <1>2, <1>4, SideOf
  <2>2. \A s \in Sides : y[s].reads <=> y[s].socket /\ ~y[s].paused BY <2>1 DEF Shape, Sides
  <2> QED BY <1>4, <2>2 DEF Shape, Alive
<1>19. ASSUME NEW d \in Conns \ {c} PROVE Shape(d, n.conn[d]) /\ Minded(n, d)
  <2>1. Shape(d, m.conn[d]) /\ Minded(m, d) BY DEF Steady
  <2>2. Shape(d, k.conn[d]) BY <1>7, <2>1
  <2>3. Minded(k, d) BY <1>5, <1>7, <2>1 DEF Minded, PausedFor, HeldBack, MayRead
  <2> QED BY <1>14, <2>2, <2>3 DEF Passes, Minded
<1>20. Steady(n, c) BY <1>14, <1>16, <1>19 DEF Steady
<1>21. Sound(n) BY <1>4, <1>17, <1>18, <1>20, SoundWhenSteady
<1>22. Untouched(m, n, c) BY <1>7, <1>15 DEF Untouched
<1> QED BY <1>4, <1>9, <1>17, <1>21, <1>22 DEF n

-----------------------------------------------------------------------------
(* The steps.                                                               *)
EgressInv == Sound(Now) /\ Count(conn, Tunnels) <= TotalBuffer + 1

After == [conn |-> conn', budget |-> budget']
Drained(x, y) ==
    Halved(x) /\ y.phase = "open" =>
        /\ Held(y) <= Held(x)
        /\ y.quiet \/ ~x.quiet \/ Held(y) < Held(x)

(* What a step of one connection may do: the bytes of a tunnel grow by one  *)
(* read at most, while the total is not crossed.                            *)
Moves(m, n, c) ==
    /\ Sound(n) /\ Untouched(m, n, c)
    /\ c \in Tunnels => Drained(m.conn[c], n.conn[c])
    /\ \/ c \in Calls
       \/ Held(n.conn[c]) <= Held(m.conn[c])
       \/ ~n.budget.saturated
       \/ ~m.budget.saturated /\ Held(n.conn[c]) <= Held(m.conn[c]) + 1

LEMMA Here ==
  ASSUME EgressInv, NEW c \in Conns
  PROVE /\ Now \in Proxy /\ Now.conn = conn /\ Now.budget = budget /\ Steady(Now, c)
        /\ conn \in [Conns -> Connection] /\ budget \in Admission
        /\ conn[c] \in Connection /\ Shape(c, conn[c]) /\ Minded(Now, c) /\ Held(conn[c]) \in Nat
        /\ conn[c]["client"] = conn[c].client /\ conn[c]["upstream"] = conn[c].upstream
        /\ conn[c].client \in Side /\ conn[c].upstream \in Side
        /\ conn[c].outside \subseteq {conn[c].attempt}
<1>1. Now \in Proxy /\ Now.conn = conn /\ Now.budget = budget BY DEF EgressInv, Sound, Now
<1>2. conn \in [Conns -> Connection] /\ budget \in Admission BY <1>1 DEF Proxy
<1>3. Steady(Now, c) /\ Shape(c, conn[c]) /\ Minded(Now, c) BY <1>1, SoundWhenSteady DEF EgressInv
<1>4. conn[c] \in Connection BY <1>2
<1> QED BY <1>1, <1>2, <1>3, <1>4, SideOf, Others DEF Shape

LEMMA BecomesAfter ==
  ASSUME NEW m, m \in Proxy, Becomes(m)
  PROVE After = m /\ conn' = m.conn /\ budget' = m.budget
BY DEF Becomes, After, Proxy

LEMMA MovesKeep ==
  ASSUME EgressInv, NEW c \in Conns, Moves(Now, After, c)
  PROVE EgressInv' /\ \A d \in Tunnels : Drained(conn[d], conn'[d])
<1>1. Now.conn = conn /\ Now.budget = budget /\ After.conn = conn' /\ After.budget = budget' BY DEF Now, After
<1>2. Now \in Proxy /\ After \in Proxy /\ Tallied(Now) /\ Tallied(After) /\ Marked(Now.budget) /\ Marked(After.budget)
  BY DEF EgressInv, Moves, Sound
<1>3. Untouched(Now, After, c) BY DEF Moves
<1>4. /\ Count(conn', Tunnels) = Count(conn, Tunnels) - Part(conn, c, Tunnels) + Part(conn', c, Tunnels)
      /\ Count(conn', Tunnels) \in Nat /\ Count(conn, Tunnels) \in Nat
      /\ Count(conn', Tunnels) <= Count(conn', Conns)
  BY <1>1, <1>2, <1>3, TallyStep
<1>5. Count(conn, Tunnels) <= Count(conn, Conns)
  <2>1. Untouched(Now, Now, c) BY DEF Untouched, Alike
  <2> QED BY <1>1, <1>2, <2>1, TallyStep
<1>6. Held(conn[c]) \in Nat /\ Held(conn'[c]) \in Nat BY <1>1, <1>2, SideOf DEF Proxy
<1>7. budget.held = Count(conn, Conns) /\ budget'.held = Count(conn', Conns) BY <1>1, <1>2 DEF Tallied
<1>8. /\ ~budget.saturated => budget.held <= TotalBuffer
      /\ ~budget'.saturated => budget'.held <= TotalBuffer BY <1>1, <1>2 DEF Marked
<1>9. Count(conn', Conns) \in Nat /\ Count(conn, Conns) \in Nat
  BY <1>1, <1>2, <1>7 DEF Proxy, Admission
<1>10. Count(conn', Tunnels) <= TotalBuffer + 1
  <2>1. CASE c \in Calls
    <3>1. c \notin Tunnels BY <2>1, KindsAssumption
    <3> QED BY <1>4, <3>1, Numbers DEF Part, EgressInv
  <2>2. CASE c \in Tunnels /\ Held(conn'[c]) <= Held(conn[c])
    BY <1>4, <1>6, <2>2, Numbers DEF Part, EgressInv
  <2>3. CASE ~budget'.saturated BY <1>4, <1>7, <1>8, <1>9, <2>3, Numbers
  <2>4. CASE c \in Tunnels /\ ~budget.saturated /\ Held(conn'[c]) <= Held(conn[c]) + 1
    <3>1. Count(conn, Tunnels) <= TotalBuffer BY <1>4, <1>5, <1>7, <1>8, <1>9, <2>4, Numbers
    <3> QED BY <1>4, <1>6, <2>4, <3>1, Numbers DEF Part
  <2> QED BY <1>1, <2>1, <2>2, <2>3, <2>4 DEF Moves, Conns
<1>11. EgressInv'
  <2>1. Now' = After BY DEF Now, After
  <2>2. Sound(After) BY DEF Moves
  <2>3. Sound(Now)' BY <2>1, <2>2
  <2> QED BY <1>10, <2>3 DEF EgressInv
<1>12. ASSUME NEW d \in Tunnels PROVE Drained(conn[d], conn'[d])
  <2>1. CASE d = c BY <1>1, <2>1 DEF Moves
  <2>2. CASE d # c
    <3>1. d \in Conns \ {c} BY <2>2 DEF Conns
    <3>2. Alike(conn[d], conn'[d]) BY <1>1, <1>3, <3>1 DEF Untouched
    <3>3. conn[d] \in Connection /\ conn'[d] \in Connection BY <1>1, <1>2, <3>1 DEF Proxy
    <3>4. conn'[d].quiet = conn[d].quiet BY <3>2 DEF Alike
    <3>5. /\ conn[d]["client"] = conn[d].client /\ conn[d]["upstream"] = conn[d].upstream
          /\ conn'[d]["client"] = conn'[d].client /\ conn'[d]["upstream"] = conn'[d].upstream
          /\ Held(conn[d]) \in Nat /\ conn[d].quiet \in BOOLEAN BY <3>3, SideOf DEF Connection
    <3>6. Held(conn'[d]) = Held(conn[d]) BY <3>2, <3>5, Others DEF Alike, Held
    <3>7. Held(conn'[d]) <= Held(conn[d]) BY <3>5, <3>6
    <3> QED BY <3>4, <3>5, <3>7 DEF Drained
  <2> QED BY <2>1, <2>2
<1> QED BY <1>11, <1>12

(* A connection is rewritten, but for its bytes, its share, and its place.  *)
LEMMA Rewritten ==
  ASSUME EgressInv, NEW c \in Conns, NEW y \in Connection,
         y.client.queued = conn[c].client.queued, y.upstream.queued = conn[c].upstream.queued,
         y.share = conn[c].share, (Alive(y) <=> Alive(conn[c])) \/ conn[c].share = Nobody
  PROVE LET k == [Now EXCEPT !.conn[c] = y]
        IN  /\ k \in Proxy /\ k.conn[c] = y /\ k.budget = budget /\ \A d \in Conns \ {c} : k.conn[d] = conn[d]
            /\ k.conn = [conn EXCEPT ![c] = y]
            /\ Steady(k, c) /\ Untouched(Now, k, c) /\ Held(y) = Held(conn[c])
<1> DEFINE k == [Now EXCEPT !.conn[c] = y]
<1>1. Now \in Proxy /\ Now.conn = conn /\ Now.budget = budget /\ Steady(Now, c) BY Here
<1>2. /\ k \in Proxy /\ k.conn[c] = y /\ k.budget = budget /\ \A d \in Conns \ {c} : k.conn[d] = conn[d]
      /\ k.conn = [conn EXCEPT ![c] = y]
  BY <1>1 DEF Proxy
<1> HIDE DEF k
<1>3. \A s \in Sides : y[s].queued = conn[c][s].queued
  <2>1. y["client"] = y.client /\ y["upstream"] = y.upstream BY SideOf
  <2>2. conn[c]["client"] = conn[c].client /\ conn[c]["upstream"] = conn[c].upstream BY Here
  <2> QED BY <2>1, <2>2 DEF Sides
<1>4. /\ k.budget = Now.budget /\ \A d \in Conns \ {c} : k.conn[d] = Now.conn[d]
      /\ \A s \in Sides : k.conn[c][s].queued = Now.conn[c][s].queued
      /\ k.conn[c].share = Now.conn[c].share
      /\ (Alive(k.conn[c]) <=> Alive(Now.conn[c])) \/ Now.conn[c].share = Nobody
  BY <1>1, <1>2, <1>3
<1>5. Steady(k, c) /\ Untouched(Now, k, c) /\ Held(k.conn[c]) = Held(Now.conn[c])
  <2> DEFINE m == Now
  <2>1. Steady(m, c) BY <1>1
  <2>2. /\ k \in Proxy /\ k.budget = m.budget /\ \A d \in Conns \ {c} : k.conn[d] = m.conn[d]
        /\ \A s \in Sides : k.conn[c][s].queued = m.conn[c][s].queued
        /\ k.conn[c].share = m.conn[c].share
        /\ (Alive(k.conn[c]) <=> Alive(m.conn[c])) \/ m.conn[c].share = Nobody
    BY <1>2, <1>4
  <2> HIDE DEF m
  <2>3. Steady(k, c) /\ Untouched(m, k, c) /\ Held(k.conn[c]) = Held(m.conn[c])
    BY <2>1, <2>2, SteadyStep
  <2> QED BY <2>3 DEF m
<1> QED BY <1>1, <1>2, <1>5 DEF k

LEMMA ClosesIt ==
  ASSUME EgressInv, NEW c \in Conns, NEW k, Steady(k, c), Untouched(Now, k, c), Alive(k.conn[c]),
         k.conn[c].outside \subseteq {k.conn[c].attempt}, Becomes(Close(k, c))
  PROVE Moves(Now, After, c)
<1> DEFINE n == Close(k, c)
<1>1. Sound(n) /\ Untouched(k, n, c) /\ n.conn[c] = Ended(k.conn[c]) /\ Held(n.conn[c]) = 0 BY CloseFacts
<1>2. n.conn[c].phase = "closed" BY <1>1 DEF Ended, Vacant
<1>3. After = n BY <1>1, BecomesAfter DEF Sound
<1>4. Untouched(Now, n, c) BY <1>1, UntouchedOn
<1>5. Held(n.conn[c]) <= Held(Now.conn[c]) BY <1>1, Here
<1> QED BY <1>1, <1>2, <1>3, <1>4, <1>5 DEF Moves, Drained

LEMMA MovesTo ==
  ASSUME EgressInv, NEW c \in Conns, NEW n, Sound(n), Untouched(Now, n, c), Becomes(n),
         \/ c \in Calls \/ Held(n.conn[c]) <= Held(conn[c]) \/ ~n.budget.saturated
         \/ ~budget.saturated /\ Held(n.conn[c]) <= Held(conn[c]) + 1,
         c \in Tunnels => Drained(conn[c], n.conn[c])
  PROVE Moves(Now, After, c)
<1>1. After = n BY BecomesAfter DEF Sound
<1>2. Now.conn = conn /\ Now.budget = budget BY Here
<1> QED BY <1>1, <1>2 DEF Moves

(* A step that leaves its connection short of open, or as it was but for    *)
(* what is not counted.                                                     *)
LEMMA Settles ==
  ASSUME EgressInv, NEW c \in Conns, NEW k, Steady(k, c), Untouched(Now, k, c), Shape(c, k.conn[c]),
         k.conn[c].phase # "open", Held(k.conn[c]) = Held(conn[c]), Becomes(k)
  PROVE Moves(Now, After, c)
<1>1. Sound(k) BY SoundWhenSteady
<1>2. Held(conn[c]) \in Nat BY Here
<1> QED BY <1>1, <1>2, MovesTo DEF Drained

LEMMA EntersMoves ==
  ASSUME EgressInv, NEW c \in Conns, Enters(c)
  PROVE Moves(Now, After, c)
<1> DEFINE x == conn[c]
           y == [x EXCEPT !.phase = "head", !.client = Socket]
           k == [Now EXCEPT !.conn[c] = y]
<1>1. conn[c] = Vacant /\ conn' = [conn EXCEPT ![c] = y] /\ budget' = budget
  BY Here DEF Enters
<1>2. /\ NoSide \in Side /\ NoSide.queued = 0 /\ ~NoSide.socket /\ ~NoSide.reads /\ ~NoSide.paused /\ ~NoSide.ending
      /\ Socket \in Side /\ Socket.queued = 0 /\ Socket.socket /\ Socket.reads /\ ~Socket.paused /\ ~Socket.ending
  <2>1. NoSide \in Side /\ NoSide.queued = 0 /\ ~NoSide.socket /\ ~NoSide.reads /\ ~NoSide.paused /\ ~NoSide.ending
    BY DEF NoSide, Side
  <2> QED BY <2>1 DEF Socket, Side
<1>3. /\ x \in Connection /\ x.caller = "asked" /\ x.share = Nobody /\ x.client = NoSide /\ x.upstream = NoSide
      /\ x.attempt = 0 /\ x.waits = {} /\ x.outside = {} /\ ~x.quiet
  BY <1>1, Here DEF Vacant
<1>4. /\ y.phase = "head" /\ y.caller = "asked" /\ y.share = Nobody /\ y.client = Socket /\ y.upstream = NoSide
      /\ y.attempt = 0 /\ y.waits = {} /\ y.outside = {} /\ y \in Connection
  BY <1>2, <1>3 DEF Connection, Phases
<1>6. y.client.queued = x.client.queued /\ y.upstream.queued = x.upstream.queued /\ y.share = x.share
  BY <1>2, <1>3, <1>4
<1> HIDE DEF y
<1>7. /\ k \in Proxy /\ k.conn[c] = y /\ k.budget = budget /\ k.conn = [conn EXCEPT ![c] = y]
      /\ Steady(k, c) /\ Untouched(Now, k, c) /\ Held(y) = Held(conn[c])
  BY <1>3, <1>4, <1>6, Rewritten
<1>8. Shape(c, y)
  <2>1. y["client"] = Socket /\ y["upstream"] = NoSide BY <1>4, SideOf
  <2> QED BY <1>2, <1>4, <2>1, Numbers DEF Shape, Sides
<1>9. Becomes(k) BY <1>1, <1>7 DEF Becomes
<1>10. k.conn[c].phase # "open" BY <1>4, <1>7
<1> HIDE DEF k
<1> QED BY <1>7, <1>8, <1>9, <1>10, Settles

LEMMA IdentifiedMoves ==
  ASSUME EgressInv, NEW c \in Conns, Identified(c)
  PROVE Moves(Now, After, c)
<1> DEFINE x == conn[c]
<1>1. /\ x \in Connection /\ Shape(c, x) /\ x.caller = "asked" /\ Alive(x) /\ x.outside \subseteq {x.attempt}
  BY Here DEF Identified
<1>2. x.phase # "open" /\ x.share = Nobody BY <1>1 DEF Shape
<1>3. PICK who \in Projects \cup {Nobody} :
         LET known == [Now EXCEPT !.conn[c].caller = who]
         IN  Becomes(IF who = Nobody THEN known
                     ELSE IF Full(Now, who) THEN Close(known, c)
                     ELSE Join(known, c, who))
  BY DEF Identified
<1> DEFINE y == [x EXCEPT !.caller = who]
           k == [Now EXCEPT !.conn[c] = y]
<1>4. Becomes(IF who = Nobody THEN k ELSE IF Full(Now, who) THEN Close(k, c) ELSE Join(k, c, who))
  <2>1. [Now EXCEPT !.conn[c].caller = who] = k BY DEF Now
  <2> QED BY <1>3, <2>1
<1>5. /\ y \in Connection /\ y.phase = x.phase /\ y.share = x.share /\ y.client = x.client /\ y.upstream = x.upstream
      /\ y.attempt = x.attempt /\ y.waits = x.waits /\ y.outside = x.outside /\ y.caller = who /\ y.quiet = x.quiet
  BY <1>1 DEF Connection
<1> HIDE DEF y
<1>6. /\ k \in Proxy /\ k.conn[c] = y /\ k.budget = budget /\ k.conn = [conn EXCEPT ![c] = y]
      /\ Steady(k, c) /\ Untouched(Now, k, c) /\ Held(y) = Held(x)
  <2>1. Alive(y) <=> Alive(x) BY <1>5 DEF Alive
  <2> QED BY <1>5, <2>1, Rewritten
<1>7. who # "asked" BY <1>3, KindsAssumption
<1>8. Shape(c, y)
  <2>1. y["client"] = x["client"] /\ y["upstream"] = x["upstream"] BY <1>1, <1>5, SideOf
  <2>2. \A s \in Sides : y[s] = x[s] BY <2>1 DEF Sides
  <2> QED BY <1>1, <1>2, <1>5, <1>7, <2>2, Others DEF Shape, Alive
<1> HIDE DEF k, x
<1>9. CASE who = Nobody
  <2>1. Becomes(k) BY <1>4, <1>9
  <2> QED BY <1>2, <1>5, <1>6, <1>8, <2>1, Settles DEF x
<1>10. CASE who # Nobody /\ Full(Now, who)
  <2>1. Becomes(Close(k, c)) BY <1>4, <1>10
  <2>2. Alive(k.conn[c]) /\ k.conn[c].outside \subseteq {k.conn[c].attempt} BY <1>1, <1>5, <1>6 DEF Alive
  <2> QED BY <1>6, <2>1, <2>2, ClosesIt
<1>11. CASE who # Nobody /\ ~Full(Now, who)
  <2> DEFINE n == Join(k, c, who)
  <2>1. Becomes(n) /\ who \in Projects BY <1>3, <1>4, <1>11
  <2>2. Sound(n) /\ Untouched(k, n, c) /\ Held(n.conn[c]) = Held(k.conn[c]) /\ n.conn[c].phase # "open"
    <3>1. k.conn[c].share = Nobody /\ Alive(k.conn[c]) /\ k.conn[c].phase # "open" /\ k.conn[c].caller # "asked"
      BY <1>1, <1>2, <1>5, <1>6, <1>7 DEF Alive
    <3>2. Shape(c, k.conn[c]) BY <1>6, <1>8
    <3> QED BY ZenonT(40), <1>6, <2>1, <3>1, <3>2, JoinFacts
  <2> HIDE DEF n
  <2>3. Untouched(Now, n, c) BY <1>6, <2>2, UntouchedOn
  <2>4. Held(n.conn[c]) = Held(conn[c]) /\ Held(conn[c]) \in Nat BY <1>6, <2>2, Here DEF x
  <2>5. Drained(conn[c], n.conn[c]) BY <2>2 DEF Drained
  <2> QED BY <2>1, <2>2, <2>3, <2>4, <2>5, MovesTo
<1> QED BY <1>9, <1>10, <1>11

(* The head, and what came early.                                           *)
LEMMA EarlyMoves ==
  ASSUME EgressInv, NEW c \in Tunnels, NEW k, Steady(k, c), Untouched(Now, k, c), Shape(c, k.conn[c]),
         k.conn[c].phase = "deciding", Held(k.conn[c]) = Held(conn[c]), NEW n \in {0, 1}, Becomes(HoldEarly(k, c, n))
  PROVE Moves(Now, After, c)
<1> DEFINE r == HoldEarly(k, c, n)
<1>1. /\ Sound(r) /\ Untouched(k, r, c) /\ r.conn[c].phase # "open"
      /\ Held(r.conn[c]) <= Held(k.conn[c]) \/ ~r.budget.saturated
  BY HoldEarlyFacts
<1> HIDE DEF r
<1>2. Untouched(Now, r, c) BY <1>1, UntouchedOn
<1>3. Drained(conn[c], r.conn[c]) BY <1>1 DEF Drained
<1>4. c \in Conns BY DEF Conns
<1> QED BY <1>1, <1>2, <1>3, <1>4, MovesTo DEF r

LEMMA SteadyNow ==
  ASSUME EgressInv, NEW c \in Conns
  PROVE Steady(Now, c) /\ Untouched(Now, Now, c) /\ Now.conn[c] = conn[c] /\ Shape(c, conn[c]) /\ Held(conn[c]) \in Nat
BY Here DEF Untouched, Alike

LEMMA HeadArrivesMoves ==
  ASSUME EgressInv, NEW c \in Conns, HeadArrives(c)
  PROVE Moves(Now, After, c)
<1> DEFINE x == conn[c]
<1>1. x \in Connection /\ Shape(c, x) /\ x.phase = "head" /\ x.client \in Side BY Here DEF HeadArrives
<1> DEFINE y == [x EXCEPT !.phase = "deciding", !.client = Pause(@)]
           k == [Now EXCEPT !.conn[c] = y]
<1>2. PICK n \in {0, 1} :
         Becomes(IF c \in Tunnels THEN HoldEarly([Now EXCEPT !.conn[c].phase = "deciding", !.conn[c].client = Pause(@)], c, n)
                 ELSE [Now EXCEPT !.conn[c].phase = "deciding", !.conn[c].client = Pause(@)])
  BY DEF HeadArrives
<1>3. Becomes(IF c \in Tunnels THEN HoldEarly(k, c, n) ELSE k)
  <2>1. [Now EXCEPT !.conn[c].phase = "deciding", !.conn[c].client = Pause(@)] = k BY Here DEF Now, Connection
  <2> QED BY <1>2, <2>1
<1>4. /\ Pause(x.client) \in Side /\ Pause(x.client).queued = x.client.queued /\ Pause(x.client).socket = x.client.socket
      /\ Pause(x.client).ending = x.client.ending /\ Pause(x.client).paused /\ ~Pause(x.client).reads
  BY <1>1 DEF Pause, Side
<1>5. /\ y \in Connection /\ y.phase = "deciding" /\ y.share = x.share /\ y.client = Pause(x.client) /\ y.upstream = x.upstream
      /\ y.attempt = x.attempt /\ y.waits = x.waits /\ y.outside = x.outside /\ y.caller = x.caller /\ y.quiet = x.quiet
  BY <1>1, <1>4 DEF Connection, Phases
<1> HIDE DEF y
<1>6. /\ k \in Proxy /\ k.conn[c] = y /\ k.budget = budget /\ k.conn = [conn EXCEPT ![c] = y]
      /\ Steady(k, c) /\ Untouched(Now, k, c) /\ Held(y) = Held(x)
  <2>1. Alive(y) <=> Alive(x) BY <1>1, <1>5 DEF Alive
  <2> QED BY <1>4, <1>5, <2>1, Rewritten
<1>7. Shape(c, y)
  <2>1. /\ y["client"] = Pause(x.client) /\ y["upstream"] = x.upstream
        /\ x["client"] = x.client /\ x["upstream"] = x.upstream BY <1>1, <1>5, SideOf
  <2>2. \A s \in Sides : y[s].reads <=> y[s].socket /\ ~y[s].paused
    BY <1>1, <1>4, <2>1 DEF Shape, Sides
  <2> QED BY <1>1, <1>4, <1>5, <2>2 DEF Shape
<1> HIDE DEF k, x
<1>8. CASE c \in Tunnels
  <2>1. k.conn[c].phase = "deciding" /\ Held(k.conn[c]) = Held(conn[c]) /\ Shape(c, k.conn[c]) BY <1>5, <1>6, <1>7 DEF x
  <2>2. Becomes(HoldEarly(k, c, n)) BY <1>3, <1>8
  <2> QED BY <1>6, <1>8, <2>1, <2>2, EarlyMoves
<1>9. CASE c \notin Tunnels
  <2>1. k.conn[c].phase # "open" /\ Held(k.conn[c]) = Held(conn[c]) /\ Shape(c, k.conn[c]) BY <1>5, <1>6, <1>7 DEF x
  <2>2. Becomes(k) BY <1>3, <1>9
  <2> QED BY <1>6, <2>1, <2>2, Settles
<1> QED BY <1>8, <1>9

LEMMA EarlyDataMoves ==
  ASSUME EgressInv, NEW c \in Conns, EarlyData(c)
  PROVE Moves(Now, After, c)
<1> DEFINE m == Now
<1>1. c \in Tunnels /\ m.conn[c].phase = "deciding" /\ Becomes(HoldEarly(m, c, 1)) BY Here DEF EarlyData
<1>2. /\ Steady(m, c) /\ Untouched(Now, m, c) /\ Shape(c, m.conn[c]) /\ Held(m.conn[c]) = Held(conn[c]) BY SteadyNow
<1> HIDE DEF m
<1> QED BY <1>1, <1>2, EarlyMoves

(* A connection that is closed at once: refused, or swept.                  *)
LEMMA EndsMoves ==
  ASSUME EgressInv, NEW c \in Conns, Refused(c) \/ Sweep(c)
  PROVE Moves(Now, After, c)
<1> DEFINE m == Now
<1>1. Alive(m.conn[c]) /\ m.conn[c].outside \subseteq {m.conn[c].attempt} /\ Becomes(Close(m, c))
  BY Here DEF Refused, Sweep, Alive
<1>2. Steady(m, c) /\ Untouched(Now, m, c) BY SteadyNow
<1> HIDE DEF m
<1> QED BY <1>1, <1>2, ClosesIt

LEMMA AllowedMoves ==
  ASSUME EgressInv, NEW c \in Conns, Allowed(c)
  PROVE Moves(Now, After, c)
<1> DEFINE x == conn[c]
           y == [x EXCEPT !.attempt = 1, !.waits = {1}]
           k == [Now EXCEPT !.conn[c] = y]
<1>1. /\ x \in Connection /\ Shape(c, x) /\ c \in Tunnels /\ x.phase = "deciding" /\ x.attempt = 0
      /\ x.caller \in Projects /\ conn' = [conn EXCEPT ![c] = y] /\ budget' = budget
  BY Here DEF Allowed
<1>2. /\ y \in Connection /\ y.phase = x.phase /\ y.share = x.share /\ y.client = x.client /\ y.upstream = x.upstream
      /\ y.attempt = 1 /\ y.waits = {1} /\ y.outside = x.outside /\ y.caller = x.caller /\ y.quiet = x.quiet
  <2>1. 1 \in 0..Addresses /\ 1 \in 1..Addresses BY NumbersAssumption
  <2> QED BY <1>1, <2>1 DEF Connection
<1> HIDE DEF y
<1>3. /\ k \in Proxy /\ k.conn[c] = y /\ k.budget = budget /\ k.conn = [conn EXCEPT ![c] = y]
      /\ Steady(k, c) /\ Untouched(Now, k, c) /\ Held(y) = Held(x)
  <2>1. Alive(y) <=> Alive(x) BY <1>2 DEF Alive
  <2> QED BY <1>2, <2>1, Rewritten
<1>4. Shape(c, y)
  <2>1. y["client"] = x["client"] /\ y["upstream"] = x["upstream"] /\ c \notin Calls BY <1>1, <1>2, SideOf, KindsAssumption
  <2>2. \A s \in Sides : y[s] = x[s] BY <2>1 DEF Sides
  <2>3. x.caller # "asked" /\ ~x.upstream.socket BY <1>1, KindsAssumption DEF Shape
  <2> QED BY <1>1, <1>2, <2>1, <2>2, <2>3 DEF Shape
<1>5. Becomes(k) BY <1>1, <1>3 DEF Becomes
<1>6. k.conn[c].phase # "open" BY <1>1, <1>2, <1>3
<1> HIDE DEF k
<1> QED BY <1>3, <1>4, <1>5, <1>6, Settles

(* The attempts: the next one, or the refusal after the last.               *)
LEMMA NextAddressMoves ==
  ASSUME EgressInv, NEW c \in Conns, Trying(c), NEW w \in SUBSET (1..Addresses), NextAddress(c, w)
  PROVE Moves(Now, After, c)
<1> DEFINE x == conn[c]
           y == [x EXCEPT !.waits = w]
           k == [Now EXCEPT !.conn[c] = y]
           z == [x EXCEPT !.waits = w \cup {x.attempt + 1}, !.attempt = x.attempt + 1]
           n == [Now EXCEPT !.conn[c] = z]
<1>1. /\ x \in Connection /\ Shape(c, x) /\ x.phase = "deciding" /\ x.attempt \in x.waits
      /\ x.outside \subseteq {x.attempt}
  BY Here DEF Trying
<1>2. x.attempt \in 1..Addresses BY <1>1 DEF Connection
<1>3. Becomes(IF x.attempt = Addresses THEN Close(k, c) ELSE n) BY DEF NextAddress
<1>4. CASE x.attempt = Addresses
  <2>1. /\ y \in Connection /\ y.phase = x.phase /\ y.share = x.share /\ y.client = x.client /\ y.upstream = x.upstream
        /\ y.attempt = x.attempt /\ y.outside = x.outside
    BY <1>1 DEF Connection
  <2> HIDE DEF y
  <2>2. /\ k.conn[c] = y /\ Steady(k, c) /\ Untouched(Now, k, c)
    <3>1. Alive(y) <=> Alive(x) BY <2>1 DEF Alive
    <3> QED BY <2>1, <3>1, Rewritten
  <2>3. Becomes(Close(k, c)) BY <1>3, <1>4
  <2>4. Alive(k.conn[c]) /\ k.conn[c].outside \subseteq {k.conn[c].attempt} BY <1>1, <2>1, <2>2 DEF Alive
  <2> HIDE DEF k
  <2> QED BY <2>2, <2>3, <2>4, ClosesIt
<1>5. CASE x.attempt # Addresses
  <2>1. /\ z \in Connection /\ z.phase = x.phase /\ z.share = x.share /\ z.client = x.client /\ z.upstream = x.upstream
        /\ z.outside = x.outside /\ z.caller = x.caller
    <3>1. x.attempt + 1 \in 0..Addresses /\ x.attempt + 1 \in 1..Addresses BY <1>2, <1>5, Numbers
    <3> QED BY <1>1, <3>1 DEF Connection
  <2> HIDE DEF z
  <2>2. /\ n.conn[c] = z /\ Steady(n, c) /\ Untouched(Now, n, c) /\ Held(z) = Held(x)
    <3>1. Alive(z) <=> Alive(x) BY <2>1 DEF Alive
    <3> QED BY <2>1, <3>1, Rewritten
  <2>3. Shape(c, z)
    <3>1. z["client"] = x["client"] /\ z["upstream"] = x["upstream"] BY <1>1, <2>1, SideOf
    <3>2. \A s \in Sides : z[s] = x[s] BY <3>1 DEF Sides
    <3>3. x.caller # "asked" /\ ~x.upstream.socket /\ c \notin Calls BY <1>1, <1>2 DEF Shape
    <3> QED BY <1>1, <2>1, <3>2, <3>3 DEF Shape
  <2>4. Becomes(n) BY <1>3, <1>5
  <2>5. n.conn[c].phase # "open" BY <1>1, <2>1, <2>2
  <2> HIDE DEF n
  <2> QED BY <2>2, <2>3, <2>4, <2>5, Settles
<1> QED BY <1>4, <1>5

LEMMA AttemptMoves ==
  ASSUME EgressInv, NEW c \in Conns, AttemptFails(c) \/ AttemptExpires(c)
  PROVE Moves(Now, After, c)
<1>1. conn[c].waits \in SUBSET (1..Addresses) /\ conn[c].waits \ {conn[c].attempt} \in SUBSET (1..Addresses)
  BY Here DEF Connection
<1> QED BY <1>1, NextAddressMoves DEF AttemptFails, AttemptExpires

(* What is on neither side: an attempt given up on, the clock.              *)
LEMMA AsideMoves ==
  ASSUME EgressInv, NEW c \in Conns, NEW y \in Connection,
         y.phase = conn[c].phase, y.share = conn[c].share, y.caller = conn[c].caller,
         y.client = conn[c].client, y.upstream = conn[c].upstream, y.outside = conn[c].outside,
         y.attempt = conn[c].attempt, y.waits \subseteq conn[c].waits,
         y.quiet = conn[c].quiet \/ (y.quiet /\ conn[c].phase = "open"),
         conn' = [conn EXCEPT ![c] = y], budget' = budget
  PROVE Moves(Now, After, c)
<1> DEFINE x == conn[c]
           k == [Now EXCEPT !.conn[c] = y]
<1>1. x \in Connection /\ Shape(c, x) /\ Minded(Now, c) /\ Now.conn[c] = x /\ Now.budget = budget /\ Held(x) \in Nat BY Here
<1>2. /\ k \in Proxy /\ k.conn[c] = y /\ k.budget = budget /\ k.conn = [conn EXCEPT ![c] = y]
      /\ Steady(k, c) /\ Untouched(Now, k, c) /\ Held(y) = Held(x)
  <2>1. Alive(y) <=> Alive(x) BY DEF Alive
  <2> QED BY <2>1, Rewritten
<1> HIDE DEF k
<1>3. y["client"] = x["client"] /\ y["upstream"] = x["upstream"] BY <1>1, SideOf
<1>4. \A s \in Sides : y[s] = x[s] BY <1>3 DEF Sides
<1>5. Shape(c, y) BY <1>1, <1>4, Others DEF Shape
<1>6. Minded(k, c) BY <1>1, <1>2, <1>4, Others DEF Minded, PausedFor, HeldBack, MayRead, Joined
<1>7. Sound(k) BY <1>2, <1>5, <1>6, SoundWhenSteady
<1>8. Becomes(k) BY <1>2 DEF Becomes
<1>9. Held(k.conn[c]) <= Held(conn[c]) BY <1>1, <1>2
<1>10. Drained(conn[c], k.conn[c])
  <2>1. y.quiet = x.quiet \/ y.quiet OBVIOUS
  <2>2. x.quiet \in BOOLEAN /\ y.quiet \in BOOLEAN BY <1>1 DEF Connection
  <2> QED BY <1>2, <1>9, <2>1, <2>2 DEF Drained
<1> QED BY <1>2, <1>7, <1>8, <1>9, <1>10, MovesTo

LEMMA LateMoves ==
  ASSUME EgressInv, NEW c \in Conns, NEW a \in 1..Addresses, LateFails(c, a) \/ (Opens(c, a) /\ ~Adopts(c, a))
  PROVE Moves(Now, After, c)
<1> DEFINE x == conn[c]
           y == [x EXCEPT !.waits = @ \ {a}]
<1>1. x \in Connection BY Here
<1>2. /\ y \in Connection /\ y.phase = x.phase /\ y.share = x.share /\ y.client = x.client /\ y.upstream = x.upstream
      /\ y.attempt = x.attempt /\ y.waits \subseteq x.waits /\ y.outside = x.outside /\ y.caller = x.caller
      /\ y.quiet = x.quiet
  BY <1>1 DEF Connection
<1>3. conn' = [conn EXCEPT ![c] = y] /\ budget' = budget BY Here DEF LateFails, Opens
<1> HIDE DEF y
<1> QED BY <1>2, <1>3, AsideMoves DEF x

LEMMA GoesQuietMoves ==
  ASSUME EgressInv, NEW c \in Conns, GoesQuiet(c)
  PROVE Moves(Now, After, c)
<1> DEFINE x == conn[c]
           y == [x EXCEPT !.quiet = TRUE]
<1>1. x \in Connection /\ x.phase = "open" BY Here DEF GoesQuiet
<1>2. /\ y \in Connection /\ y.phase = x.phase /\ y.share = x.share /\ y.client = x.client /\ y.upstream = x.upstream
      /\ y.attempt = x.attempt /\ y.waits \subseteq x.waits /\ y.outside = x.outside /\ y.caller = x.caller
      /\ y.quiet
  BY <1>1 DEF Connection
<1>3. conn' = [conn EXCEPT ![c] = y] /\ budget' = budget BY Here DEF GoesQuiet
<1> HIDE DEF y
<1> QED BY <1>1, <1>2, <1>3, AsideMoves DEF x

LEMMA DropsMoves ==
  ASSUME EgressInv, NEW c \in Conns, NEW from \in Sides, Drops(c, from)
  PROVE Moves(Now, After, c)
<1> DEFINE m == Now
<1>1. Becomes(m) /\ m.conn[c] = conn[c] /\ Sound(m) BY Here DEF Drops, DropIsNothing, Becomes, EgressInv
<1>2. Untouched(Now, m, c) /\ Held(conn[c]) \in Nat BY SteadyNow
<1>3. conn[c] \in Connection BY Here
<1> HIDE DEF m
<1>4. Held(m.conn[c]) <= Held(conn[c]) BY <1>1, <1>2
<1>5. Drained(conn[c], m.conn[c])
  <2>1. conn[c].quiet \in BOOLEAN BY <1>3 DEF Connection
  <2> QED BY <1>1, <1>4, <2>1 DEF Drained
<1> QED BY <1>1, <1>2, <1>4, <1>5, MovesTo

(* The tunnel opens.                                                        *)
LEMMA OpensMoves ==
  ASSUME EgressInv, NEW c \in Conns, NEW a \in 1..Addresses, Opens(c, a), Adopts(c, a)
  PROVE Moves(Now, After, c)
<1> DEFINE x == conn[c]
           up == [x.upstream EXCEPT !.socket = TRUE, !.reads = TRUE]
           y == [x EXCEPT !.waits = @ \ {a}, !.outside = @ \cup {a}, !.phase = "open", !.upstream = up]
           k == [Now EXCEPT !.conn[c] = y]
           held == IF MayRead(k, c) THEN k ELSE [k EXCEPT !.conn[c] = StopReading(@)]
<1>1. /\ x \in Connection /\ Shape(c, x) /\ a \in x.waits /\ a = x.attempt /\ x.phase # "closed"
      /\ x["client"] = x.client /\ x["upstream"] = x.upstream /\ x.client \in Side /\ x.upstream \in Side
      /\ Held(x) \in Nat
  BY Here DEF Opens, Adopts, Alive
<1>2. /\ x.phase = "deciding" /\ x.caller # "asked" /\ c \notin Calls /\ c \in Tunnels /\ x.outside = {}
      /\ ~x.upstream.socket /\ ~x.upstream.paused /\ x.client.socket
  <2>1. x.attempt # 0 BY <1>1
  <2>2. x.phase \in Phases BY <1>1 DEF Connection
  <2> QED BY <1>1, <2>1, <2>2 DEF Shape, Phases, Conns
<1>3. PICK n \in 0..x.upstream.queued : Becomes(Flush(held, c, "upstream", n))
  <2>1. PICK n \in 0..x.upstream.queued :
           Becomes(Tunnelled([Now EXCEPT !.conn[c].waits = @ \ {a}, !.conn[c].outside = @ \cup {a}], c, n))
    BY DEF Opens
  <2> DEFINE v == [x EXCEPT !.waits = @ \ {a}, !.outside = @ \cup {a}]
             m == [Now EXCEPT !.conn[c] = v]
  <2>2. [Now EXCEPT !.conn[c].waits = @ \ {a}, !.conn[c].outside = @ \cup {a}] = m
    BY ZenonT(40), <1>1, Here DEF Now, Connection
  <2>3. v \in Connection /\ v.upstream = x.upstream /\ [v EXCEPT !.phase = "open", !.upstream = up] = y
    BY <1>1 DEF Connection
  <2>4. m.conn[c] = v /\ m = [Now EXCEPT !.conn[c] = v] /\ Now.conn \in [Conns -> Connection] BY Here DEF Now
  <2>5. [m EXCEPT !.conn[c].phase = "open", !.conn[c].upstream = [@ EXCEPT !.socket = TRUE, !.reads = TRUE]] = k
    <3>1. [Now EXCEPT !.conn[c] = [v EXCEPT !.phase = "open", !.upstream = up]] = k BY <2>3
    <3>2. v.upstream = x.upstream /\ up = [v.upstream EXCEPT !.socket = TRUE, !.reads = TRUE] BY <2>3
    <3> HIDE DEF v, k, up
    <3>3. [m EXCEPT !.conn[c].phase = "open", !.conn[c].upstream = up]
            = [Now EXCEPT !.conn[c] = [v EXCEPT !.phase = "open", !.upstream = up]]
      BY ZenonT(40), <2>3, <2>4 DEF Now, Connection
    <3> QED BY <2>4, <3>1, <3>2, <3>3
  <2> HIDE DEF m, k
  <2> QED BY <2>1, <2>2, <2>5 DEF Tunnelled
<1>4. /\ up \in Side /\ up.socket /\ up.reads /\ ~up.paused /\ up.queued = x.upstream.queued
  BY <1>1, <1>2 DEF Side
<1> HIDE DEF up
<1>5. /\ y \in Connection /\ y.phase = "open" /\ y.share = x.share /\ y.client = x.client /\ y.upstream = up
      /\ y.attempt = x.attempt /\ y.waits = x.waits \ {a} /\ y.outside = {a} /\ y.caller = x.caller /\ y.quiet = x.quiet
  BY <1>1, <1>2, <1>4 DEF Connection, Phases
<1> HIDE DEF y
<1>6. /\ k \in Proxy /\ k.conn[c] = y /\ k.budget = budget /\ k.conn = [conn EXCEPT ![c] = y]
      /\ Steady(k, c) /\ Untouched(Now, k, c) /\ Held(y) = Held(x)
  <2>1. Alive(y) <=> Alive(x) BY <1>1, <1>5 DEF Alive
  <2> QED BY <1>4, <1>5, <2>1, Rewritten
<1>7. y["client"] = x.client /\ y["upstream"] = up BY <1>5, SideOf
<1>8. Shape(c, y)
  <2>1. \A s \in Sides : (y[s].reads <=> y[s].socket /\ ~y[s].paused) /\ y[s].socket
    BY <1>1, <1>2, <1>4, <1>7 DEF Shape, Sides
  <2> QED BY <1>1, <1>2, <1>4, <1>5, <2>1 DEF Shape
<1> HIDE DEF k
<1>9. /\ Steady(held, c) /\ Untouched(k, held, c) /\ Shape(c, held.conn[c]) /\ held.conn[c].phase = "open"
      /\ held.conn[c]["upstream"].socket /\ held.conn[c]["upstream"].queued = x.upstream.queued
      /\ Held(held.conn[c]) = Held(y)
      /\ PausedFor(held, c, "upstream") /\ \A s \in Sides : HeldBack(held, c, s)
  <2>1. CASE MayRead(k, c)
    <3>1. held = k BY <2>1
    <3>2. PausedFor(k, c, "upstream") BY <1>4, <1>6, <1>7 DEF PausedFor
    <3>3. \A s \in Sides : HeldBack(k, c, s) BY <2>1 DEF HeldBack, MayRead
    <3>4. Untouched(k, k, c) BY DEF Untouched, Alike
    <3> QED BY <1>4, <1>5, <1>6, <1>7, <1>8, <3>1, <3>2, <3>3, <3>4
  <2>2. CASE ~MayRead(k, c)
    <3> DEFINE z == StopReading(y)
    <3>1. held = [k EXCEPT !.conn[c] = z] BY <1>6, <2>2
    <3>2. /\ z \in Connection /\ Alike(y, z) /\ Shape(c, z)
          /\ Joined(y) => \A s \in Sides : z[s].paused
      BY <1>5, <1>8, StopFacts
    <3> HIDE DEF z, held
    <3>3. /\ held \in Proxy /\ held.conn[c] = z /\ held.budget = k.budget /\ \A d \in Conns \ {c} : held.conn[d] = k.conn[d]
      BY <1>6, <3>1, <3>2 DEF Proxy
    <3>4. Joined(y) BY <1>2, <1>4, <1>5 DEF Joined
    <3>5. /\ \A s \in Sides : z[s].queued = y[s].queued
          /\ z.share = y.share /\ z.phase = "open" /\ (Alive(z) <=> Alive(y))
          /\ z["upstream"].socket /\ z["upstream"].queued = x.upstream.queued
      BY <1>4, <1>5, <1>7, <3>2, Others DEF Alike, Alive
    <3>6. Steady(held, c) /\ Untouched(k, held, c) /\ Held(z) = Held(y)
      <4>1. /\ \A s \in Sides : held.conn[c][s].queued = k.conn[c][s].queued
            /\ held.conn[c].share = k.conn[c].share /\ (Alive(held.conn[c]) <=> Alive(k.conn[c]))
        BY <1>6, <3>3, <3>5
      <4>2. Steady(held, c) /\ Untouched(k, held, c) /\ Held(held.conn[c]) = Held(k.conn[c])
        <5>1. Steady(k, c) BY <1>6
        <5>2. held \in Proxy /\ held.budget = k.budget /\ \A d \in Conns \ {c} : held.conn[d] = k.conn[d] BY <3>3
        <5> HIDE DEF x
        <5> QED BY <4>1, <5>1, <5>2, SteadyStep
      <4> QED BY <1>6, <3>3, <4>2
    <3>7. ~MayRead(held, c) BY <1>6, <2>2, <3>3, <3>5 DEF MayRead
    <3>8. PausedFor(held, c, "upstream") /\ \A s \in Sides : HeldBack(held, c, s)
      BY <3>2, <3>3, <3>4, <3>7 DEF PausedFor, HeldBack
    <3> QED BY <3>2, <3>3, <3>5, <3>6, <3>8
  <2> QED BY <2>1, <2>2
<1> HIDE DEF held
<1> DEFINE r == Flush(held, c, "upstream", n)
<1>10. Sound(r) /\ Untouched(held, r, c) /\ Held(r.conn[c]) <= Held(held.conn[c])
  BY <1>3, <1>9, Others, FlushFacts
<1> HIDE DEF r
<1>11. Untouched(Now, r, c) BY <1>6, <1>9, <1>10, UntouchedOn
<1>12. Held(r.conn[c]) <= Held(conn[c]) BY <1>6, <1>9, <1>10
<1>13. Drained(conn[c], r.conn[c]) BY <1>2 DEF Drained, Halved
<1>14. Becomes(r) BY <1>3 DEF r
<1> QED BY <1>10, <1>11, <1>12, <1>13, <1>14, MovesTo

(* A side delivers, or takes what waits for it.                             *)
LEMMA DeliversMoves ==
  ASSUME EgressInv, NEW c \in Conns, NEW from \in Sides, Delivers(c, from)
  PROVE Moves(Now, After, c)
<1> DEFINE x == conn[c]
           y == [x EXCEPT !.quiet = FALSE]
           k == [Now EXCEPT !.conn[c] = y]
           to == Other(from)
<1>1. /\ x \in Connection /\ Shape(c, x) /\ Minded(Now, c) /\ Now.conn[c] = x /\ Now.budget = budget
      /\ x["client"] = x.client /\ x["upstream"] = x.upstream /\ Held(x) \in Nat
      /\ c \in Tunnels /\ x.phase = "open" /\ x[from].socket /\ x[from].reads /\ x[to].socket
      /\ to \in Sides /\ c \notin Calls
  BY Here, Others, KindsAssumption DEF Delivers
<1>2. Joined(x) BY <1>1, Others DEF Joined, Sides
<1>3. ~budget.saturated BY <1>1, <1>2 DEF Minded, HeldBack, Shape
<1>4. PICK n \in {0, 1} : Becomes(Send(k, c, to, 1, n))
  <2>1. [Now EXCEPT !.conn[c].quiet = FALSE] = k BY DEF Now
  <2> QED BY <2>1 DEF Delivers
<1>5. /\ y \in Connection /\ y.phase = x.phase /\ y.share = x.share /\ y.client = x.client /\ y.upstream = x.upstream
      /\ y.attempt = x.attempt /\ y.waits = x.waits /\ y.outside = x.outside /\ y.caller = x.caller
  BY <1>1 DEF Connection
<1> HIDE DEF y
<1>6. /\ k \in Proxy /\ k.conn[c] = y /\ k.budget = budget
      /\ Steady(k, c) /\ Untouched(Now, k, c) /\ Held(y) = Held(x)
  <2>1. Alive(y) <=> Alive(x) BY <1>5 DEF Alive
  <2> QED BY <1>5, <2>1, Rewritten
<1> HIDE DEF k
<1>7. y["client"] = x["client"] /\ y["upstream"] = x["upstream"] BY <1>1, <1>5, SideOf
<1>8. \A s \in Sides : y[s] = x[s] BY <1>7 DEF Sides
<1>9. Shape(c, y)
  BY <1>1, <1>5, <1>8, Others DEF Shape
<1>10. Minded(k, c) BY <1>1, <1>5, <1>6, <1>8, Others DEF Minded, PausedFor, HeldBack, MayRead, Joined
<1> DEFINE r == Send(k, c, to, 1, n)
<1>11. Sound(r) /\ Untouched(k, r, c) /\ r.conn[c].phase = "open" /\ Held(r.conn[c]) <= Held(k.conn[c]) + 1
  <2>1. Shape(c, k.conn[c]) /\ k.conn[c].phase = "open" /\ k.conn[c][to].socket /\ Joined(k.conn[c])
    BY <1>1, <1>2, <1>5, <1>6, <1>8, <1>9 DEF Joined
  <2>2. n \in 0..1 /\ 1 \in Nat BY <1>4
  <2>3. Steady(k, c) BY <1>6
  <2> QED BY <1>1, <1>10, <2>1, <2>2, <2>3, SendFacts
<1>12. Becomes(r) BY <1>4
<1> HIDE DEF r
<1>13. Untouched(Now, r, c) BY <1>6, <1>11, UntouchedOn
<1>14. Held(r.conn[c]) <= Held(conn[c]) + 1 BY <1>6, <1>11
<1>15. Drained(conn[c], r.conn[c]) BY <1>2 DEF Drained, Halved, Joined
<1> QED BY <1>3, <1>11, <1>12, <1>13, <1>14, <1>15, MovesTo

LEMMA DrainsMoves ==
  ASSUME EgressInv, NEW c \in Conns, NEW to \in Sides, Drains(c, to)
  PROVE Moves(Now, After, c)
<1> DEFINE m == Now
           x == m.conn[c]
<1>1. /\ Steady(m, c) /\ Untouched(Now, m, c) /\ x = conn[c] /\ Shape(c, x) /\ Minded(m, c) /\ x \in Connection
      /\ x.phase = "open" /\ x[to].socket
  BY Here, SteadyNow DEF Drains
<1>2. PICK k \in 1..x[to].queued : Becomes(Flush(m, c, to, k)) BY <1>1 DEF Drains
<1> HIDE DEF m
<1>3. x[to].queued \in Nat /\ Held(x) \in Nat /\ x.quiet \in BOOLEAN
  <2>1. x[to] \in Side /\ Held(x) \in Nat /\ x.quiet \in BOOLEAN BY <1>1, SideOf DEF Connection
  <2> QED BY <2>1 DEF Side
<1>4. k \in 0..x[to].queued /\ k \in Nat /\ k > 0 BY <1>2, <1>3
<1> DEFINE r == Flush(m, c, to, k)
<1>5. /\ Sound(r) /\ Untouched(m, r, c) /\ Held(r.conn[c]) <= Held(x)
      /\ r.conn[c].phase = "open" => Held(r.conn[c]) = Held(x) - k
  <2>1. PausedFor(m, c, to) /\ \A s \in Sides : HeldBack(m, c, s) BY <1>1 DEF Minded
  <2> QED BY <1>1, <1>4, <2>1, FlushFacts
<1> HIDE DEF r
<1>6. Untouched(Now, r, c) BY <1>1, <1>5, UntouchedOn
<1>7. r.conn[c].phase = "open" => Held(r.conn[c]) < Held(x) BY <1>3, <1>4, <1>5
<1>8. Drained(conn[c], r.conn[c]) BY <1>1, <1>5, <1>7 DEF Drained
<1> QED BY <1>1, <1>2, <1>5, <1>6, <1>8, MovesTo DEF r

(* A peer closes.                                                           *)
LEMMA PeerClosesMoves ==
  ASSUME EgressInv, NEW c \in Conns, NEW side \in Sides, PeerCloses(c, side)
  PROVE Moves(Now, After, c)
<1> DEFINE x == conn[c]
           w == IF side = "upstream" THEN x.outside \ {x.attempt} ELSE x.outside
           y == [x EXCEPT !.outside = w]
           k == [Now EXCEPT !.conn[c] = y]
<1>1. /\ x \in Connection /\ Shape(c, x) /\ x.phase # "closed" /\ x[side].socket /\ x.outside \subseteq {x.attempt}
      /\ x["client"] = x.client /\ x["upstream"] = x.upstream
  BY Here DEF PeerCloses, Alive
<1>2. Becomes(IF c \in Tunnels THEN SideClosed(k, c, side) ELSE Close(k, c))
  <2>1. [Now EXCEPT !.conn[c].outside = IF side = "upstream" THEN @ \ {conn[c].attempt} ELSE @] = k BY Here DEF Now
  <2> QED BY <2>1 DEF PeerCloses
<1>3. /\ y \in Connection /\ y.phase = x.phase /\ y.share = x.share /\ y.client = x.client /\ y.upstream = x.upstream
      /\ y.attempt = x.attempt /\ y.waits = x.waits /\ y.outside = w /\ y.caller = x.caller /\ y.quiet = x.quiet
      /\ [y EXCEPT !.outside = x.outside] = x
  BY <1>1 DEF Connection
<1> HIDE DEF y
<1>4. /\ k \in Proxy /\ k.conn[c] = y /\ Steady(k, c) /\ Untouched(Now, k, c) /\ Held(y) = Held(x)
  <2>1. Alive(y) <=> Alive(x) BY <1>3 DEF Alive
  <2> QED BY <1>3, <2>1, Rewritten
<1> HIDE DEF k
<1>5. y["client"] = x["client"] /\ y["upstream"] = x["upstream"] BY <1>1, <1>3, SideOf
<1>6. \A s \in Sides : y[s] = x[s] BY <1>5 DEF Sides
<1>7. CASE c \notin Tunnels
  <2>1. Becomes(Close(k, c)) BY <1>2, <1>7
  <2>2. Alive(k.conn[c]) /\ k.conn[c].outside \subseteq {k.conn[c].attempt} BY <1>1, <1>3, <1>4 DEF Alive
  <2> HIDE DEF x
  <2> QED BY <1>4, <2>1, <2>2, ClosesIt
<1>8. CASE c \in Tunnels
  <2> DEFINE n == SideClosed(k, c, side)
  <2>1. Becomes(n) BY <1>2, <1>8
  <2>2. k.conn[c].outside = IF side = "upstream" \/ ~k.conn[c].upstream.socket THEN {} ELSE {k.conn[c].attempt}
    BY <1>1, <1>3, <1>4 DEF Shape
  <2>3. Shape(c, [k.conn[c] EXCEPT !.outside = x.outside]) BY <1>1, <1>3, <1>4
  <2>4. k.conn[c].phase # "closed" /\ k.conn[c][side].socket BY <1>1, <1>3, <1>4, <1>6
  <2>5. /\ Sound(n) /\ Untouched(k, n, c) /\ Held(n.conn[c]) <= Held(k.conn[c])
        /\ n.conn[c].phase = "closed" \/ k.conn[c][Other(side)].socket
    BY <1>4, <1>8, <2>2, <2>3, <2>4, SideClosedFacts
  <2> HIDE DEF n
  <2>6. Untouched(Now, n, c) BY <1>4, <2>5, UntouchedOn
  <2>7. Held(n.conn[c]) <= Held(conn[c]) BY <1>4, <2>5
  <2>8. n.conn[c].phase = "closed" \/ Joined(x)
    <3>1. k.conn[c][Other(side)].socket => Joined(x) BY <1>1, <1>4, <1>6, Others DEF Joined, Sides
    <3> QED BY <2>5, <3>1
  <2>9. Drained(conn[c], n.conn[c]) BY <2>8 DEF Drained, Halved, Joined
  <2> QED BY <2>1, <2>5, <2>6, <2>7, <2>9, MovesTo
<1> QED BY <1>7, <1>8

(* The status port answers.                                                 *)
LEMMA AnswersMoves ==
  ASSUME EgressInv, NEW c \in Conns, Answers(c)
  PROVE Moves(Now, After, c)
<1> DEFINE x == conn[c]
           y == [x EXCEPT !.phase = "open"]
           k == [Now EXCEPT !.conn[c] = y]
<1>1. /\ x \in Connection /\ Shape(c, x) /\ x.phase = "deciding" /\ c \in Calls /\ x.caller # "asked" /\ c \notin Tunnels
      /\ x["client"] = x.client /\ x["upstream"] = x.upstream
  BY Here, KindsAssumption DEF Answers
<1>2. PICK n \in 0..AnswerBytes :
        LET sent == Send(k, c, "client", AnswerBytes, n)
        IN  Becomes(IF n = AnswerBytes THEN Close(sent, c) ELSE [sent EXCEPT !.conn[c].client.ending = TRUE])
  <2>1. [Now EXCEPT !.conn[c].phase = "open"] = k BY DEF Now
  <2> QED BY <2>1 DEF Answers
<1>3. /\ y \in Connection /\ y.phase = "open" /\ y.share = x.share /\ y.client = x.client /\ y.upstream = x.upstream
      /\ y.attempt = x.attempt /\ y.waits = x.waits /\ y.outside = x.outside /\ y.caller = x.caller
  BY <1>1 DEF Connection, Phases
<1> HIDE DEF y
<1>4. /\ k \in Proxy /\ k.conn[c] = y /\ Steady(k, c) /\ Untouched(Now, k, c)
  <2>1. Alive(y) <=> Alive(x) BY <1>1, <1>3 DEF Alive
  <2> QED BY <1>3, <2>1, Rewritten
<1> HIDE DEF k
<1>5. y["client"] = x["client"] /\ y["upstream"] = x["upstream"] BY <1>1, <1>3, SideOf
<1>6. \A s \in Sides : y[s] = x[s] BY <1>5 DEF Sides
<1>7. Shape(c, y)
  <2>1. 0 \notin x.waits BY <1>1 DEF Connection
  <2> QED BY <1>1, <1>3, <1>6, <2>1 DEF Shape
<1>8. ~Joined(y) BY <1>1, <1>3 DEF Joined, Shape
<1>9. Minded(k, c) BY <1>4, <1>8, SoundWhenSteady
<1> DEFINE sent == Send(k, c, "client", AnswerBytes, n)
<1>10. Sound(sent) /\ Untouched(k, sent, c) /\ sent.conn[c].phase = "open"
  <2>1. Shape(c, k.conn[c]) /\ k.conn[c].phase = "open" /\ k.conn[c]["client"].socket /\ k.conn[c].client.queued = 0
    BY <1>1, <1>3, <1>4, <1>6, <1>7 DEF Shape, Sides
  <2>2. AnswerBytes \in Nat /\ AnswerBytes <= AnswerBytes BY Numbers
  <2> QED BY <1>1, <1>2, <1>4, <1>9, <2>1, <2>2, Others, SendFacts
<1>11. Becomes(IF n = AnswerBytes THEN Close(sent, c) ELSE [sent EXCEPT !.conn[c].client.ending = TRUE]) BY <1>2
<1> HIDE DEF sent
<1>12. Steady(sent, c) /\ Shape(c, sent.conn[c]) /\ Untouched(Now, sent, c) BY <1>4, <1>10, SoundWhenSteady, UntouchedOn
<1>13. CASE n = AnswerBytes
  <2>1. Becomes(Close(sent, c)) BY <1>11, <1>13
  <2>2. Alive(sent.conn[c]) /\ sent.conn[c].outside \subseteq {sent.conn[c].attempt} BY <1>10, <1>12 DEF Alive, Shape
  <2> QED BY <1>12, <2>1, <2>2, ClosesIt
<1>14. CASE n # AnswerBytes
  <2> DEFINE u == sent.conn[c]
             z == [u EXCEPT !.client.ending = TRUE]
             e == [sent EXCEPT !.conn[c] = z]
  <2>1. Becomes(e)
    <3>1. [sent EXCEPT !.conn[c].client.ending = TRUE] = e OBVIOUS
    <3> QED BY <1>11, <1>14, <3>1
  <2>2. sent \in Proxy /\ u \in Connection /\ u.client \in Side /\ u.upstream \in Side /\ u["client"] = u.client /\ u["upstream"] = u.upstream
    <3>1. sent \in Proxy BY <1>12 DEF Steady
    <3>2. u \in Connection BY <3>1 DEF Proxy
    <3>3. u.client \in Side /\ u.upstream \in Side BY <3>2 DEF Connection
    <3> QED BY <3>1, <3>2, <3>3, SideOf
  <2> DEFINE cl == [u.client EXCEPT !.ending = TRUE]
  <2>3. /\ cl \in Side /\ cl.socket = u.client.socket /\ cl.reads = u.client.reads /\ cl.paused = u.client.paused
        /\ cl.queued = u.client.queued
    BY <2>2 DEF Side
  <2>4. z = [u EXCEPT !.client = cl] OBVIOUS
  <2> HIDE DEF cl, z, u
  <2>5. /\ z \in Connection /\ z.phase = u.phase /\ z.share = u.share /\ z.client = cl /\ z.upstream = u.upstream
        /\ z.attempt = u.attempt /\ z.waits = u.waits /\ z.outside = u.outside /\ z.caller = u.caller
    BY <2>2, <2>3, <2>4 DEF Connection
  <2>6. z["client"] = cl /\ z["upstream"] = u.upstream BY <2>5, SideOf
  <2>7. /\ e \in Proxy /\ e.conn[c] = z /\ e.budget = sent.budget /\ \A d \in Conns \ {c} : e.conn[d] = sent.conn[d]
    BY <2>2, <2>5 DEF Proxy
  <2>8. /\ \A s \in Sides : e.conn[c][s].queued = sent.conn[c][s].queued
        /\ e.conn[c].share = sent.conn[c].share /\ (Alive(e.conn[c]) <=> Alive(sent.conn[c]))
    BY <2>2, <2>3, <2>5, <2>6, <2>7 DEF Sides, u, Alive
  <2> HIDE DEF e
  <2>9. Steady(e, c) /\ Untouched(sent, e, c) BY <1>12, <2>7, <2>8, SteadyStep
  <2>10. Shape(c, z)
    <3>1. Shape(c, u) /\ u.phase = "open" BY <1>10, <1>12 DEF u
    <3>2. \A s \in Sides : (z[s].reads <=> u[s].reads) /\ (z[s].socket <=> u[s].socket) /\ (z[s].paused <=> u[s].paused)
      BY <2>2, <2>3, <2>6 DEF Sides
    <3> QED BY <1>1, <2>3, <2>5, <3>1, <3>2 DEF Shape
  <2>11. ~Joined(z)
    <3>1. ~u.upstream.socket BY <1>1, <1>12 DEF Shape, u
    <3> QED BY <2>5, <3>1 DEF Joined
  <2>12. Sound(e) BY <2>7, <2>9, <2>10, <2>11, SoundWhenSteady
  <2>13. Untouched(Now, e, c) BY <1>12, <2>9, UntouchedOn
  <2> QED BY <1>1, <2>1, <2>12, <2>13, MovesTo
<1> QED BY <1>13, <1>14

LEMMA StepMoves ==
  ASSUME EgressInv, NEW c \in Conns,
         \/ Enters(c) \/ Identified(c) \/ HeadArrives(c) \/ EarlyData(c) \/ Refused(c)
         \/ Allowed(c) \/ AttemptFails(c) \/ AttemptExpires(c) \/ Answers(c)
         \/ GoesQuiet(c) \/ Sweep(c)
         \/ \E a \in 1..Addresses : Opens(c, a) \/ LateFails(c, a)
         \/ \E side \in Sides : Delivers(c, side) \/ Drops(c, side) \/ Drains(c, side) \/ PeerCloses(c, side)
  PROVE Moves(Now, After, c)
<1>1. ASSUME NEW a \in 1..Addresses, Opens(c, a) PROVE Moves(Now, After, c) BY <1>1, OpensMoves, LateMoves
<1> QED BY <1>1, EntersMoves, IdentifiedMoves, HeadArrivesMoves, EarlyDataMoves, EndsMoves, AllowedMoves, AttemptMoves,
           AnswersMoves, GoesQuietMoves, LateMoves, DeliversMoves, DropsMoves, DrainsMoves, PeerClosesMoves

LEMMA EgressStart == EgressInit => EgressInv
<1> SUFFICES ASSUME EgressInit PROVE EgressInv OBVIOUS
<1>1. /\ conn = [c \in Conns |-> Vacant]
      /\ budget = [held |-> 0, of |-> [p \in Projects |-> 0], blocked |-> {}, saturated |-> FALSE]
      /\ Now.conn = conn /\ Now.budget = budget
  BY DEF EgressInit, Now
<1>2. /\ NoSide \in Side /\ NoSide.queued = 0 /\ ~NoSide.socket /\ ~NoSide.reads /\ ~NoSide.paused
  BY DEF NoSide, Side
<1>3. /\ Vacant \in Connection /\ Vacant.phase = "closed" /\ Vacant.caller = "asked" /\ Vacant.share = Nobody
      /\ Vacant.client = NoSide /\ Vacant.upstream = NoSide /\ Vacant.attempt = 0 /\ Vacant.outside = {} /\ ~Vacant.quiet
  <2>1. 0 \in 0..Addresses BY Numbers
  <2> QED BY <1>2, <2>1 DEF Vacant, Connection, Phases
<1>4. Vacant["client"] = NoSide /\ Vacant["upstream"] = NoSide BY <1>3, SideOf
<1>5. \A c \in Conns : Shape(c, Vacant) BY <1>2, <1>3, <1>4, Numbers DEF Shape, Sides
<1>6. Now \in Proxy BY <1>1, <1>3 DEF Now, Proxy, Admission
<1>7. \A S \in SUBSET Conns : Bytes(conn, S) = {}
  <2>1. ASSUME NEW S \in SUBSET Conns, NEW b \in Bytes(conn, S) PROVE FALSE
    <3>1. PICK c \in S, s \in Sides : \E i \in 1..conn[c][s].queued : b = <<<<c, s>>, i>> BY <2>1, WhatWaits
    <3>2. conn[c][s].queued = 0 BY <1>1, <1>2, <1>4, <3>1 DEF Sides
    <3> QED BY <3>1, <3>2
  <2> QED BY <2>1
<1>8. \A S \in SUBSET Conns : IsFiniteSet(Bytes(conn, S)) /\ Count(conn, S) = 0 BY <1>7, FS_EmptySet DEF Count
<1>9. Tallied(Now)
  <2>1. \A p \in Projects : Members(Now, p) \in SUBSET Conns BY DEF Members
  <2> QED BY <1>1, <1>8, <2>1 DEF Tallied
<1>10. Marked(Now.budget) BY <1>1, Numbers DEF Marked
<1>11. \A c \in Conns : Minded(Now, c) BY <1>1, <1>3 DEF Minded, PausedFor, HeldBack
<1>12. Count(conn, Tunnels) <= TotalBuffer + 1
  <2>1. Tunnels \in SUBSET Conns BY DEF Conns
  <2> QED BY <1>8, <2>1, Numbers
<1> QED BY <1>1, <1>5, <1>6, <1>9, <1>10, <1>11, <1>12 DEF Sound, EgressInv

LEMMA EgressKept == EgressInv /\ [EgressNext]_egressVars => EgressInv'
<1> SUFFICES ASSUME EgressInv, [EgressNext]_egressVars PROVE EgressInv' OBVIOUS
<1>1. CASE EgressNext
  <2>1. PICK c \in Conns : Moves(Now, After, c) BY <1>1, StepMoves DEF EgressNext
  <2> QED BY <2>1, MovesKeep
<1>2. CASE UNCHANGED egressVars
  <2>1. conn' = conn /\ budget' = budget BY <1>2 DEF egressVars
  <2>2. Now' = Now BY <2>1 DEF Now
  <2>3. Sound(Now)' BY <2>2 DEF EgressInv
  <2> QED BY <2>1, <2>3 DEF EgressInv
<1> QED BY <1>1, <1>2

LEMMA EgressHolds == EgressSpec => []EgressInv
BY EgressStart, EgressKept, PTL DEF EgressSpec

(* Every connection, its sides, its attempts and the admission keep their   *)
(* types: no callback counts bytes the budgets do not have                  *)
(* (admission.ts, `account`).                                               *)
THEOREM EgressTypes == EgressSpec => []EgressTypeOK
<1>1. EgressInv => EgressTypeOK
  <2> SUFFICES ASSUME EgressInv PROVE EgressTypeOK OBVIOUS
  <2>1. Now \in Proxy /\ Now.conn = conn /\ Now.budget = budget BY DEF EgressInv, Sound, Now
  <2>2. \A c \in Conns : conn[c] \in Connection BY <2>1 DEF Proxy
  <2>3. budget \in Admission BY <2>1 DEF Proxy
  <2> QED BY <2>2, <2>3 DEF EgressTypeOK, Connection, Phases, Admission
<1> QED BY <1>1, EgressHolds, PTL

(* No tunnel is forgotten, for any number of connections and any budgets:   *)
(* a side that is not read waits for bytes or for a budget whose bytes are  *)
(* there to go.                                                             *)
THEOREM NeverForgotten == EgressSpec => []NotForgotten
<1>1. EgressInv => NotForgotten
  <2> SUFFICES ASSUME EgressInv PROVE NotForgotten OBVIOUS
  <2>1. /\ Now \in Proxy /\ Now.conn = conn /\ Now.budget = budget /\ Tallied(Now) /\ Marked(budget)
    BY DEF EgressInv, Sound, Now
  <2>2. ASSUME NEW c \in Tunnels, NEW side \in Sides, conn[c].phase = "open", conn[c][side].socket, ~conn[c][side].reads
        PROVE conn[c][Other(side)].socket /\ (conn[c][Other(side)].queued > 0 \/ ~MayRead(Now, c))
    <3> DEFINE x == conn[c]
    <3>1. c \in Conns BY DEF Conns
    <3>2. Shape(c, x) /\ Minded(Now, c) /\ x["client"] = x.client /\ x["upstream"] = x.upstream BY <3>1, Here
    <3>3. x[side].paused BY <2>2, <3>2 DEF Shape
    <3>4. x[Other(side)].socket
      <4>1. SUFFICES ASSUME ~x[Other(side)].socket PROVE FALSE OBVIOUS
      <4>2. Other(side) \in Sides /\ Other(Other(side)) = side BY Others
      <4>3. ~x[side].paused BY <2>2, <3>2, <4>1, <4>2 DEF Shape
      <4> QED BY <3>3, <4>3
    <3>5. Joined(x) BY <2>2, <3>2, <3>4, Others DEF Joined, Sides
    <3> QED BY <2>1, <2>2, <3>2, <3>3, <3>4, <3>5 DEF Minded, PausedFor
  <2>3. ASSUME NEW p \in budget.blocked PROVE 2 * Waiting(Members(Now, p)) > ProjectBuffer
    <3>1. p \in Projects BY <2>1, <2>3 DEF Proxy, Admission
    <3>2. budget.of[p] = Waiting(Members(Now, p)) BY <2>1, <3>1 DEF Tallied, Count, Waiting
    <3> QED BY <2>1, <2>3, <3>2 DEF Marked, Above
  <2>4. budget.saturated => 2 * Waiting(Conns) > TotalBuffer
    <3>1. budget.held = Waiting(Conns) BY <2>1 DEF Tallied, Count, Waiting
    <3> QED BY <2>1, <3>1 DEF Marked
  <2> QED BY <2>2, <2>3, <2>4 DEF NotForgotten
<1> QED BY <1>1, EgressHolds, PTL

(* What the process holds is bounded, for any number of connections: past   *)
(* the total, the read under way and the answers of the status port; and    *)
(* outside, the sockets of open tunnels alone.                              *)
THEOREM BoundedHold == EgressSpec => []HoldBounded
<1>1. EgressInv => HoldBounded
  <2> SUFFICES ASSUME EgressInv PROVE HoldBounded OBVIOUS
  <2>1. /\ Now \in Proxy /\ Now.conn = conn /\ Tallied(Now) /\ conn \in [Conns -> Connection]
    BY DEF EgressInv, Sound, Now, Proxy
  <2>2. IsFiniteSet(Bytes(conn, Conns)) BY <2>1 DEF Tallied
  <2> DEFINE All == (Calls \X {"client"}) \X (1..AnswerBytes)
  <2>3. IsFiniteSet(All) /\ Cardinality(All) = Cardinality(Calls) * AnswerBytes
    <3>1. IsFiniteSet({"client"}) /\ Cardinality({"client"}) = 1 BY FS_Singleton
    <3>2. IsFiniteSet(1..AnswerBytes) /\ Cardinality(1..AnswerBytes) = AnswerBytes BY UpTo, Numbers
    <3>3. Cardinality(Calls) \in Nat BY FiniteAssumption, FS_CardinalityType
    <3>4. IsFiniteSet(Calls \X {"client"}) /\ Cardinality(Calls \X {"client"}) = Cardinality(Calls) * 1
      BY <3>1, FiniteAssumption, FS_Product
    <3>5. /\ IsFiniteSet(All)
          /\ Cardinality(All) = Cardinality(Calls \X {"client"}) * Cardinality(1..AnswerBytes)
      BY <3>2, <3>4, FS_Product
    <3> QED BY <3>2, <3>3, <3>4, <3>5
  <2>4. Bytes(conn, Calls) \in SUBSET All
    <3>1. ASSUME NEW b \in Bytes(conn, Calls) PROVE b \in All
      <4>1. PICK c \in Calls, s \in Sides : \E i \in 1..conn[c][s].queued : b = <<<<c, s>>, i>> BY <3>1, WhatWaits
      <4>2. PICK i \in 1..conn[c][s].queued : b = <<<<c, s>>, i>> BY <4>1
      <4>3. c \in Conns BY DEF Conns
      <4>4. /\ conn[c] \in Connection /\ Shape(c, conn[c])
            /\ conn[c]["client"] = conn[c].client /\ conn[c]["upstream"] = conn[c].upstream BY <4>3, Here
      <4>5. conn[c].client.queued \in Nat /\ conn[c].client.queued <= AnswerBytes /\ conn[c].upstream.queued = 0
        BY <4>4, SideOf DEF Shape
      <4>6. s = "client" BY <4>2, <4>4, <4>5 DEF Sides
      <4>7. i \in 1..AnswerBytes BY <4>2, <4>4, <4>5, <4>6, Numbers
      <4> QED BY <4>2, <4>6, <4>7
    <3> QED BY <3>1
  <2>5. Count(conn, Calls) <= Cardinality(Calls) * AnswerBytes /\ Count(conn, Calls) \in Nat
    BY <2>3, <2>4, FS_Subset, FS_CardinalityType DEF Count
  <2>6. Count(conn, Conns) = Count(conn, Tunnels) + Count(conn, Calls) /\ Count(conn, Tunnels) \in Nat
    <3> DEFINE A == Bytes(conn, Tunnels)
               B == Bytes(conn, Calls)
    <3>1. Tunnels \in SUBSET Conns /\ Calls \in SUBSET Conns BY DEF Conns
    <3>2. IsFiniteSet(A) /\ IsFiniteSet(B) BY <2>2, <3>1, CountPart
    <3>3. ASSUME NEW b PROVE b \in Bytes(conn, Conns) <=> b \in A \/ b \in B BY WhatWaits DEF Conns
    <3>4. ASSUME NEW b PROVE ~(b \in A /\ b \in B) BY WhatWaits, KindsAssumption
    <3>5. Bytes(conn, Conns) = A \cup B /\ A \cap B = {} BY <3>3, <3>4
    <3> HIDE DEF A, B
    <3>6. Cardinality(A \cup B) = Cardinality(A) + Cardinality(B) /\ Cardinality(A) \in Nat BY <3>2, <3>5, Apart
    <3> QED BY <3>5, <3>6 DEF Count, A, B
  <2>7. Waiting(Conns) <= TotalBuffer + 1 + Cardinality(Calls) * AnswerBytes
    <3>1. Count(conn, Tunnels) <= TotalBuffer + 1 BY DEF EgressInv
    <3>2. Waiting(Conns) = Count(conn, Conns) BY DEF Waiting, Count
    <3>3. Cardinality(Calls) * AnswerBytes \in Nat BY <2>3, FS_CardinalityType
    <3> DEFINE a == Cardinality(Calls) * AnswerBytes
    <3> HIDE DEF a
    <3> QED BY <2>5, <2>6, <3>1, <3>2, <3>3, Numbers DEF a
  <2>8. \A c \in Conns : conn[c].outside = IF conn[c].upstream.socket THEN {conn[c].attempt} ELSE {} BY Here DEF Shape
  <2> QED BY <2>7, <2>8 DEF HoldBounded
<1> QED BY <1>1, EgressHolds, PTL

(* A tunnel one peer has left only ever drains, whatever the other          *)
(* connections and the budgets do.                                          *)
THEOREM OnlyDrains == EgressSpec => HalvedDrains
<1>1. EgressInv /\ [EgressNext]_egressVars =>
        [\A c \in Tunnels : Halved(conn[c]) /\ conn'[c].phase = "open" =>
            /\ Held(conn'[c]) <= Held(conn[c])
            /\ conn'[c].quiet \/ ~conn[c].quiet \/ Held(conn'[c]) < Held(conn[c])]_egressVars
  <2> SUFFICES ASSUME EgressInv, EgressNext
               PROVE \A c \in Tunnels : Halved(conn[c]) /\ conn'[c].phase = "open" =>
                        /\ Held(conn'[c]) <= Held(conn[c])
                        /\ conn'[c].quiet \/ ~conn[c].quiet \/ Held(conn'[c]) < Held(conn[c])
    OBVIOUS
  <2>1. PICK c \in Conns : Moves(Now, After, c) BY StepMoves DEF EgressNext
  <2>2. \A d \in Tunnels : Drained(conn[d], conn'[d]) BY <2>1, MovesKeep
  <2> QED BY <2>2 DEF Drained
<1> QED BY <1>1, EgressHolds, PTL DEF EgressSpec, HalvedDrains

=============================================================================
