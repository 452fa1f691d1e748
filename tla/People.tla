------------------------------- MODULE People -------------------------------
(***************************************************************************)
(* The people with access, as the steward keeps them: the access registry   *)
(* and the projection the portal reads (dashboard/src/access/steward.ts),   *)
(* the people's sessions (people/steward.ts) and their tokens               *)
(* (control/steward.ts), changed by requests that wait for the steward's    *)
(* queues, one inside another, while writes fail and the steward stops.     *)
(* One project; a session and a token stand for all a person's.             *)
(***************************************************************************)
EXTENDS Naturals

CONSTANTS
    People,     \* who may have access, by email
    Owner,      \* the owner of the machine
    Jobs,       \* the requests in hand at once
    NoJob,      \* no request
    Begins,     \* the registries the machine may start from
    MaxEvents   \* requests, edits by hand and failures in all

Roles == {"none", "visitor", "admin"}
Registries == [role : [People -> Roles], create : SUBSET People]

ASSUME NamesAssumption == Owner \notin People /\ NoJob \notin Jobs
ASSUME BeginsAssumption == Begins \subseteq Registries
ASSUME EventsAssumption == MaxEvents \in Nat

VARIABLES
    access,     \* access.json: the role of each person, and who may create
    projection, \* what the portal's copy of it says
    projected,  \* the registry it was last written from, and whether it was touched since
    unseen,     \* a hand touched it after it was written, before that was noted
    sessions,   \* who has a session open
    tokens,     \* who has a live token
    turn,       \* the request that has each queue's turn
    job,        \* the requests
    lost,       \* whose leaving a failure cut short
    events      \* how many requests, edits and failures there were

copy == <<projection, projected, unseen>>
vars == <<access, copy, sessions, tokens, turn, job, lost, events>>

Queues == {"control", "creations", "registry", "people", "secrets"}
\* No text read yet: what no registry says, the owner having no entry in it.
NoText == [role |-> [p \in People |-> "none"], create |-> {Owner}]
\* Who asks: `by`, by hand, by a token of theirs, or by a creation of theirs.
Idle == [pc |-> "idle", who |-> Owner, by |-> Owner, as |-> "hand", next |-> NoText]

Counts == events < MaxEvents /\ events' = events + 1

\* isDashboardPerson: a role above Can open, or the right to create projects.
SignsIn(a, p) == a.role[p] = "admin" \/ p \in a.create

\* authorize: an open session, of someone who still signs in.
Authorized(p) == p \in sessions /\ SignsIn(access, p)

Init ==
    /\ access \in Begins
    /\ projection = access.role
    /\ projected = [from |-> access, touched |-> FALSE]
    /\ unseen = FALSE
    /\ tokens \in SUBSET {p \in People : SignsIn(access, p)}
    /\ sessions \in SUBSET {p \in People : SignsIn(access, p)}
    /\ turn = [q \in Queues |-> NoJob]
    /\ job = [j \in Jobs |-> Idle]
    /\ lost = {}
    /\ events = 0

------------------------------------------------------------------------------
(* The queues: createQueue, one change at a time each *)

(* What a request at each of these steps waits for.                         *)
Awaits(pc) ==
    CASE pc \in {"ask", "leave", "record"}                    -> "registry"
      [] pc \in {"close", "sign"}                             -> "people"
      [] pc \in {"revoke", "mint", "deploy", "adopt", "told"} -> "control"
      [] pc \in {"settle", "note"}                            -> "creations"
      [] pc \in {"aside", "store"}                            -> "secrets"
      [] OTHER                                                -> "nothing"

Waiting == {j \in Jobs : Awaits(job[j].pc) # "nothing"}

At(j, pc) == job[j].pc = pc
Free(q) == turn[q] = NoJob
Takes(j, q) == turn' = [turn EXCEPT ![q] = j]
LeavesAll(j) == turn' = [q \in Queues |-> IF turn[q] = j THEN NoJob ELSE turn[q]]
To(j, pc) == job' = [job EXCEPT ![j].pc = pc]

\* The request is answered, or fails: every turn it has passes on.
Ends(j) == job' = [job EXCEPT ![j] = Idle] /\ LeavesAll(j)

Arrives(j, pc, who, by) ==
    /\ At(j, "idle") /\ Counts
    /\ job' = [job EXCEPT ![j] = [Idle EXCEPT !.pc = pc, !.who = who, !.by = by]]
    /\ UNCHANGED <<access, copy, sessions, tokens, turn, lost>>

------------------------------------------------------------------------------
(* A change of access *)

Wants == Roles \cup {"create", "no create", "off"}

\* putEntry, removeEntry, setCreate, removePerson.
Changed(p, want) ==
    CASE want \in Roles      -> [access EXCEPT !.role[p] = want]
      [] want = "create"     -> [access EXCEPT !.create = @ \cup {p}]
      [] want = "no create"  -> [access EXCEPT !.create = @ \ {p}]
      [] want = "off"        -> [role |-> [access.role EXCEPT ![p] = "none"], create |-> access.create \ {p}]

RoleRank(role) == CASE role = "none" -> 0 [] role = "visitor" -> 1 [] role = "admin" -> 2

(* Slip: the granter was judged when the request came.                      *)
CeilingSince(by, as) == IF as = "token" THEN "visitor" ELSE "admin"

\* grantCeiling, the role read by asPerson and asToken in the registry's turn:
\* the owner, or an Admin of the project; Can open alone by a token.
Ceiling(by, as) ==
    IF by # Owner /\ ~(access.role[by] = "admin" /\ (as = "hand" => Authorized(by))) THEN "none"
    ELSE IF as = "token" THEN "visitor" ELSE "admin"

\* A role is given, or taken away, up to the ceiling; the rest is the owner's.
MayChange(p, by, as, want) ==
    LET ceiling == Ceiling(by, as)
    IN  /\ ceiling # "none"
        /\ IF want \in Roles
           THEN \A role \in {want, access.role[p]} : RoleRank(role) <= RoleRank(ceiling)
           ELSE by = Owner /\ as = "hand"

(* In the registry's turn: the granter read again, the change judged.  What *)
(* was asked matters from here on only.                                     *)
Judge(j) ==
    /\ At(j, "ask") /\ Free("registry")
    /\ \/ \E p \in People, by \in People \cup {Owner}, as \in {"hand", "token"}, want \in Wants :
             LET next == Changed(p, want)
             IN  /\ MayChange(p, by, as, want) /\ next # access
                 /\ job' = [job EXCEPT ![j] = [pc |-> "project", who |-> p, by |-> by, as |-> as, next |-> next]]
                 /\ Takes(j, "registry")
       \/ Ends(j)
    /\ UNCHANGED <<access, copy, sessions, tokens, lost, events>>

\* The portal's projection first, then what it now is: its file is looked at
\* again once it is there.
Project(j) ==
    /\ At(j, "project")
    /\ projection' = job[j].next.role
    /\ unseen' = FALSE
    /\ To(j, "stamp")
    /\ UNCHANGED <<access, projected, sessions, tokens, turn, lost, events>>

Stamp(j) ==
    /\ At(j, "stamp")
    /\ projected' = [from |-> job[j].next, touched |-> FALSE]
    /\ To(j, "write")
    /\ UNCHANGED <<access, projection, unseen, sessions, tokens, turn, lost, events>>

(* Then the registry.  Someone it takes out of the dashboard leaves, once   *)
(* its turn is over.                                                        *)
Write(j) ==
    /\ At(j, "write")
    /\ access' = job[j].next
    /\ IF SignsIn(access, job[j].who) /\ ~SignsIn(job[j].next, job[j].who)
       THEN To(j, "leave") /\ LeavesAll(j)
       ELSE Ends(j)
    /\ UNCHANGED <<copy, sessions, tokens, lost, events>>

------------------------------------------------------------------------------
(* Someone leaving *)

(* Slip: they leave, whatever the registry gives them by now.               *)
LeaveAnyway(j) ==
    /\ At(j, "leave") /\ Free("registry")
    /\ To(j, "close") /\ Takes(j, "registry")
    /\ UNCHANGED <<access, copy, sessions, tokens, lost, events>>

(* leave, in the registry's turn: given a role again, they keep everything. *)
Leave(j) ==
    /\ At(j, "leave") /\ Free("registry")
    /\ IF SignsIn(access, job[j].who) THEN Ends(j) ELSE To(j, "close") /\ Takes(j, "registry")
    /\ UNCHANGED <<access, copy, sessions, tokens, lost, events>>

(* Slip: the registry's turn is kept until their tokens are revoked.        *)
CloseInside(j) ==
    /\ At(j, "close") /\ Free("people")
    /\ sessions' = sessions \ {job[j].who}
    /\ To(j, "revoke")
    /\ UNCHANGED <<access, copy, tokens, turn, lost, events>>

(* Their sessions, in the people's turn; then the registry's is left.       *)
Close(j) ==
    /\ At(j, "close") /\ Free("people")
    /\ sessions' = sessions \ {job[j].who}
    /\ To(j, "revoke") /\ LeavesAll(j)
    /\ UNCHANGED <<access, copy, tokens, lost, events>>

(* revokeMember, in the control routes' turn, where they are judged again.  *)
Revoke(j) ==
    /\ At(j, "revoke") /\ Free("control")
    /\ IF SignsIn(access, job[j].who) THEN Ends(j) ELSE To(j, "revoking") /\ Takes(j, "control")
    /\ UNCHANGED <<access, copy, sessions, tokens, lost, events>>

Revoking(j) ==
    /\ At(j, "revoking")
    /\ tokens' = tokens \ {job[j].who}
    /\ Ends(j)
    /\ UNCHANGED <<access, copy, sessions, lost, events>>

(* sweepTokens: the tokens of anyone with no rights.                        *)
Sweep(j) ==
    /\ At(j, "idle") /\ Free("control")
    /\ \E p \in tokens :
          /\ ~SignsIn(access, p)
          /\ job' = [job EXCEPT ![j] = [Idle EXCEPT !.pc = "revoking", !.who = p]]
    /\ Takes(j, "control")
    /\ UNCHANGED <<access, copy, sessions, tokens, lost, events>>

------------------------------------------------------------------------------
(* Signing in, and a token minted *)

(* Slip: the registry is not read again in the people's turn.               *)
SignInBefore(j) ==
    /\ At(j, "sign") /\ Free("people")
    /\ To(j, "signing") /\ Takes(j, "people")
    /\ UNCHANGED <<access, copy, sessions, tokens, lost, events>>

SignIn(j) ==
    /\ At(j, "sign") /\ Free("people")
    /\ IF SignsIn(access, job[j].who) THEN To(j, "signing") /\ Takes(j, "people") ELSE Ends(j)
    /\ UNCHANGED <<access, copy, sessions, tokens, lost, events>>

Signed(j) ==
    /\ At(j, "signing")
    /\ sessions' = sessions \cup {job[j].who}
    /\ Ends(j)
    /\ UNCHANGED <<access, copy, tokens, lost, events>>

\* The owner for someone who signs in, or themselves, their session still open.
MayMint(who, by) == IF by = Owner THEN SignsIn(access, who) ELSE Authorized(who)

(* Asked again in the control routes' turn: the session, and the rights.    *)
Mint(j) ==
    /\ At(j, "mint") /\ Free("control")
    /\ IF MayMint(job[j].who, job[j].by)
       THEN To(j, "minting") /\ Takes(j, "control")
       ELSE Ends(j)
    /\ UNCHANGED <<access, copy, sessions, tokens, lost, events>>

Minted(j) ==
    /\ At(j, "minting")
    /\ tokens' = tokens \cup {job[j].who}
    /\ Ends(j)
    /\ UNCHANGED <<access, copy, sessions, lost, events>>

------------------------------------------------------------------------------
(* The other work the queues carry *)

(* settleCreations: a person's creation that succeeded, recorded in the     *)
(* registry's turn inside the creations'.                                   *)
Settle(j) ==
    /\ At(j, "settle") /\ Free("creations")
    /\ To(j, "record") /\ Takes(j, "creations")
    /\ UNCHANGED <<access, copy, sessions, tokens, lost, events>>

\* recordCreation: they may still create, and nobody has access to it.
EarnsAdmin(p) == p \in access.create /\ \A q \in People : access.role[q] = "none"

Record(j) ==
    /\ At(j, "record") /\ Free("registry")
    /\ IF EarnsAdmin(job[j].who)
       THEN /\ job' = [job EXCEPT ![j] = [pc |-> "project", who |-> @.who, by |-> @.by, as |-> "creation",
                                          next |-> Changed(@.who, "admin")]]
            /\ Takes(j, "registry")
       ELSE Ends(j)
    /\ UNCHANGED <<access, copy, sessions, tokens, lost, events>>

(* A deployment accepted, or a name taken back: the creation is noted, or   *)
(* dropped, in the creations' turn inside the control routes'.              *)
Turns(j, at, to) ==
    /\ At(j, at) /\ Free("control")
    /\ To(j, to) /\ Takes(j, "control")
    /\ UNCHANGED <<access, copy, sessions, tokens, lost, events>>

Deploy(j) == Turns(j, "deploy", "note")

\* The store moved aside under the secrets' lock, inside the control routes' turn.
Adopt(j) == Turns(j, "adopt", "aside")

Aside(j) ==
    /\ At(j, "aside") /\ Free("secrets")
    /\ To(j, "note")
    /\ UNCHANGED <<access, copy, sessions, tokens, turn, lost, events>>

Note(j) ==
    /\ At(j, "note") /\ Free("creations")
    /\ Ends(j)
    /\ UNCHANGED <<access, copy, sessions, tokens, lost, events>>

(* A write into a store of secrets, under their lock; then its maker        *)
(* recorded, or the name taken back, in the control routes' turn.           *)
Store(j) ==
    /\ At(j, "store") /\ Free("secrets")
    /\ To(j, "storing") /\ Takes(j, "secrets")
    /\ UNCHANGED <<access, copy, sessions, tokens, lost, events>>

Stored(j) ==
    /\ At(j, "storing")
    /\ To(j, "told") /\ LeavesAll(j)
    /\ UNCHANGED <<access, copy, sessions, tokens, lost, events>>

Told(j) == Turns(j, "told", "note")

------------------------------------------------------------------------------
(* The projection kept true *)

(* Slip: only the file's identity is looked at.                             *)
StaleStamp == projected.from = NoText \/ projected.touched

Stale == projected.from # access \/ projected.touched

(* A read, or the start, finds it behind: written again in the registry's   *)
(* turn.                                                                    *)
Repair(j) ==
    /\ At(j, "idle") /\ Free("registry") /\ Stale
    /\ job' = [job EXCEPT ![j] = [Idle EXCEPT !.pc = "repairing"]]
    /\ Takes(j, "registry")
    /\ UNCHANGED <<access, copy, sessions, tokens, lost, events>>

Rewrite(j) ==
    /\ At(j, "repairing")
    /\ projection' = access.role
    /\ unseen' = FALSE
    /\ To(j, "restamp")
    /\ UNCHANGED <<access, projected, sessions, tokens, turn, lost, events>>

Repaired(j) ==
    /\ At(j, "restamp")
    /\ projected' = [from |-> access, touched |-> FALSE]
    /\ Ends(j)
    /\ UNCHANGED <<access, projection, unseen, sessions, tokens, lost, events>>

(* The portal's copy edited by hand: someone is let in.  Between its write  *)
(* and the look at its file, the edit is taken for what was written.        *)
Edit ==
    /\ Counts
    /\ \E p \in People : projection' = [projection EXCEPT ![p] = "visitor"]
    /\ projected' = [projected EXCEPT !.touched = TRUE]
    /\ unseen' = (unseen \/ \E j \in Jobs : job[j].pc \in {"stamp", "restamp"})
    /\ UNCHANGED <<access, sessions, tokens, turn, job, lost>>

------------------------------------------------------------------------------
(* Failures *)

Leaving(j) == job[j].pc \in {"leave", "close", "revoke", "revoking"}

\* A write throws: nothing was written, and the request fails.
Fault(j) ==
    /\ job[j].pc \in {"project", "write", "close", "revoking", "signing", "minting", "repairing"}
    /\ Counts /\ Ends(j)
    /\ lost' = IF Leaving(j) THEN lost \cup {job[j].who} ELSE lost
    /\ UNCHANGED <<access, copy, sessions, tokens>>

\* The steward is stopped, and started.
Stop ==
    /\ Counts
    /\ job' = [j \in Jobs |-> Idle] /\ turn' = [q \in Queues |-> NoJob]
    /\ projected' = [from |-> NoText, touched |-> FALSE]
    /\ UNCHANGED unseen
    /\ lost' = lost \cup {job[j].who : j \in {k \in Jobs : Leaving(k)}}
    /\ UNCHANGED <<access, projection, sessions, tokens>>

------------------------------------------------------------------------------
Request(j) ==
    \/ Arrives(j, "ask", Owner, Owner)
    \/ \E p \in People : SignsIn(access, p) /\ Arrives(j, "sign", p, p)
    \/ \E p \in People : Authorized(p) /\ Arrives(j, "mint", p, p)
    \/ \E p \in People : SignsIn(access, p) /\ Arrives(j, "mint", p, Owner)
    \/ \E p \in People : Arrives(j, "settle", p, p)
    \/ Arrives(j, "deploy", Owner, Owner)
    \/ Arrives(j, "adopt", Owner, Owner)
    \/ Arrives(j, "store", Owner, Owner)

Step(j) ==
    \/ Judge(j) \/ Project(j) \/ Stamp(j) \/ Write(j)
    \/ Leave(j) \/ Close(j) \/ Revoke(j) \/ Revoking(j) \/ Sweep(j)
    \/ SignIn(j) \/ Signed(j) \/ Mint(j) \/ Minted(j)
    \/ Settle(j) \/ Record(j) \/ Deploy(j) \/ Adopt(j) \/ Aside(j) \/ Note(j)
    \/ Store(j) \/ Stored(j) \/ Told(j)
    \/ Repair(j) \/ Rewrite(j) \/ Repaired(j)

Next ==
    \/ \E j \in Jobs : Request(j) \/ Step(j) \/ Fault(j)
    \/ Edit \/ Stop

Spec == Init /\ [][Next]_vars

------------------------------------------------------------------------------
(* Types.                                                                   *)
TypeOK ==
    /\ access \in Registries /\ projection \in [People -> Roles]
    /\ projected.from \in Registries \cup {NoText} /\ projected.touched \in BOOLEAN
    /\ unseen \in BOOLEAN
    /\ sessions \subseteq People /\ tokens \subseteq People /\ lost \subseteq People
    /\ turn \in [Queues -> Jobs \cup {NoJob}]
    /\ \A q \in Queues : turn[q] # NoJob => job[turn[q]].pc # "idle"

(* No circle of requests each waiting for a queue the next one has: "two    *)
(* queues waiting on each other would stop every change of access and every *)
(* deployment until the steward restarts" (people/steward.ts).              *)
NoCircle ==
    \A S \in SUBSET Waiting :
       (\A j \in S : turn[Awaits(job[j].pc)] \in S) => S = {}

(* Someone who no longer signs in has neither session nor token, or their   *)
(* leaving is under way, unless a failure cut it short (people/steward.ts,  *)
(* `leave`; control/steward.ts, `revokeMember`).                            *)
GoneHoldNothing ==
    \A p \in People \ lost :
       ~SignsIn(access, p) =>
          LET under(pcs) == \E j \in Jobs : job[j].who = p /\ job[j].pc \in pcs
          IN  /\ p \in sessions => under({"leave", "close"})
              /\ p \in tokens => under({"leave", "close", "revoke", "revoking"})

(* What is about to be written was asked by the owner, or by someone who is *)
(* an Admin of the project in the very registry it changes, Can open and no *)
(* more by a token; or is the creation of someone who may create, on a      *)
(* project nobody has access to (access/steward.ts, asPerson, asToken;      *)
(* access/registry.ts, recordCreation).                                     *)
GivenByAdmins ==
    \A j \in Jobs : job[j].pc \in {"project", "stamp", "write"} =>
       LET by == job[j].by IN
       IF job[j].as = "creation"
       THEN by \in access.create /\ \A p \in People : access.role[p] = "none"
       ELSE /\ by # Owner => access.role[by] = "admin"
            /\ job[j].as = "token" =>
                  /\ job[j].next.create = access.create
                  /\ \A p \in People : job[j].next.role[p] # access.role[p] =>
                        {job[j].next.role[p], access.role[p]} = {"none", "visitor"}

(* Between two changes, the portal's projection is the registry's, or the   *)
(* next read finds it is not, and writes it again: after a write that       *)
(* failed, a steward killed or a hand between the two files.  A hand that   *)
(* comes between the projection's write and the look at its file is taken   *)
(* for that write.                                                          *)
ProjectionKnown == Free("registry") /\ projection # access.role => Stale \/ unseen

(* Who was taken off is not let in again by a leaving come late: given a    *)
(* role again before it is judged, they keep their session.                 *)
KeepsWhenBack ==
    [][\A p \in sessions \ sessions' : ~SignsIn(access, p)]_vars
=============================================================================
