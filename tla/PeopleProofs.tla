---------------------------- MODULE PeopleProofs ----------------------------
(***************************************************************************)
(* Proofs about People, for any people and any number of requests at once. *)
(***************************************************************************)
EXTENDS People, TLAPS

USE DEF copy

(* What a request may be doing, and what about one of the people.           *)
Changing == {"project", "stamp", "write"}
OfPerson == Changing \cup {"leave", "close", "revoke", "revoking", "sign", "signing",
             "mint", "minting", "settle", "record"}
Steps == OfPerson \cup {"idle", "ask", "deploy", "adopt", "told", "note", "aside", "store", "storing", "repairing", "restamp"}

Somebody == People \cup {Owner}
Requests == [pc : Steps, who : Somebody, by : Somebody, as : {"hand", "token", "creation"},
             next : Registries \cup {NoText}]

(* Types, with what each step knows of its request.                         *)
Types ==
    /\ access \in Registries /\ projection \in [People -> Roles]
    /\ projected \in [from : Registries \cup {NoText}, touched : BOOLEAN]
    /\ unseen \in BOOLEAN
    /\ sessions \subseteq People /\ tokens \subseteq People /\ lost \subseteq People
    /\ turn \in [Queues -> Jobs \cup {NoJob}]
    /\ job \in [Jobs -> Requests]

Asked ==
    \A j \in Jobs :
       /\ job[j].pc \in OfPerson => job[j].who \in People
       /\ job[j].pc \in Changing => job[j].next \in Registries
       /\ job[j].pc \in {"settle", "record"} => job[j].by = job[j].who

(* Who has a queue's turn is at a step inside it, and the other way round;  *)
(* the creations' turn is kept while what it recorded is written.           *)
Turned ==
    \A j \in Jobs :
       /\ turn["control"] = j <=> job[j].pc \in {"revoking", "minting", "aside", "note"}
       /\ turn["registry"] = j <=> job[j].pc \in {"project", "stamp", "write", "close", "repairing", "restamp"}
       /\ turn["people"] = j <=> job[j].pc = "signing"
       /\ turn["secrets"] = j <=> job[j].pc = "storing"
       /\ job[j].pc = "record" => turn["creations"] = j
       /\ turn["creations"] = j => job[j].pc \in {"record", "project", "stamp", "write"}

Shape == Types /\ Asked /\ Turned

-----------------------------------------------------------------------------
(* No registry is NoText, and a change makes a registry.                    *)
LEMMA NoTextType == NoText \notin Registries
<1>1. Owner \notin People BY NamesAssumption
<1> QED BY <1>1 DEF NoText, Registries

LEMMA ChangedType ==
  ASSUME access \in Registries, NEW p \in People, NEW want \in Wants
  PROVE Changed(p, want) \in Registries
<1>1. access = [role |-> access.role, create |-> access.create]
      /\ access.role \in [People -> Roles] /\ access.create \subseteq People BY DEF Registries
<1>2. CASE want \in Roles BY <1>1, <1>2 DEF Changed, Registries, Roles
<1>3. CASE want = "create" BY <1>1, <1>3 DEF Changed, Registries, Roles
<1>4. CASE want = "no create" BY <1>1, <1>4 DEF Changed, Registries, Roles
<1>5. CASE want = "off" BY <1>1, <1>5 DEF Changed, Registries, Roles
<1> QED BY <1>2, <1>3, <1>4, <1>5 DEF Wants

LEMMA IdleType == Idle \in Requests /\ Idle.pc = "idle"
BY DEF Idle, Requests, Steps, Somebody

(* A change is about one person: nobody else starts or stops signing in.    *)
LEMMA ChangedOne ==
  ASSUME access \in Registries, NEW p \in People, NEW want \in Wants, NEW q \in People, q # p
  PROVE SignsIn(Changed(p, want), q) <=> SignsIn(access, q)
<1>1. access = [role |-> access.role, create |-> access.create]
      /\ access.role \in [People -> Roles] /\ access.create \subseteq People BY DEF Registries
<1>2. CASE want \in Roles BY <1>1, <1>2 DEF Changed, SignsIn, Roles
<1>3. CASE want = "create" BY <1>1, <1>3 DEF Changed, SignsIn, Roles
<1>4. CASE want = "no create" BY <1>1, <1>4 DEF Changed, SignsIn, Roles
<1>5. CASE want = "off" BY <1>1, <1>5 DEF Changed, SignsIn, Roles
<1> QED BY <1>2, <1>3, <1>4, <1>5 DEF Wants

-----------------------------------------------------------------------------
(* How a request moves: it alone changes, to what is asked of its new step. *)
LEMMA Moves ==
  ASSUME Shape, NEW j \in Jobs, NEW r \in Requests, job' = [job EXCEPT ![j] = r],
         r.pc \in OfPerson => r.who \in People,
         r.pc \in Changing => r.next \in Registries,
         r.pc \in {"settle", "record"} => r.by = r.who
  PROVE /\ job' \in [Jobs -> Requests] /\ Asked'
        /\ job'[j] = r /\ \A k \in Jobs \ {j} : job'[k] = job[k]
<1>1. job \in [Jobs -> Requests] BY DEF Shape, Types
<1>2. job' \in [Jobs -> Requests] /\ job'[j] = r /\ \A k \in Jobs \ {j} : job'[k] = job[k] BY <1>1
<1>3. Asked' BY <1>2 DEF Asked, Shape
<1> QED BY <1>2, <1>3

LEMMA MovesTo ==
  ASSUME Shape, NEW j \in Jobs, NEW pc \in Steps, To(j, pc),
         pc \in OfPerson => job[j].who \in People,
         pc \in Changing => job[j].next \in Registries,
         pc \in {"settle", "record"} => job[j].by = job[j].who
  PROVE /\ job' \in [Jobs -> Requests] /\ Asked'
        /\ job'[j] = [job[j] EXCEPT !.pc = pc] /\ \A k \in Jobs \ {j} : job'[k] = job[k]
<1> DEFINE r == [job[j] EXCEPT !.pc = pc]
<1>1. job \in [Jobs -> Requests] BY DEF Shape, Types
<1>2. r \in Requests /\ r.pc = pc /\ r.who = job[j].who /\ r.next = job[j].next /\ r.by = job[j].by
  BY <1>1 DEF Requests
<1>3. job' = [job EXCEPT ![j] = r] BY <1>1 DEF To, Requests
<1> HIDE DEF r
<1>4. /\ job' \in [Jobs -> Requests] /\ Asked'
      /\ job'[j] = r /\ \A k \in Jobs \ {j} : job'[k] = job[k] BY <1>2, <1>3, Moves
<1> QED BY <1>4 DEF r

(* The turns pass as the steps say.                                         *)
LEMMA Leaves ==
  ASSUME Shape, NEW j \in Jobs, LeavesAll(j)
  PROVE /\ turn' \in [Queues -> Jobs \cup {NoJob}]
        /\ \A q \in Queues : turn'[q] # j /\ \A k \in Jobs \ {j} : turn'[q] = k <=> turn[q] = k
<1>1. turn \in [Queues -> Jobs \cup {NoJob}] /\ NoJob \notin Jobs BY NamesAssumption DEF Shape, Types
<1> QED BY <1>1 DEF LeavesAll

LEMMA Taken ==
  ASSUME Shape, NEW j \in Jobs, NEW q \in Queues, Free(q), Takes(j, q)
  PROVE /\ turn' \in [Queues -> Jobs \cup {NoJob}]
        /\ turn'[q] = j /\ \A k \in Jobs : turn[q] # k
        /\ \A p \in Queues \ {q} : turn'[p] = turn[p]
<1>1. turn \in [Queues -> Jobs \cup {NoJob}] /\ NoJob \notin Jobs BY NamesAssumption DEF Shape, Types
<1> QED BY <1>1 DEF Takes, Free

LEMMA EndsShape ==
  ASSUME Shape, NEW j \in Jobs, Ends(j)
  PROVE /\ job' \in [Jobs -> Requests] /\ Asked' /\ Turned'
        /\ turn' \in [Queues -> Jobs \cup {NoJob}]
        /\ job'[j] = Idle /\ \A k \in Jobs \ {j} : job'[k] = job[k]
<1>1. Idle \in Requests /\ Idle.pc = "idle" BY IdleType
<1>2. /\ job' \in [Jobs -> Requests] /\ Asked'
      /\ job'[j] = Idle /\ \A k \in Jobs \ {j} : job'[k] = job[k] BY <1>1, Moves DEF Ends, OfPerson, Changing
<1>3. /\ turn' \in [Queues -> Jobs \cup {NoJob}]
      /\ \A q \in Queues : turn'[q] # j /\ \A k \in Jobs \ {j} : turn'[q] = k <=> turn[q] = k
  BY Leaves DEF Ends
<1>4. Turned'
  <2> SUFFICES ASSUME NEW k \in Jobs PROVE Turned!(k)' BY DEF Turned
  <2>1. CASE k = j BY <1>1, <1>2, <1>3, <2>1 DEF Queues
  <2>2. CASE k # j BY <1>2, <1>3, <2>2 DEF Queues, Shape, Turned
  <2> QED BY <2>1, <2>2
<1> QED BY <1>2, <1>3, <1>4

LEMMA TakesShape ==
  ASSUME Shape, NEW j \in Jobs, NEW q \in Queues, Free(q), Takes(j, q),
         \A k \in Jobs \ {j} : job'[k] = job[k],
         LET pc == job'[j].pc
             has(p) == IF p = q THEN TRUE ELSE turn[p] = j
         IN  /\ has("control") <=> pc \in {"revoking", "minting", "aside", "note"}
             /\ has("registry") <=> pc \in {"project", "stamp", "write", "close", "repairing", "restamp"}
             /\ has("people") <=> pc = "signing"
             /\ has("secrets") <=> pc = "storing"
             /\ pc = "record" => has("creations")
             /\ has("creations") => pc \in {"record", "project", "stamp", "write"}
  PROVE Turned' /\ turn' \in [Queues -> Jobs \cup {NoJob}]
<1>1. /\ turn' \in [Queues -> Jobs \cup {NoJob}]
      /\ turn'[q] = j /\ \A k \in Jobs : turn[q] # k
      /\ \A p \in Queues \ {q} : turn'[p] = turn[p] BY Taken
<1> SUFFICES ASSUME NEW k \in Jobs PROVE Turned!(k)' BY <1>1 DEF Turned
<1>2. CASE k = j
  <2>1. \A p \in Queues : (IF p = q THEN TRUE ELSE turn[p] = j) <=> turn'[p] = j BY <1>1
  <2> QED BY <2>1, <1>2 DEF Queues
<1>3. CASE k # j
  <2>1. \A p \in Queues : turn'[p] = k <=> turn[p] = k BY <1>1, <1>3
  <2>2. job'[k] = job[k] BY <1>3
  <2> QED BY <2>1, <2>2 DEF Queues, Shape, Turned
<1> QED BY <1>2, <1>3

(* A move that takes no turn and leaves none.                               *)
LEMMA StaysShape ==
  ASSUME Shape, NEW j \in Jobs, UNCHANGED turn, \A k \in Jobs \ {j} : job'[k] = job[k],
         LET pc == job'[j].pc
             has(p) == turn[p] = j
         IN  /\ has("control") <=> pc \in {"revoking", "minting", "aside", "note"}
             /\ has("registry") <=> pc \in {"project", "stamp", "write", "close", "repairing", "restamp"}
             /\ has("people") <=> pc = "signing"
             /\ has("secrets") <=> pc = "storing"
             /\ pc = "record" => has("creations")
             /\ has("creations") => pc \in {"record", "project", "stamp", "write"}
  PROVE Turned' /\ turn' \in [Queues -> Jobs \cup {NoJob}]
<1>1. turn' \in [Queues -> Jobs \cup {NoJob}] BY DEF Shape, Types
<1> SUFFICES ASSUME NEW k \in Jobs PROVE Turned!(k)' BY <1>1 DEF Turned
<1>2. CASE k = j BY <1>2
<1>3. CASE k # j BY <1>3 DEF Shape, Turned
<1> QED BY <1>2, <1>3

LEMMA LeavesShape ==
  ASSUME Shape, NEW j \in Jobs, LeavesAll(j), \A k \in Jobs \ {j} : job'[k] = job[k],
         job'[j].pc \in {"leave", "revoke", "told"}
  PROVE Turned' /\ turn' \in [Queues -> Jobs \cup {NoJob}]
<1>1. /\ turn' \in [Queues -> Jobs \cup {NoJob}]
      /\ \A q \in Queues : turn'[q] # j /\ \A k \in Jobs \ {j} : turn'[q] = k <=> turn[q] = k
  BY Leaves
<1> SUFFICES ASSUME NEW k \in Jobs PROVE Turned!(k)' BY <1>1 DEF Turned
<1>2. CASE k = j BY <1>1, <1>2 DEF Queues
<1>3. CASE k # j BY <1>1, <1>3 DEF Queues, Shape, Turned
<1> QED BY <1>2, <1>3

-----------------------------------------------------------------------------
(* The strengthening.  A change about to be written was judged by the       *)
(* registry it changes, and moves nobody but the one it is about; what the  *)
(* portal's copy says is what is remembered of it, or about to be, unless a *)
(* hand came between the two; who is closed does not                        *)
(* sign in; and who no longer signs in is being seen out, their sessions    *)
(* and tokens still to come counted with those they have.                   *)
\* A change asked of the registry `a` by who may ask it.
Given(a, r) ==
    IF r.as = "creation"
    THEN r.by \in a.create /\ \A p \in People : a.role[p] = "none"
    ELSE /\ r.by # Owner => a.role[r.by] = "admin"
         /\ r.as = "token" =>
               /\ r.next.create = a.create
               /\ \A p \in People : r.next.role[p] # a.role[p] =>
                     {r.next.role[p], a.role[p]} = {"none", "visitor"}

OneOnly(a, r) == \A p \in People \ {r.who} : SignsIn(r.next, p) <=> SignsIn(a, p)

Judged ==
    \A j \in Jobs : job[j].pc \in Changing => Given(access, job[j]) /\ OneOnly(access, job[j])

InWindow == {"stamp", "restamp"}
Copied ==
    ~unseen =>
       /\ \A j \in Jobs : job[j].pc = "stamp" => projection = job[j].next.role
       /\ \A j \in Jobs : job[j].pc = "restamp" => projection = access.role
       /\ \/ projected.touched \/ projected.from = NoText \/ projection = projected.from.role
          \/ \E j \in Jobs : job[j].pc \in InWindow

Closing == \A j \in Jobs : job[j].pc = "close" => ~SignsIn(access, job[j].who)

InHand(p, pcs) == \E j \in Jobs : job[j].who = p /\ job[j].pc \in pcs
GoingOut == {"leave", "close"}
GoingOff == {"leave", "close", "revoke", "revoking"}

Gone ==
    \A p \in People \ lost : ~SignsIn(access, p) =>
       /\ p \in sessions \/ InHand(p, {"signing"}) => InHand(p, GoingOut)
       /\ p \in tokens \/ InHand(p, {"minting"}) => InHand(p, GoingOff)

IInv == Shape /\ Judged /\ Copied /\ Closing /\ Gone

(* The copy stays known while nobody writes it, or the registry.            *)
LEMMA CopyStays ==
  ASSUME Copied, NEW j \in Jobs, \A k \in Jobs \ {j} : job'[k] = job[k],
         job[j].pc \notin InWindow, job'[j].pc \notin InWindow, UNCHANGED <<access, copy>>
  PROVE Copied'
BY DEF Copied, InWindow

(* A step of a request that is not leaving, that writes nothing.            *)
LEMMA Quiet ==
  ASSUME IInv, Shape', NEW j \in Jobs, \A k \in Jobs \ {j} : job'[k] = job[k], ~Leaving(j),
         job[j].pc \notin InWindow,
         job'[j].pc \notin Changing \cup InWindow \cup {"close", "signing", "minting"},
         UNCHANGED <<access, copy, sessions, tokens, lost>>
  PROVE IInv'
<1>1. Judged' BY DEF IInv, Judged, Changing
<1>2. Copied' BY CopyStays DEF IInv
<1>3. Closing' BY DEF IInv, Closing
<1>4. ASSUME NEW p PROVE /\ InHand(p, GoingOut) => InHand(p, GoingOut)'
                         /\ InHand(p, GoingOff) => InHand(p, GoingOff)'
                         /\ InHand(p, {"signing"})' => InHand(p, {"signing"})
                         /\ InHand(p, {"minting"})' => InHand(p, {"minting"})
  <2>1. \A k \in Jobs : job[k].pc \in GoingOff => k # j BY DEF Leaving, GoingOff
  <2>2. \A k \in Jobs : job'[k].pc \in {"signing", "minting"} => k # j OBVIOUS
  <2> QED BY <2>1, <2>2 DEF InHand, GoingOut, GoingOff
<1>5. Gone' BY <1>4 DEF IInv, Gone
<1> QED BY <1>1, <1>2, <1>3, <1>5 DEF IInv

LEMMA EndsQuietly ==
  ASSUME IInv, NEW j \in Jobs, Ends(j), ~Leaving(j), job[j].pc \notin InWindow,
         UNCHANGED <<access, copy, sessions, tokens, lost>>
  PROVE IInv'
<1>1. /\ job' \in [Jobs -> Requests] /\ Asked' /\ Turned'
      /\ turn' \in [Queues -> Jobs \cup {NoJob}]
      /\ job'[j] = Idle /\ \A k \in Jobs \ {j} : job'[k] = job[k] BY EndsShape DEF IInv
<1>2. Shape' BY <1>1 DEF IInv, Shape, Types
<1> QED BY <1>1, <1>2, IdleType, Quiet DEF InWindow, Changing

LEMMA ArrivesInv ==
  ASSUME IInv, NEW j \in Jobs, NEW pc \in {"ask", "sign", "mint", "settle", "deploy", "adopt", "store"},
         NEW who \in Somebody, NEW by \in Somebody, Arrives(j, pc, who, by),
         pc \in {"sign", "mint", "settle"} => who \in People, pc = "settle" => by = who
  PROVE IInv'
<1> DEFINE r == [Idle EXCEPT !.pc = pc, !.who = who, !.by = by]
<1>1. r \in Requests /\ r.pc = pc /\ r.who = who /\ r.by = by BY IdleType DEF Requests, Steps, OfPerson, Changing, Idle
<1>2. job' = [job EXCEPT ![j] = r] /\ UNCHANGED turn BY DEF Arrives
<1>3. UNCHANGED <<access, copy, sessions, tokens, lost>> BY DEF Arrives
<1> HIDE DEF r
<1>4. /\ job' \in [Jobs -> Requests] /\ Asked'
      /\ job'[j] = r /\ \A k \in Jobs \ {j} : job'[k] = job[k]
  BY <1>1, <1>2, Moves DEF IInv, OfPerson, Changing
<1>5. job[j].pc = "idle" BY DEF Arrives, At
<1>6. Turned' /\ turn' \in [Queues -> Jobs \cup {NoJob}]
  BY <1>1, <1>2, <1>4, <1>5, StaysShape DEF IInv, Shape, Turned
<1>7. Shape' BY <1>3, <1>4, <1>6 DEF IInv, Shape, Types
<1> QED BY <1>1, <1>3, <1>4, <1>5, <1>7, Quiet DEF Leaving, InWindow, Changing

LEMMA RequestInv == ASSUME IInv, NEW j \in Jobs, Request(j) PROVE IInv'
<1>1. Owner \in Somebody /\ \A p \in People : p \in Somebody BY DEF Somebody
<1>2. CASE Arrives(j, "ask", Owner, Owner) BY <1>1, <1>2, ArrivesInv
<1>3. CASE \E p \in People : SignsIn(access, p) /\ Arrives(j, "sign", p, p) BY <1>1, <1>3, ArrivesInv
<1>4. CASE \E p \in People : Authorized(p) /\ Arrives(j, "mint", p, p) BY <1>1, <1>4, ArrivesInv
<1>5. CASE \E p \in People : SignsIn(access, p) /\ Arrives(j, "mint", p, Owner) BY <1>1, <1>5, ArrivesInv
<1>6. CASE \E p \in People : Arrives(j, "settle", p, p) BY <1>1, <1>6, ArrivesInv
<1>7. CASE Arrives(j, "deploy", Owner, Owner) BY <1>1, <1>7, ArrivesInv
<1>8. CASE Arrives(j, "adopt", Owner, Owner) BY <1>1, <1>8, ArrivesInv
<1>9. CASE Arrives(j, "store", Owner, Owner) BY <1>1, <1>9, ArrivesInv
<1> QED BY <1>2, <1>3, <1>4, <1>5, <1>6, <1>7, <1>8, <1>9 DEF Request

-----------------------------------------------------------------------------
(* The work the queues carry besides changes of access: it leaves the       *)
(* registry, the sessions and the tokens alone.                             *)
LEMMA TakesQuietly ==
  ASSUME IInv, NEW j \in Jobs, NEW q \in {"control", "creations", "secrets"}, Free(q), Takes(j, q),
         NEW pc \in {"record", "note", "aside", "storing"}, To(j, pc),
         pc = "record" => q = "creations" /\ job[j].pc = "settle",
         pc \in {"note", "aside"} => q = "control" /\ job[j].pc \in {"deploy", "adopt", "told"},
         pc = "storing" => q = "secrets" /\ job[j].pc = "store",
         UNCHANGED <<access, copy, sessions, tokens, lost>>
  PROVE IInv'
<1>1. /\ job' \in [Jobs -> Requests] /\ Asked'
      /\ job'[j] = [job[j] EXCEPT !.pc = pc] /\ \A k \in Jobs \ {j} : job'[k] = job[k]
  BY MovesTo DEF IInv, Shape, Asked, Steps, OfPerson, Changing
<1>2. job'[j].pc = pc BY <1>1 DEF IInv, Shape, Types, Requests
<1>3. Turned' /\ turn' \in [Queues -> Jobs \cup {NoJob}]
  <2>1. /\ turn["control"] # j /\ turn["registry"] # j /\ turn["people"] # j
        /\ turn["secrets"] # j /\ turn["creations"] # j
    BY DEF IInv, Shape, Turned
  <2>2. CASE pc = "record" BY <1>1, <1>2, <2>1, <2>2, TakesShape DEF IInv, Queues
  <2>3. CASE pc \in {"note", "aside"} BY <1>1, <1>2, <2>1, <2>3, TakesShape DEF IInv, Queues
  <2>4. CASE pc = "storing" BY <1>1, <1>2, <2>1, <2>4, TakesShape DEF IInv, Queues
  <2> QED BY <2>2, <2>3, <2>4
<1>4. Shape' BY <1>1, <1>3 DEF IInv, Shape, Types
<1> QED BY <1>1, <1>2, <1>4, Quiet DEF Leaving, InWindow, Changing

LEMMA WorkInv ==
  ASSUME IInv, NEW j \in Jobs,
         Settle(j) \/ Deploy(j) \/ Adopt(j) \/ Aside(j) \/ Note(j) \/ Store(j) \/ Stored(j) \/ Told(j)
  PROVE IInv'
<1>1. CASE Settle(j) BY <1>1, TakesQuietly DEF Settle, At
<1>2. CASE Deploy(j) BY <1>2, TakesQuietly DEF Deploy, Turns, At
<1>3. CASE Adopt(j) BY <1>3, TakesQuietly DEF Adopt, Turns, At
<1>4. CASE Told(j) BY <1>4, TakesQuietly DEF Told, Turns, At
<1>5. CASE Store(j) BY <1>5, TakesQuietly DEF Store, At
<1>6. CASE Note(j) BY <1>6, EndsQuietly DEF Note, At, Leaving, InWindow
<1>7. CASE Aside(j)
  <2>1. /\ job' \in [Jobs -> Requests] /\ Asked'
        /\ job'[j] = [job[j] EXCEPT !.pc = "note"] /\ \A k \in Jobs \ {j} : job'[k] = job[k]
    BY <1>7, MovesTo DEF IInv, Steps, OfPerson, Changing, Aside
  <2>2. job'[j].pc = "note" /\ job[j].pc = "aside" BY <1>7, <2>1 DEF IInv, Shape, Types, Requests, Aside, At
  <2>3. Turned' /\ turn' \in [Queues -> Jobs \cup {NoJob}]
    BY <1>7, <2>1, <2>2, StaysShape DEF IInv, Shape, Turned, Aside
  <2>4. Shape' BY <1>7, <2>1, <2>3 DEF IInv, Shape, Types, Aside
  <2> QED BY <1>7, <2>1, <2>2, <2>4, Quiet DEF Leaving, InWindow, Changing, Aside
<1>8. CASE Stored(j)
  <2>1. /\ job' \in [Jobs -> Requests] /\ Asked'
        /\ job'[j] = [job[j] EXCEPT !.pc = "told"] /\ \A k \in Jobs \ {j} : job'[k] = job[k]
    BY <1>8, MovesTo DEF IInv, Steps, OfPerson, Changing, Stored
  <2>2. job'[j].pc = "told" /\ job[j].pc = "storing" BY <1>8, <2>1 DEF IInv, Shape, Types, Requests, Stored, At
  <2>3. Turned' /\ turn' \in [Queues -> Jobs \cup {NoJob}]
    BY <1>8, <2>1, <2>2, LeavesShape DEF IInv, Stored
  <2>4. Shape' BY <1>8, <2>1, <2>3 DEF IInv, Shape, Types, Stored
  <2> QED BY <1>8, <2>1, <2>2, <2>4, Quiet DEF Leaving, InWindow, Changing, Stored
<1> QED BY <1>1, <1>2, <1>3, <1>4, <1>5, <1>6, <1>7, <1>8

-----------------------------------------------------------------------------
(* A change judged, written to the portal's copy and then to the registry.  *)
LEMMA StartsChange ==
  ASSUME IInv, NEW j \in Jobs, NEW r \in Requests, r.pc = "project", r.who \in People, r.next \in Registries,
         job' = [job EXCEPT ![j] = r], Free("registry"), Takes(j, "registry"), job[j].pc \in {"ask", "record"},
         Given(access, r), OneOnly(access, r),
         UNCHANGED <<access, copy, sessions, tokens, lost>>
  PROVE IInv'
<1>1. /\ job' \in [Jobs -> Requests] /\ Asked'
      /\ job'[j] = r /\ \A k \in Jobs \ {j} : job'[k] = job[k] BY Moves DEF IInv
<1>2. /\ turn["control"] # j /\ turn["people"] # j /\ turn["secrets"] # j
      /\ turn["creations"] = j => job[j].pc = "record" BY DEF IInv, Shape, Turned
<1>3. Turned' /\ turn' \in [Queues -> Jobs \cup {NoJob}] BY <1>1, <1>2, TakesShape DEF IInv, Queues
<1>4. Shape' BY <1>1, <1>3 DEF IInv, Shape, Types
<1>5. Judged' BY <1>1 DEF IInv, Judged, Changing
<1>6. Copied' BY <1>1, CopyStays DEF IInv, InWindow
<1>7. Closing' BY <1>1 DEF IInv, Closing
<1>8. ASSUME NEW p, NEW pcs \in {GoingOut, GoingOff, {"signing"}, {"minting"}}
      PROVE InHand(p, pcs)' <=> InHand(p, pcs)
  BY <1>1 DEF InHand, GoingOut, GoingOff
<1>9. Gone' BY <1>8 DEF IInv, Gone
<1> QED BY <1>4, <1>5, <1>6, <1>7, <1>9 DEF IInv

LEMMA JudgeInv == ASSUME IInv, NEW j \in Jobs, Judge(j) PROVE IInv'
<1>1. job[j].pc = "ask" /\ Free("registry") /\ UNCHANGED <<access, copy, sessions, tokens, lost>>
  BY DEF Judge, At
<1>2. CASE Ends(j) BY <1>1, <1>2, EndsQuietly DEF Leaving, InWindow
<1>3. ASSUME NEW p \in People, NEW by \in Somebody, NEW as \in {"hand", "token"}, NEW want \in Wants,
             MayChange(p, by, as, want), Takes(j, "registry"),
             job' = [job EXCEPT ![j] = [pc |-> "project", who |-> p, by |-> by, as |-> as, next |-> Changed(p, want)]]
      PROVE IInv'
  <2> DEFINE r == [pc |-> "project", who |-> p, by |-> by, as |-> as, next |-> Changed(p, want)]
  <2>1. access \in Registries BY DEF IInv, Shape, Types
  <2>2. Changed(p, want) \in Registries BY <2>1, ChangedType
  <2>3. r \in Requests BY <2>2 DEF Requests, Steps, OfPerson, Changing, Somebody
  <2>4. \A q \in People \ {p} : SignsIn(Changed(p, want), q) <=> SignsIn(access, q) BY <2>1, ChangedOne
  <2>5. by # Owner => access.role[by] = "admin" BY <1>3 DEF MayChange, Ceiling
  <2>6. /\ r.pc = "project" /\ r.who = p /\ r.by = by /\ r.as = as /\ r.next = Changed(p, want)
        /\ job' = [job EXCEPT ![j] = r]
    BY <1>3
  <2>7. OneOnly(access, r) BY <2>4, <2>6 DEF OneOnly
  <2>8. Given(access, r)
    <3>1. CASE as = "hand" BY <2>5, <2>6, <3>1 DEF Given
    <3>2. CASE as = "token"
      <4>1. /\ want \in Roles
            /\ \A role \in {want, access.role[p]} : RoleRank(role) <= 1
        BY <1>3, <3>2 DEF MayChange, Ceiling, RoleRank
      <4>2. {want, access.role[p]} \subseteq {"none", "visitor"}
        <5>1. access.role[p] \in Roles BY <2>1 DEF Registries
        <5> QED BY <4>1, <5>1 DEF Roles, RoleRank
      <4>3. /\ r.next.create = access.create
            /\ r.next.role = [access.role EXCEPT ![p] = want]
        BY <2>1, <2>6, <4>1 DEF Changed, Registries, Roles
      <4>4. access.role \in [People -> Roles] BY <2>1 DEF Registries
      <4>5. \A q \in People : r.next.role[q] # access.role[q] =>
                 {r.next.role[q], access.role[q]} = {"none", "visitor"}
        BY <4>2, <4>3, <4>4
      <4> QED BY <2>5, <2>6, <3>2, <4>3, <4>5 DEF Given
    <3> QED BY <3>1, <3>2
  <2>9. r \in Requests /\ r.pc = "project" /\ r.who \in People /\ r.next \in Registries BY <2>2, <2>3, <2>6
  <2>10. job[j].pc \in {"ask", "record"} /\ Free("registry") /\ Takes(j, "registry") BY <1>1, <1>3
  <2> HIDE DEF r
  <2> QED BY <1>1, <2>6, <2>7, <2>8, <2>9, <2>10, StartsChange
<1> QED BY <1>1, <1>2, <1>3 DEF Judge, Somebody

LEMMA RecordInv == ASSUME IInv, NEW j \in Jobs, Record(j) PROVE IInv'
<1>1. job[j].pc = "record" /\ Free("registry") /\ UNCHANGED <<access, copy, sessions, tokens, lost>>
  BY DEF Record, At
<1>2. CASE Ends(j) BY <1>1, <1>2, EndsQuietly DEF Leaving, InWindow
<1> DEFINE p == job[j].who
           r == [pc |-> "project", who |-> p, by |-> job[j].by, as |-> "creation", next |-> Changed(p, "admin")]
<1>3. CASE EarnsAdmin(p) /\ Takes(j, "registry") /\ job' = [job EXCEPT ![j] = r]
  <2>1. access \in Registries /\ job \in [Jobs -> Requests] BY DEF IInv, Shape, Types
  <2>2. p \in People /\ job[j].by = p BY <1>1 DEF IInv, Shape, Asked, OfPerson
  <2>3. "admin" \in Wants BY DEF Wants, Roles
  <2>4. Changed(p, "admin") \in Registries BY <2>1, <2>2, <2>3, ChangedType
  <2>5. /\ r.pc = "project" /\ r.who = p /\ r.by = p /\ r.as = "creation" /\ r.next = Changed(p, "admin")
        /\ r \in Requests
    BY <2>2, <2>4 DEF Requests, Steps, OfPerson, Changing, Somebody
  <2>6. OneOnly(access, r)
    <3>1. \A q \in People \ {p} : SignsIn(Changed(p, "admin"), q) <=> SignsIn(access, q)
      BY <2>1, <2>2, <2>3, ChangedOne
    <3> QED BY <2>5, <3>1 DEF OneOnly
  <2>7. Given(access, r)
    <3>1. p \in access.create /\ \A q \in People : access.role[q] = "none" BY <1>3 DEF EarnsAdmin
    <3> QED BY <2>5, <3>1 DEF Given
  <2>8. r \in Requests /\ r.pc = "project" /\ r.who \in People /\ r.next \in Registries BY <2>2, <2>4, <2>5
  <2>9. /\ job[j].pc \in {"ask", "record"} /\ Free("registry") /\ Takes(j, "registry")
        /\ job' = [job EXCEPT ![j] = r] BY <1>1, <1>3
  <2> HIDE DEF r, p
  <2> QED BY <1>1, <2>6, <2>7, <2>8, <2>9, StartsChange
<1> QED BY <1>2, <1>3 DEF Record

(* The copy written, and then looked at: the request goes on to the next    *)
(* step of its change.                                                      *)
LEMMA ProjectInv == ASSUME IInv, NEW j \in Jobs, Project(j) \/ Stamp(j) PROVE IInv'
<1>1. PICK pc \in {"stamp", "write"} :
         /\ To(j, pc) /\ UNCHANGED <<access, sessions, tokens, turn, lost>>
         /\ pc = "stamp" => /\ job[j].pc = "project" /\ projection' = job[j].next.role
                            /\ unseen' = FALSE /\ UNCHANGED projected
         /\ pc = "write" => /\ job[j].pc = "stamp" /\ projected' = [from |-> job[j].next, touched |-> FALSE]
                            /\ UNCHANGED <<projection, unseen>>
  BY DEF Project, Stamp, At
<1>2. /\ job' \in [Jobs -> Requests] /\ Asked'
      /\ job'[j] = [job[j] EXCEPT !.pc = pc] /\ \A k \in Jobs \ {j} : job'[k] = job[k]
  BY <1>1, MovesTo DEF IInv, Shape, Asked, Steps, OfPerson, Changing
<1>3. /\ job'[j].pc = pc /\ job'[j].who = job[j].who /\ job'[j].by = job[j].by /\ job'[j].next = job[j].next
      /\ job'[j].as = job[j].as /\ job[j].next \in Registries /\ job[j].pc \in Changing
  BY <1>1, <1>2 DEF IInv, Shape, Types, Requests, Asked, Changing
<1>4. Turned' /\ turn' \in [Queues -> Jobs \cup {NoJob}]
  BY <1>1, <1>2, <1>3, StaysShape DEF IInv, Shape, Turned, Changing
<1>5. Shape'
  <2>1. job[j].next.role \in [People -> Roles] BY <1>3 DEF Registries
  <2>2. projection' \in [People -> Roles] BY <1>1, <2>1 DEF IInv, Shape, Types
  <2>3. projected' \in [from : Registries \cup {NoText}, touched : BOOLEAN]
    <3>1. CASE pc = "stamp" BY <1>1, <3>1 DEF IInv, Shape, Types
    <3>2. CASE pc = "write"
      <4>1. projected' = [from |-> job[j].next, touched |-> FALSE] BY <1>1, <3>2
      <4> QED BY <1>3, <4>1
    <3> QED BY <3>1, <3>2
  <2>4. unseen' \in BOOLEAN BY <1>1 DEF IInv, Shape, Types
  <2> QED BY <1>1, <1>2, <1>4, <2>2, <2>3, <2>4 DEF IInv, Shape, Types
<1>6. Judged'
  <2> SUFFICES ASSUME NEW k \in Jobs, job'[k].pc \in Changing
               PROVE  Given(access, job'[k]) /\ OneOnly(access, job'[k])
    BY <1>1 DEF Judged, Changing
  <2>1. CASE k = j
    <3>1. Given(access, job[j]) /\ OneOnly(access, job[j]) BY <1>3 DEF IInv, Judged, Changing
    <3> QED BY <1>3, <2>1, <3>1 DEF Given, OneOnly
  <2>2. CASE k # j BY <1>2, <2>2 DEF IInv, Judged, Changing
  <2> QED BY <2>1, <2>2
<1>7. Copied'
  <2>1. \A k \in Jobs \ {j} : job'[k].pc \notin InWindow
    BY <1>1, <1>2 DEF IInv, Shape, Turned, InWindow
  <2>2. CASE pc = "stamp" BY <1>1, <1>3, <2>1, <2>2 DEF Copied, InWindow
  <2>3. CASE pc = "write" BY <1>1, <1>3, <2>1, <2>3 DEF IInv, Copied, InWindow
  <2> QED BY <2>2, <2>3
<1>8. Closing' BY <1>1, <1>2, <1>3 DEF IInv, Closing
<1>9. ASSUME NEW p, NEW pcs \in {GoingOut, GoingOff, {"signing"}, {"minting"}}
      PROVE InHand(p, pcs)' <=> InHand(p, pcs)
  BY <1>1, <1>2, <1>3 DEF InHand, GoingOut, GoingOff
<1>10. Gone' BY <1>1, <1>9 DEF IInv, Gone
<1> QED BY <1>5, <1>6, <1>7, <1>8, <1>10 DEF IInv

LEMMA WriteInv == ASSUME IInv, NEW j \in Jobs, Write(j) PROVE IInv'
<1>1. job[j].pc = "write" /\ UNCHANGED <<copy, sessions, tokens, lost>> BY DEF Write, At
<1>2. PICK p \in People : p = job[j].who BY <1>1 DEF IInv, Shape, Asked, OfPerson, Changing
<1>3. access' = job[j].next /\ job[j].next \in Registries BY <1>1 DEF Write, IInv, Shape, Asked, Changing
<1>4. /\ job' \in [Jobs -> Requests] /\ Asked' /\ Turned'
      /\ turn' \in [Queues -> Jobs \cup {NoJob}]
      /\ \A k \in Jobs \ {j} : job'[k] = job[k]
      /\ IF SignsIn(access, p) /\ ~SignsIn(access', p)
         THEN job'[j].pc = "leave" /\ job'[j].who = p ELSE job'[j].pc = "idle"
  <2>1. CASE SignsIn(access, p) /\ ~SignsIn(job[j].next, p)
    <3>1. To(j, "leave") /\ LeavesAll(j) BY <1>2, <2>1 DEF Write
    <3>2. /\ job' \in [Jobs -> Requests] /\ Asked'
          /\ job'[j] = [job[j] EXCEPT !.pc = "leave"] /\ \A k \in Jobs \ {j} : job'[k] = job[k]
      BY <1>2, <3>1, MovesTo DEF IInv, Steps, OfPerson, Changing
    <3>3. job'[j].pc = "leave" /\ job'[j].who = p BY <1>2, <3>2 DEF IInv, Shape, Types, Requests
    <3>4. Turned' /\ turn' \in [Queues -> Jobs \cup {NoJob}] BY <3>1, <3>2, <3>3, LeavesShape DEF IInv
    <3> QED BY <1>3, <2>1, <3>2, <3>3, <3>4
  <2>2. CASE ~(SignsIn(access, p) /\ ~SignsIn(job[j].next, p))
    <3>1. Ends(j) BY <1>2, <2>2 DEF Write
    <3> QED BY <1>3, <2>2, <3>1, EndsShape, IdleType DEF IInv
  <2> QED BY <2>1, <2>2
<1>5. Shape' BY <1>1, <1>3, <1>4 DEF IInv, Shape, Types
<1>6. \A k \in Jobs \ {j} : job'[k].pc \notin Changing \cup InWindow \cup {"close"}
  BY <1>1, <1>4 DEF IInv, Shape, Turned, Changing, InWindow
<1>7. Judged' BY <1>4, <1>6 DEF Judged, Changing
<1>8. Copied' BY <1>1, <1>4, <1>6 DEF IInv, Copied, InWindow
<1>9. Closing' BY <1>4, <1>6 DEF Closing
<1>10. \A q \in People \ {p} : SignsIn(access', q) <=> SignsIn(access, q) BY <1>2, <1>1, <1>3 DEF IInv, Judged, OneOnly, Changing
<1>11. ASSUME NEW q PROVE /\ InHand(q, GoingOut) => InHand(q, GoingOut)'
                          /\ InHand(q, GoingOff) => InHand(q, GoingOff)'
                          /\ InHand(q, {"signing"})' => InHand(q, {"signing"})
                          /\ InHand(q, {"minting"})' => InHand(q, {"minting"})
  <2>1. \A k \in Jobs : job[k].pc \in GoingOff => k # j BY <1>1 DEF GoingOff
  <2>2. \A k \in Jobs : job'[k].pc \in {"signing", "minting"} => k # j BY <1>4
  <2> QED BY <1>4, <2>1, <2>2 DEF InHand, GoingOut, GoingOff
<1>12. SignsIn(access, p) /\ ~SignsIn(access', p) => InHand(p, GoingOut)' /\ InHand(p, GoingOff)'
  BY <1>4 DEF InHand, GoingOut, GoingOff
<1>13. Gone'
  <2> SUFFICES ASSUME NEW q \in People \ lost, ~SignsIn(access', q)
      PROVE /\ q \in sessions \/ InHand(q, {"signing"})' => InHand(q, GoingOut)'
            /\ q \in tokens \/ InHand(q, {"minting"})' => InHand(q, GoingOff)'
    BY <1>1 DEF Gone
  <2>1. CASE SignsIn(access, q) BY <1>10, <1>12, <2>1
  <2>2. CASE ~SignsIn(access, q) BY <1>11, <2>2 DEF IInv, Gone
  <2> QED BY <2>1, <2>2
<1> QED BY <1>5, <1>7, <1>8, <1>9, <1>13 DEF IInv

-----------------------------------------------------------------------------
(* Someone leaving: seen out of their sessions while the registry's turn    *)
(* keeps them out of it, then off their tokens.                             *)
(* Given a role again before they are out: nothing of theirs is touched.    *)
LEMMA KeptInv ==
  ASSUME IInv, NEW j \in Jobs, Ends(j), job[j].pc \in {"leave", "revoke"}, SignsIn(access, job[j].who),
         UNCHANGED <<access, copy, sessions, tokens, lost>>
  PROVE IInv'
<1>1. /\ job' \in [Jobs -> Requests] /\ Asked' /\ Turned'
      /\ turn' \in [Queues -> Jobs \cup {NoJob}]
      /\ job'[j] = Idle /\ \A k \in Jobs \ {j} : job'[k] = job[k] BY EndsShape DEF IInv
<1>2. Shape' BY <1>1 DEF IInv, Shape, Types
<1>3. Judged' /\ Closing' BY <1>1, IdleType DEF IInv, Judged, Closing, Changing
<1>4. Copied' BY <1>1, IdleType, CopyStays DEF IInv, InWindow
<1>5. ASSUME NEW q \in People, ~SignsIn(access, q)
      PROVE /\ InHand(q, GoingOut) => InHand(q, GoingOut)'
            /\ InHand(q, GoingOff) => InHand(q, GoingOff)'
            /\ InHand(q, {"signing"})' => InHand(q, {"signing"})
            /\ InHand(q, {"minting"})' => InHand(q, {"minting"})
  <2>1. \A k \in Jobs : job[k].who = q => k # j BY <1>5
  <2>2. \A k \in Jobs : job'[k].pc \in {"signing", "minting"} => k # j BY <1>1, IdleType
  <2> QED BY <1>1, <2>1, <2>2 DEF InHand
<1>6. Gone' BY <1>5 DEF IInv, Gone
<1> QED BY <1>2, <1>3, <1>4, <1>6 DEF IInv

LEMMA LeaveInv == ASSUME IInv, NEW j \in Jobs, Leave(j) PROVE IInv'
<1>1. job[j].pc = "leave" /\ Free("registry") /\ UNCHANGED <<access, copy, sessions, tokens, lost>>
  BY DEF Leave, At
<1>2. job[j].who \in People BY <1>1 DEF IInv, Shape, Asked, OfPerson, Changing
<1>3. CASE SignsIn(access, job[j].who) BY <1>1, <1>3, KeptInv DEF Leave
<1>4. CASE ~SignsIn(access, job[j].who)
  <2>1. To(j, "close") /\ Takes(j, "registry") BY <1>4 DEF Leave
  <2>2. /\ job' \in [Jobs -> Requests] /\ Asked'
        /\ job'[j] = [job[j] EXCEPT !.pc = "close"] /\ \A k \in Jobs \ {j} : job'[k] = job[k]
    BY <1>2, <2>1, MovesTo DEF IInv, Steps, OfPerson, Changing
  <2>3. job'[j].pc = "close" /\ job'[j].who = job[j].who BY <2>2 DEF IInv, Shape, Types, Requests
  <2>4. /\ turn["control"] # j /\ turn["people"] # j /\ turn["secrets"] # j /\ turn["creations"] # j
    BY <1>1 DEF IInv, Shape, Turned
  <2>5. Turned' /\ turn' \in [Queues -> Jobs \cup {NoJob}] BY <1>1, <2>1, <2>2, <2>3, <2>4, TakesShape DEF IInv, Queues
  <2>6. Shape' BY <1>1, <2>2, <2>5 DEF IInv, Shape, Types
  <2>7. Judged' BY <1>1, <2>2, <2>3 DEF IInv, Judged, Changing
  <2>8. Copied' BY <1>1, <2>2, <2>3, CopyStays DEF IInv, InWindow
  <2>9. Closing'
    <3> SUFFICES ASSUME NEW k \in Jobs, job'[k].pc = "close" PROVE ~SignsIn(access, job'[k].who) BY <1>1 DEF Closing
    <3>1. CASE k = j BY <1>4, <2>3, <3>1
    <3>2. CASE k # j BY <2>2, <3>2 DEF IInv, Closing
    <3> QED BY <3>1, <3>2
  <2>10. ASSUME NEW q, NEW pcs \in {GoingOut, GoingOff, {"signing"}, {"minting"}}
         PROVE InHand(q, pcs)' <=> InHand(q, pcs)
    BY <1>1, <2>2, <2>3 DEF InHand, GoingOut, GoingOff
  <2>11. Gone' BY <1>1, <2>10 DEF IInv, Gone
  <2> QED BY <2>6, <2>7, <2>8, <2>9, <2>11 DEF IInv
<1> QED BY <1>3, <1>4

LEMMA CloseInv == ASSUME IInv, NEW j \in Jobs, Close(j) PROVE IInv'
<1>1. /\ job[j].pc = "close" /\ Free("people") /\ UNCHANGED <<access, copy, tokens, lost>>
      /\ To(j, "revoke") /\ LeavesAll(j) BY DEF Close, At
<1>2. PICK p \in People : p = job[j].who BY <1>1 DEF IInv, Shape, Asked, OfPerson, Changing
<1>3. /\ job' \in [Jobs -> Requests] /\ Asked'
      /\ job'[j] = [job[j] EXCEPT !.pc = "revoke"] /\ \A k \in Jobs \ {j} : job'[k] = job[k]
  BY <1>1, <1>2, MovesTo DEF IInv, Steps, OfPerson, Changing
<1>4. job'[j].pc = "revoke" /\ job'[j].who = p BY <1>2, <1>3 DEF IInv, Shape, Types, Requests
<1>5. Turned' /\ turn' \in [Queues -> Jobs \cup {NoJob}] BY <1>1, <1>3, <1>4, LeavesShape DEF IInv
<1>6. sessions' = sessions \ {p} BY <1>2 DEF Close
<1>7. Shape' BY <1>1, <1>3, <1>5, <1>6 DEF IInv, Shape, Types
<1>8. Judged' /\ Closing' BY <1>1, <1>3, <1>4 DEF IInv, Judged, Closing, Changing
<1>9. Copied' BY <1>1, <1>3, <1>4, CopyStays DEF IInv, InWindow
<1>10. \A k \in Jobs : job[k].pc # "signing"
  BY <1>1, NamesAssumption DEF IInv, Shape, Turned, Free
<1>11. \A q : ~InHand(q, {"signing"})' BY <1>3, <1>4, <1>10 DEF InHand
<1>12. ASSUME NEW q
       PROVE /\ q # p /\ InHand(q, GoingOut) => InHand(q, GoingOut)'
             /\ InHand(q, GoingOff) => InHand(q, GoingOff)'
             /\ InHand(q, {"minting"})' => InHand(q, {"minting"})
  <2>1. q # p /\ InHand(q, GoingOut) => InHand(q, GoingOut)' BY <1>2, <1>3 DEF InHand
  <2>2. InHand(q, GoingOff) => InHand(q, GoingOff)' BY <1>2, <1>3, <1>4 DEF InHand, GoingOff
  <2>3. InHand(q, {"minting"})' => InHand(q, {"minting"}) BY <1>3, <1>4 DEF InHand
  <2> QED BY <2>1, <2>2, <2>3
<1>13. Gone' BY <1>1, <1>6, <1>11, <1>12 DEF IInv, Gone
<1> QED BY <1>7, <1>8, <1>9, <1>13 DEF IInv

LEMMA RevokeInv == ASSUME IInv, NEW j \in Jobs, Revoke(j) PROVE IInv'
<1>1. job[j].pc = "revoke" /\ Free("control") /\ UNCHANGED <<access, copy, sessions, tokens, lost>>
  BY DEF Revoke, At
<1>2. job[j].who \in People BY <1>1 DEF IInv, Shape, Asked, OfPerson, Changing
<1>3. CASE SignsIn(access, job[j].who) BY <1>1, <1>3, KeptInv DEF Revoke
<1>4. CASE ~SignsIn(access, job[j].who)
  <2>1. To(j, "revoking") /\ Takes(j, "control") BY <1>4 DEF Revoke
  <2>2. /\ job' \in [Jobs -> Requests] /\ Asked'
        /\ job'[j] = [job[j] EXCEPT !.pc = "revoking"] /\ \A k \in Jobs \ {j} : job'[k] = job[k]
    BY <1>2, <2>1, MovesTo DEF IInv, Steps, OfPerson, Changing
  <2>3. job'[j].pc = "revoking" /\ job'[j].who = job[j].who BY <2>2 DEF IInv, Shape, Types, Requests
  <2>4. /\ turn["registry"] # j /\ turn["people"] # j /\ turn["secrets"] # j /\ turn["creations"] # j
    BY <1>1 DEF IInv, Shape, Turned
  <2>5. Turned' /\ turn' \in [Queues -> Jobs \cup {NoJob}] BY <1>1, <2>1, <2>2, <2>3, <2>4, TakesShape DEF IInv, Queues
  <2>6. Shape' BY <1>1, <2>2, <2>5 DEF IInv, Shape, Types
  <2>7. Judged' /\ Closing' BY <1>1, <2>2, <2>3 DEF IInv, Judged, Closing, Changing
  <2>8. Copied' BY <1>1, <2>2, <2>3, CopyStays DEF IInv, InWindow
  <2>9. ASSUME NEW q, NEW pcs \in {GoingOut, GoingOff, {"signing"}, {"minting"}}
        PROVE InHand(q, pcs)' <=> InHand(q, pcs)
    BY <1>1, <2>2, <2>3 DEF InHand, GoingOut, GoingOff
  <2>10. Gone' BY <1>1, <2>9 DEF IInv, Gone
  <2> QED BY <2>6, <2>7, <2>8, <2>10 DEF IInv
<1> QED BY <1>3, <1>4

(* Off their tokens, in the control routes' turn: nobody mints meanwhile.   *)
LEMMA RevokingInv == ASSUME IInv, NEW j \in Jobs, Revoking(j) PROVE IInv'
<1>1. job[j].pc = "revoking" /\ Ends(j) /\ UNCHANGED <<access, copy, sessions, lost>>
  BY DEF Revoking, At
<1>2. PICK p \in People : p = job[j].who BY <1>1 DEF IInv, Shape, Asked, OfPerson, Changing
<1>3. /\ job' \in [Jobs -> Requests] /\ Asked' /\ Turned'
      /\ turn' \in [Queues -> Jobs \cup {NoJob}]
      /\ job'[j] = Idle /\ \A k \in Jobs \ {j} : job'[k] = job[k] BY <1>1, EndsShape DEF IInv
<1>4. tokens' = tokens \ {p} BY <1>2 DEF Revoking
<1>5. Shape' BY <1>1, <1>3, <1>4 DEF IInv, Shape, Types
<1>6. Judged' /\ Closing' BY <1>1, <1>3, IdleType DEF IInv, Judged, Closing, Changing
<1>7. Copied' BY <1>1, <1>3, IdleType, CopyStays DEF IInv, InWindow
<1>8. \A k \in Jobs : job[k].pc # "minting" BY <1>1 DEF IInv, Shape, Turned
<1>9. ASSUME NEW q
      PROVE /\ InHand(q, GoingOut) => InHand(q, GoingOut)'
            /\ q # p /\ InHand(q, GoingOff) => InHand(q, GoingOff)'
            /\ InHand(q, {"signing"})' => InHand(q, {"signing"})
            /\ ~InHand(q, {"minting"})'
  <2>1. InHand(q, GoingOut) => InHand(q, GoingOut)' BY <1>1, <1>3 DEF InHand, GoingOut
  <2>2. q # p /\ InHand(q, GoingOff) => InHand(q, GoingOff)' BY <1>2, <1>3 DEF InHand
  <2>3. InHand(q, {"signing"})' => InHand(q, {"signing"}) BY <1>3, IdleType DEF InHand
  <2>4. ~InHand(q, {"minting"})' BY <1>3, <1>8, IdleType DEF InHand
  <2> QED BY <2>1, <2>2, <2>3, <2>4
<1>10. Gone' BY <1>1, <1>4, <1>9 DEF IInv, Gone
<1> QED BY <1>5, <1>6, <1>7, <1>10 DEF IInv

LEMMA SweepInv == ASSUME IInv, NEW j \in Jobs, Sweep(j) PROVE IInv'
<1>1. /\ job[j].pc = "idle" /\ Free("control") /\ Takes(j, "control")
      /\ UNCHANGED <<access, copy, sessions, tokens, lost>> BY DEF Sweep, At
<1>2. PICK p \in tokens : job' = [job EXCEPT ![j] = [Idle EXCEPT !.pc = "revoking", !.who = p]] BY DEF Sweep
<1> DEFINE r == [Idle EXCEPT !.pc = "revoking", !.who = p]
<1>3. p \in People BY DEF IInv, Shape, Types
<1>4. r \in Requests /\ r.pc = "revoking" /\ r.who = p
  BY <1>3, IdleType DEF Requests, Steps, OfPerson, Changing, Somebody, Idle
<1>11. job' = [job EXCEPT ![j] = r] BY <1>2
<1> HIDE DEF r
<1>5. /\ job' \in [Jobs -> Requests] /\ Asked'
      /\ job'[j] = r /\ \A k \in Jobs \ {j} : job'[k] = job[k]
  BY <1>3, <1>4, <1>11, Moves DEF IInv, Changing
<1>6. /\ turn["registry"] # j /\ turn["people"] # j /\ turn["secrets"] # j /\ turn["creations"] # j
  BY <1>1 DEF IInv, Shape, Turned
<1>7. Turned' /\ turn' \in [Queues -> Jobs \cup {NoJob}] BY <1>1, <1>4, <1>5, <1>6, TakesShape DEF IInv, Queues
<1>8. Shape' BY <1>1, <1>5, <1>7 DEF IInv, Shape, Types
<1>9. ~Leaving(j) /\ job[j].pc \notin InWindow BY <1>1 DEF Leaving, InWindow
<1>10. job'[j].pc \notin Changing \cup InWindow \cup {"close", "signing", "minting"}
  BY <1>4, <1>5 DEF InWindow, Changing
<1> QED BY <1>1, <1>5, <1>8, <1>9, <1>10, Quiet

-----------------------------------------------------------------------------
(* Signing in and minting: judged in the turn a leaving needs to finish.    *)
LEMMA BeginsWrite ==
  ASSUME IInv, NEW j \in Jobs,
         \/ At(j, "sign") /\ Free("people") /\ To(j, "signing") /\ Takes(j, "people")
         \/ At(j, "mint") /\ Free("control") /\ To(j, "minting") /\ Takes(j, "control"),
         SignsIn(access, job[j].who),
         UNCHANGED <<access, copy, sessions, tokens, lost>>
  PROVE IInv'
<1>1. job[j].pc \in {"sign", "mint"} BY DEF At
<1>2. PICK p \in People : p = job[j].who BY <1>1 DEF IInv, Shape, Asked, OfPerson, Changing
<1>3. PICK pc \in {"signing", "minting"} :
         /\ To(j, pc)
         /\ pc = "signing" => Free("people") /\ Takes(j, "people")
         /\ pc = "minting" => Free("control") /\ Takes(j, "control")
  OBVIOUS
<1>4. /\ job' \in [Jobs -> Requests] /\ Asked'
      /\ job'[j] = [job[j] EXCEPT !.pc = pc] /\ \A k \in Jobs \ {j} : job'[k] = job[k]
  BY <1>2, <1>3, MovesTo DEF IInv, Steps, OfPerson, Changing
<1>5. job'[j].pc = pc /\ job'[j].who = p BY <1>2, <1>4 DEF IInv, Shape, Types, Requests
<1>6. /\ turn["control"] # j /\ turn["registry"] # j /\ turn["people"] # j
      /\ turn["secrets"] # j /\ turn["creations"] # j BY <1>1 DEF IInv, Shape, Turned
<1>7. Turned' /\ turn' \in [Queues -> Jobs \cup {NoJob}]
  <2>1. CASE pc = "signing" BY <1>3, <1>4, <1>5, <1>6, <2>1, TakesShape DEF IInv, Queues
  <2>2. CASE pc = "minting" BY <1>3, <1>4, <1>5, <1>6, <2>2, TakesShape DEF IInv, Queues
  <2> QED BY <2>1, <2>2
<1>8. Shape' BY <1>4, <1>7 DEF IInv, Shape, Types
<1>9. Judged' /\ Closing' BY <1>3, <1>4, <1>5 DEF IInv, Judged, Closing, Changing
<1>10. Copied' BY <1>1, <1>4, <1>5, CopyStays DEF IInv, InWindow
<1>11. ASSUME NEW q
       PROVE /\ InHand(q, GoingOut) => InHand(q, GoingOut)'
             /\ InHand(q, GoingOff) => InHand(q, GoingOff)'
             /\ q # p /\ InHand(q, {"signing"})' => InHand(q, {"signing"})
             /\ q # p /\ InHand(q, {"minting"})' => InHand(q, {"minting"})
  <2>1. \A k \in Jobs : job[k].pc \in GoingOff => k # j BY <1>1 DEF GoingOff
  <2> QED BY <1>4, <1>5, <2>1 DEF InHand, GoingOut, GoingOff
<1>12. Gone' BY <1>2, <1>11 DEF IInv, Gone
<1> QED BY <1>8, <1>9, <1>10, <1>12 DEF IInv

LEMMA SignInInv == ASSUME IInv, NEW j \in Jobs, SignIn(j) \/ Mint(j) PROVE IInv'
<1>1. CASE Ends(j) /\ (At(j, "sign") \/ At(j, "mint")) BY <1>1, EndsQuietly DEF SignIn, Mint, At, Leaving, InWindow
<1>2. CASE SignIn(j) /\ SignsIn(access, job[j].who) BY <1>2, BeginsWrite DEF SignIn
<1>3. CASE Mint(j) /\ MayMint(job[j].who, job[j].by)
  <2>1. SignsIn(access, job[j].who) BY <1>3 DEF MayMint, Authorized
  <2> QED BY <1>3, <2>1, BeginsWrite DEF Mint
<1> QED BY <1>1, <1>2, <1>3 DEF SignIn, Mint

LEMMA SignedInv == ASSUME IInv, NEW j \in Jobs, Signed(j) \/ Minted(j) PROVE IInv'
<1>1. PICK pc \in {"signing", "minting"} :
         /\ job[j].pc = pc /\ Ends(j) /\ UNCHANGED <<access, copy, lost>>
         /\ pc = "signing" => sessions' = sessions \cup {job[j].who} /\ UNCHANGED tokens
         /\ pc = "minting" => tokens' = tokens \cup {job[j].who} /\ UNCHANGED sessions
  BY DEF Signed, Minted, At
<1>2. PICK p \in People : p = job[j].who BY <1>1 DEF IInv, Shape, Asked, OfPerson, Changing
<1>3. /\ job' \in [Jobs -> Requests] /\ Asked' /\ Turned'
      /\ turn' \in [Queues -> Jobs \cup {NoJob}]
      /\ job'[j] = Idle /\ \A k \in Jobs \ {j} : job'[k] = job[k] BY <1>1, EndsShape DEF IInv
<1>4. Shape' BY <1>1, <1>2, <1>3 DEF IInv, Shape, Types
<1>5. Judged' /\ Closing' BY <1>1, <1>3, IdleType DEF IInv, Judged, Closing, Changing
<1>6. Copied' BY <1>1, <1>3, IdleType, CopyStays DEF IInv, InWindow
<1>7. ASSUME NEW q
      PROVE /\ InHand(q, GoingOut) => InHand(q, GoingOut)'
            /\ InHand(q, GoingOff) => InHand(q, GoingOff)'
            /\ InHand(q, {"signing"})' => InHand(q, {"signing"})
            /\ InHand(q, {"minting"})' => InHand(q, {"minting"})
  <2>1. \A k \in Jobs : job[k].pc \in GoingOff => k # j BY <1>1 DEF GoingOff
  <2>2. \A k \in Jobs : job'[k].pc \in {"signing", "minting"} => k # j BY <1>3, IdleType
  <2> QED BY <1>3, <2>1, <2>2 DEF InHand, GoingOut, GoingOff
<1>8. \A q : /\ q \in sessions' => q \in sessions \/ InHand(q, {"signing"})
             /\ q \in tokens' => q \in tokens \/ InHand(q, {"minting"})
  BY <1>1 DEF InHand
<1>9. Gone' BY <1>1, <1>7, <1>8 DEF IInv, Gone
<1> QED BY <1>4, <1>5, <1>6, <1>9 DEF IInv

-----------------------------------------------------------------------------
(* The portal's copy written again, and what befalls the requests.          *)
LEMMA RepairInv == ASSUME IInv, NEW j \in Jobs, Repair(j) PROVE IInv'
<1> DEFINE r == [Idle EXCEPT !.pc = "repairing"]
<1>1. /\ job[j].pc = "idle" /\ Free("registry") /\ Takes(j, "registry") /\ job' = [job EXCEPT ![j] = r]
      /\ UNCHANGED <<access, copy, sessions, tokens, lost>> BY DEF Repair, At
<1>2. r \in Requests /\ r.pc = "repairing" BY IdleType DEF Requests, Steps, Idle
<1> HIDE DEF r
<1>3. /\ job' \in [Jobs -> Requests] /\ Asked'
      /\ job'[j] = r /\ \A k \in Jobs \ {j} : job'[k] = job[k]
  BY <1>1, <1>2, Moves DEF IInv, OfPerson, Changing
<1>4. /\ turn["control"] # j /\ turn["people"] # j /\ turn["secrets"] # j /\ turn["creations"] # j
  BY <1>1 DEF IInv, Shape, Turned
<1>5. Turned' /\ turn' \in [Queues -> Jobs \cup {NoJob}] BY <1>1, <1>2, <1>3, <1>4, TakesShape DEF IInv, Queues
<1>6. Shape' BY <1>1, <1>3, <1>5 DEF IInv, Shape, Types
<1> QED BY <1>1, <1>2, <1>3, <1>6, Quiet DEF Leaving, InWindow, Changing

LEMMA RepairedInv == ASSUME IInv, NEW j \in Jobs, Rewrite(j) \/ Repaired(j) PROVE IInv'
<1>1. /\ job[j].pc \in {"repairing", "restamp"} /\ UNCHANGED <<access, sessions, tokens, lost>>
  BY DEF Rewrite, Repaired, At
<1>2. /\ job' \in [Jobs -> Requests] /\ Asked' /\ Turned'
      /\ turn' \in [Queues -> Jobs \cup {NoJob}]
      /\ \A k \in Jobs \ {j} : job'[k] = job[k]
      /\ IF Rewrite(j) THEN job'[j].pc = "restamp" ELSE job'[j].pc = "idle"
  <2>1. CASE Rewrite(j)
    <3>1. To(j, "restamp") /\ UNCHANGED turn /\ job[j].pc = "repairing" BY <2>1 DEF Rewrite, At
    <3>2. /\ job' \in [Jobs -> Requests] /\ Asked'
          /\ job'[j] = [job[j] EXCEPT !.pc = "restamp"] /\ \A k \in Jobs \ {j} : job'[k] = job[k]
      BY <3>1, MovesTo DEF IInv, Steps, OfPerson, Changing
    <3>3. job'[j].pc = "restamp" BY <3>2 DEF IInv, Shape, Types, Requests
    <3>4. Turned' /\ turn' \in [Queues -> Jobs \cup {NoJob}]
      BY <3>1, <3>2, <3>3, StaysShape DEF IInv, Shape, Turned
    <3> QED BY <2>1, <3>2, <3>3, <3>4
  <2>2. CASE ~Rewrite(j)
    <3>1. Ends(j) BY <2>2 DEF Repaired
    <3> QED BY <2>2, <3>1, EndsShape, IdleType DEF IInv
  <2> QED BY <2>1, <2>2
<1>3. /\ Rewrite(j) => projection' = access.role /\ unseen' = FALSE /\ UNCHANGED projected
      /\ ~Rewrite(j) => /\ projected' = [from |-> access, touched |-> FALSE] /\ UNCHANGED <<projection, unseen>>
                        /\ job[j].pc = "restamp"
  BY DEF Rewrite, Repaired, At
<1>4. Shape'
  <2>1. access \in Registries /\ access.role \in [People -> Roles] BY DEF IInv, Shape, Types, Registries
  <2>2. projection' \in [People -> Roles] BY <1>3, <2>1 DEF IInv, Shape, Types
  <2>3. projected' \in [from : Registries \cup {NoText}, touched : BOOLEAN]
    <3>1. CASE Rewrite(j) BY <1>3, <3>1 DEF IInv, Shape, Types
    <3>2. CASE ~Rewrite(j)
      <4>1. projected' = [from |-> access, touched |-> FALSE] BY <1>3, <3>2
      <4> QED BY <2>1, <4>1
    <3> QED BY <3>1, <3>2
  <2>4. unseen' \in BOOLEAN BY <1>3 DEF IInv, Shape, Types
  <2> QED BY <1>1, <1>2, <2>1, <2>2, <2>3, <2>4 DEF IInv, Shape, Types
<1>5. Judged' /\ Closing' BY <1>1, <1>2 DEF IInv, Judged, Closing, Changing
<1>6. Copied'
  <2>1. \A k \in Jobs \ {j} : job'[k].pc \notin InWindow
    BY <1>1, <1>2 DEF IInv, Shape, Turned, InWindow
  <2>2. CASE Rewrite(j) BY <1>1, <1>2, <1>3, <2>1, <2>2 DEF Copied, InWindow
  <2>3. CASE ~Rewrite(j) BY <1>1, <1>2, <1>3, <2>1, <2>3 DEF IInv, Copied, InWindow
  <2> QED BY <2>2, <2>3
<1>7. ASSUME NEW q, NEW pcs \in {GoingOut, GoingOff, {"signing"}, {"minting"}}
      PROVE InHand(q, pcs)' <=> InHand(q, pcs)
  BY <1>1, <1>2 DEF InHand, GoingOut, GoingOff
<1>8. Gone' BY <1>1, <1>7 DEF IInv, Gone
<1> QED BY <1>4, <1>5, <1>6, <1>8 DEF IInv

LEMMA FaultInv == ASSUME IInv, NEW j \in Jobs, Fault(j) PROVE IInv'
<1>1. Ends(j) /\ UNCHANGED <<access, copy, sessions, tokens>> BY DEF Fault
<1>2. /\ job' \in [Jobs -> Requests] /\ Asked' /\ Turned'
      /\ turn' \in [Queues -> Jobs \cup {NoJob}]
      /\ job'[j] = Idle /\ \A k \in Jobs \ {j} : job'[k] = job[k] BY <1>1, EndsShape DEF IInv
<1>3. /\ lost' \subseteq People /\ lost \subseteq lost'
      /\ job[j].pc \in GoingOff => job[j].who \in lost'
  BY DEF Fault, Leaving, IInv, Shape, Types, Asked, OfPerson, Changing, GoingOff
<1>4. Shape' BY <1>1, <1>2, <1>3 DEF IInv, Shape, Types
<1>5. Judged' /\ Closing' BY <1>1, <1>2, IdleType DEF IInv, Judged, Closing, Changing
<1>6. Copied' BY <1>1, <1>2, IdleType, CopyStays DEF IInv, InWindow, Fault
<1>7. ASSUME NEW q \in People \ lost'
      PROVE /\ InHand(q, GoingOut) => InHand(q, GoingOut)'
            /\ InHand(q, GoingOff) => InHand(q, GoingOff)'
            /\ InHand(q, {"signing"})' => InHand(q, {"signing"})
            /\ InHand(q, {"minting"})' => InHand(q, {"minting"})
  <2>1. \A k \in Jobs : job[k].who = q /\ job[k].pc \in GoingOff => k # j BY <1>3
  <2>2. \A k \in Jobs : job'[k].pc \in {"signing", "minting"} => k # j BY <1>2, IdleType
  <2> QED BY <1>2, <2>1, <2>2 DEF InHand, GoingOut, GoingOff
<1>8. Gone' BY <1>1, <1>3, <1>7 DEF IInv, Gone
<1> QED BY <1>4, <1>5, <1>6, <1>8 DEF IInv

LEMMA StopInv == ASSUME IInv, Stop PROVE IInv'
<1>1. /\ job' = [j \in Jobs |-> Idle] /\ turn' = [q \in Queues |-> NoJob]
      /\ projected' = [from |-> NoText, touched |-> FALSE]
      /\ UNCHANGED <<access, projection, unseen, sessions, tokens>> BY DEF Stop
<1>2. \A j \in Jobs : job'[j].pc = "idle" BY <1>1, IdleType
<1>3. /\ lost' \subseteq People /\ lost \subseteq lost'
      /\ \A j \in Jobs : job[j].pc \in GoingOff => job[j].who \in lost'
  BY DEF Stop, Leaving, IInv, Shape, Types, Asked, OfPerson, Changing, GoingOff
<1>4. Turned' BY <1>1, <1>2, NamesAssumption DEF Turned, Queues
<1>5. Shape' BY <1>1, <1>2, <1>3, <1>4, IdleType DEF IInv, Shape, Types, Asked, OfPerson, Changing
<1>6. Judged' /\ Closing' BY <1>2 DEF Judged, Closing, Changing
<1>7. Copied' BY <1>1, <1>2 DEF Copied
<1>8. \A q \in People \ lost' : ~InHand(q, GoingOut) /\ ~InHand(q, GoingOff)
  BY <1>3 DEF InHand, GoingOut, GoingOff
<1>9. \A q : ~InHand(q, {"signing"})' /\ ~InHand(q, {"minting"})' BY <1>2 DEF InHand
<1>10. Gone' BY <1>1, <1>3, <1>8, <1>9 DEF IInv, Gone
<1> QED BY <1>5, <1>6, <1>7, <1>10 DEF IInv

LEMMA EditInv == ASSUME IInv, Edit PROVE IInv'
<1>1. /\ UNCHANGED <<access, sessions, tokens, turn, job, lost>>
      /\ projected' = [projected EXCEPT !.touched = TRUE]
      /\ unseen' = (unseen \/ \E j \in Jobs : job[j].pc \in InWindow) BY DEF Edit, InWindow
<1>2. projection' \in [People -> Roles] BY DEF Edit, IInv, Shape, Types, Roles
<1>3. projected' \in [from : Registries \cup {NoText}, touched : BOOLEAN] /\ projected'.touched
  BY <1>1 DEF IInv, Shape, Types
<1>4. Shape' BY <1>1, <1>2, <1>3 DEF IInv, Shape, Types, Asked, Turned
<1>5. Judged' /\ Closing' /\ Gone' BY <1>1 DEF IInv, Judged, Closing, Gone, InHand, Changing
<1>6. Copied' BY <1>1, <1>3 DEF Copied, InWindow
<1> QED BY <1>4, <1>5, <1>6 DEF IInv

LEMMA StillInv == ASSUME IInv, UNCHANGED vars PROVE IInv'
<1>1. UNCHANGED <<access, copy, sessions, tokens, turn, job, lost>> BY DEF vars
<1>2. Shape' BY <1>1 DEF IInv, Shape, Types, Asked, Turned
<1>3. Judged' /\ Closing' /\ Copied' /\ Gone' BY <1>1 DEF IInv, Judged, Closing, Copied, Gone, InHand, Changing
<1> QED BY <1>2, <1>3 DEF IInv

LEMMA InitInv == ASSUME Init PROVE IInv
<1>1. access \in Registries BY BeginsAssumption DEF Init
<1>2. \A j \in Jobs : job[j].pc = "idle" BY IdleType DEF Init
<1>3. Turned BY <1>2, NamesAssumption DEF Init, Turned, Queues
<1>4. Types /\ Asked BY <1>1, <1>2, IdleType DEF Init, Types, Asked, OfPerson, Changing, Registries
<1>5. Judged /\ Closing BY <1>2 DEF Judged, Closing, Changing
<1>6. Copied
  <2>1. projection = projected.from.role BY DEF Init
  <2> QED BY <1>2, <2>1 DEF Copied
<1>7. \A p \in People \ lost : SignsIn(access, p) \/ (p \notin sessions /\ p \notin tokens) BY DEF Init
<1>8. \A p : ~InHand(p, {"signing"}) /\ ~InHand(p, {"minting"}) BY <1>2 DEF InHand
<1>9. Gone BY <1>7, <1>8 DEF Gone
<1> QED BY <1>3, <1>4, <1>5, <1>6, <1>9 DEF IInv, Shape

LEMMA NextInv == ASSUME IInv, [Next]_vars PROVE IInv'
<1>1. CASE \E j \in Jobs : Request(j) \/ Fault(j) BY <1>1, RequestInv, FaultInv
<1>2. CASE \E j \in Jobs : Step(j)
  <2> SUFFICES ASSUME NEW j \in Jobs, Step(j) PROVE IInv' BY <1>2
  <2>1. CASE Judge(j) \/ Project(j) \/ Stamp(j) \/ Write(j) BY <2>1, JudgeInv, ProjectInv, WriteInv
  <2>2. CASE Leave(j) \/ Close(j) \/ Revoke(j) \/ Revoking(j) \/ Sweep(j)
    BY <2>2, LeaveInv, CloseInv, RevokeInv, RevokingInv, SweepInv
  <2>3. CASE SignIn(j) \/ Signed(j) \/ Mint(j) \/ Minted(j) BY <2>3, SignInInv, SignedInv
  <2>4. CASE Record(j) BY <2>4, RecordInv
  <2>5. CASE Settle(j) \/ Deploy(j) \/ Adopt(j) \/ Aside(j) \/ Note(j) \/ Store(j) \/ Stored(j) \/ Told(j)
    BY <2>5, WorkInv
  <2>6. CASE Repair(j) \/ Rewrite(j) \/ Repaired(j) BY <2>6, RepairInv, RepairedInv
  <2> QED BY <2>1, <2>2, <2>3, <2>4, <2>5, <2>6 DEF Step
<1>3. CASE Edit \/ Stop BY <1>3, EditInv, StopInv
<1>4. CASE UNCHANGED vars BY <1>4, StillInv
<1> QED BY <1>1, <1>2, <1>3, <1>4 DEF Next

(* Every behaviour keeps the strengthening.                                 *)
THEOREM Kept == Spec => []IInv
<1>1. Init => IInv BY InitInv
<1>2. IInv /\ [Next]_vars => IInv' BY NextInv
<1> QED BY <1>1, <1>2, PTL DEF Spec

-----------------------------------------------------------------------------
(* Every reachable state is of its type.                                    *)
THEOREM TypeCorrect == Spec => []TypeOK
<1>1. IInv => TypeOK
  <2> SUFFICES ASSUME IInv PROVE TypeOK OBVIOUS
  <2>1. \A q \in Queues : turn[q] # NoJob => job[turn[q]].pc # "idle"
    BY DEF IInv, Shape, Types, Turned, Queues
  <2> QED BY <2>1 DEF TypeOK, IInv, Shape, Types
<1> QED BY <1>1, Kept, PTL

(* Requests never wait on one another in a circle: who has the people's or  *)
(* the secrets' turn waits for nothing, who has the registry's only for the *)
(* people's, the creations' for the registry's, the control routes' for the *)
(* creations' or the secrets'.                                              *)
THEOREM NoDeadlock == Spec => []NoCircle
<1>1. IInv => NoCircle
  <2> SUFFICES ASSUME IInv, NEW S \in SUBSET Waiting,
                      \A j \in S : turn[Awaits(job[j].pc)] \in S,
                      NEW j0 \in S
               PROVE FALSE
    BY DEF NoCircle
  <2>1. \A j \in S : j \in Jobs /\ Awaits(job[j].pc) # "nothing" /\ turn[Awaits(job[j].pc)] \in S BY DEF Waiting
  <2>2. \A j \in S : Awaits(job[j].pc) # "people"
    <3> SUFFICES ASSUME NEW j \in S, Awaits(job[j].pc) = "people" PROVE FALSE OBVIOUS
    <3>1. PICK k \in S : turn["people"] = k BY <2>1
    <3>2. job[k].pc = "signing" BY <2>1, <3>1 DEF IInv, Shape, Turned
    <3> QED BY <2>1, <3>2 DEF Awaits
  <2>3. \A j \in S : Awaits(job[j].pc) # "secrets"
    <3> SUFFICES ASSUME NEW j \in S, Awaits(job[j].pc) = "secrets" PROVE FALSE OBVIOUS
    <3>1. PICK k \in S : turn["secrets"] = k BY <2>1
    <3>2. job[k].pc = "storing" BY <2>1, <3>1 DEF IInv, Shape, Turned
    <3> QED BY <2>1, <3>2 DEF Awaits
  <2>4. \A j \in S : Awaits(job[j].pc) # "registry"
    <3> SUFFICES ASSUME NEW j \in S, Awaits(job[j].pc) = "registry" PROVE FALSE OBVIOUS
    <3>1. PICK k \in S : turn["registry"] = k BY <2>1
    <3>2. job[k].pc \in {"project", "stamp", "write", "close", "repairing", "restamp"} BY <2>1, <3>1 DEF IInv, Shape, Turned
    <3> QED BY <2>1, <2>2, <3>2 DEF Awaits
  <2>5. \A j \in S : Awaits(job[j].pc) # "creations"
    <3> SUFFICES ASSUME NEW j \in S, Awaits(job[j].pc) = "creations" PROVE FALSE OBVIOUS
    <3>1. PICK k \in S : turn["creations"] = k BY <2>1
    <3>2. job[k].pc \in {"record", "project", "stamp", "write"} BY <2>1, <3>1 DEF IInv, Shape, Turned
    <3> QED BY <2>1, <2>4, <3>2 DEF Awaits
  <2>6. \A j \in S : Awaits(job[j].pc) # "control"
    <3> SUFFICES ASSUME NEW j \in S, Awaits(job[j].pc) = "control" PROVE FALSE OBVIOUS
    <3>1. PICK k \in S : turn["control"] = k BY <2>1
    <3>2. job[k].pc \in {"revoking", "minting", "aside", "note"} BY <2>1, <3>1 DEF IInv, Shape, Turned
    <3> QED BY <2>1, <2>3, <2>5, <3>2 DEF Awaits
  <2> QED BY <2>1, <2>2, <2>3, <2>4, <2>5, <2>6 DEF Awaits
<1> QED BY <1>1, Kept, PTL

(* Whoever no longer signs in is being seen out, unless a failure cut their *)
(* leaving short.                                                           *)
THEOREM GoneAreSeenOut == Spec => []GoneHoldNothing
<1>1. IInv => GoneHoldNothing BY DEF IInv, Gone, GoneHoldNothing, InHand, GoingOut, GoingOff
<1> QED BY <1>1, Kept, PTL

(* What is about to be written was judged by the registry it changes.       *)
THEOREM OnlyAdminsGive == Spec => []GivenByAdmins
<1>1. IInv => GivenByAdmins BY DEF IInv, Judged, Given, Changing, GivenByAdmins
<1> QED BY <1>1, Kept, PTL

(* A projection that is not the registry's is always found out.             *)
THEOREM CopyKnown == Spec => []ProjectionKnown
<1>1. IInv => ProjectionKnown
  <2> SUFFICES ASSUME IInv, Free("registry"), projection # access.role, ~unseen PROVE Stale
    BY DEF ProjectionKnown
  <2>1. \A j \in Jobs : job[j].pc \notin InWindow
    BY NamesAssumption DEF IInv, Shape, Turned, InWindow, Free
  <2> QED BY <2>1, NoTextType DEF IInv, Shape, Types, Copied, Stale
<1> QED BY <1>1, Kept, PTL

(* A session is closed only while its owner does not sign in.               *)
THEOREM BackKeepsSession == Spec => KeepsWhenBack
<1>1. IInv /\ [Next]_vars => [\A p \in sessions \ sessions' : ~SignsIn(access, p)]_vars
  <2> SUFFICES ASSUME IInv, Next, NEW p \in sessions \ sessions' PROVE ~SignsIn(access, p) OBVIOUS
  <2>1. PICK j \in Jobs : Close(j)
    BY DEF Next, Request, Arrives, Step, Judge, Project, Stamp, Write, Leave, Revoke, Revoking, Sweep, SignIn, Signed,
           Mint, Minted, Settle, Record, Deploy, Adopt, Turns, Aside, Note, Store, Stored, Told, Repair, Rewrite, Repaired,
           Fault, Edit, Stop
  <2> QED BY <2>1 DEF Close, At, IInv, Closing
<1> QED BY <1>1, Kept, PTL DEF Spec, KeepsWhenBack
=============================================================================
