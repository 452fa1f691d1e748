------------------------------- MODULE Egress -------------------------------
(***************************************************************************)
(* The egress proxy: the connections of the projects to the outside, each   *)
(* a client and an upstream between which bytes wait (egress/src/proxy.ts,  *)
(* sockets.ts), the dashboard's calls on the status port (status.ts), and   *)
(* the one admission both ports are counted against (admission.ts): a place *)
(* each, a share per project, and the bytes that wait.                      *)
(*                                                                          *)
(* One process and one thread: an action is one callback of a socket, of a  *)
(* timer or of an awaited answer, whole, with all that it stops or restarts *)
(* in the other connections.  Bytes are counted in reads: one read delivers *)
(* one unit.  A refused client that lingers (createLingering) is closed.    *)
(***************************************************************************)
EXTENDS Integers, FiniteSets

CONSTANTS
    Tunnels,        \* connections to the CONNECT port
    Calls,          \* connections to the status port
    Projects,       \* the projects whose clients call
    Nobody,         \* no project
    MaxConnections, MaxPerProject,
    BufferBytes, ProjectBuffer, TotalBuffer, PendingBytes,
    AnswerBytes,    \* the most an answer of the status port leaves waiting
    Addresses       \* how many addresses a name resolves to

ASSUME KindsAssumption == Tunnels \cap Calls = {} /\ Nobody \notin Projects /\ "asked" \notin Projects \cup {Nobody}
ASSUME FiniteAssumption == IsFiniteSet(Calls)
ASSUME NumbersAssumption ==
    /\ {MaxConnections, MaxPerProject, ProjectBuffer, TotalBuffer, Addresses} \subseteq Nat \ {0}
    /\ {BufferBytes, PendingBytes, AnswerBytes} \subseteq Nat

VARIABLES
    conn,       \* each connection, and its two sides
    budget      \* the admission: the bytes that wait, and what they stop

egressVars == <<conn, budget>>

Conns == Tunnels \cup Calls

\* A side: is its socket there, does Bun read it, was it told to stop, what waits for it, is it ending?
NoSide == [socket |-> FALSE, reads |-> FALSE, paused |-> FALSE, queued |-> 0, ending |-> FALSE]
Socket == [NoSide EXCEPT !.socket = TRUE, !.reads = TRUE]

(* A connection: whose it is, once the kernel said so, its share once it    *)
(* has one, the attempt under way, those whose socket may still open, and   *)
(* the sockets it has open to the outside.                                  *)
Vacant == [phase |-> "closed", caller |-> "asked", share |-> Nobody, client |-> NoSide, upstream |-> NoSide,
         quiet |-> FALSE, attempt |-> 0, waits |-> {}, outside |-> {}]

EgressInit ==
    /\ conn = [c \in Conns |-> Vacant]
    /\ budget = [held |-> 0, of |-> [p \in Projects |-> 0], blocked |-> {}, saturated |-> FALSE]

Sides == {"client", "upstream"}
Alive(x) == x.phase # "closed"
Other(side) == IF side = "client" THEN "upstream" ELSE "client"
Held(x) == x.client.queued + x.upstream.queued

(***************************************************************************)
(* What a step does to the connections and the budget, held in one record   *)
(* while one function of the code calls another.                            *)
(***************************************************************************)
Now == [conn |-> conn, budget |-> budget]
Becomes(m) == conn' = m.conn /\ budget' = m.budget

Members(m, p) == {c \in Conns : Alive(m.conn[c]) /\ m.conn[c].share = p}

------------------------------------------------------------------------------
(* Sockets: pausing, resuming, and Bun's own quirk.                         *)

Pause(s)  == [s EXCEPT !.paused = TRUE, !.reads = FALSE]
Resume(s) == [s EXCEPT !.paused = FALSE, !.reads = s.socket]

(* Slip: Bun's reading is left as a short write leaves it.                  *)
ReadAfterShort(s) == [s EXCEPT !.reads = TRUE]

(* A write that came up short: Bun reads the socket again, unless what was  *)
(* told is told again.                                                      *)
WrittenShort(s) == [s EXCEPT !.reads = ~s.paused]

------------------------------------------------------------------------------
(* The admission.                                                           *)

MayRead(m, c) == ~m.budget.saturated /\ m.conn[c].share \notin m.budget.blocked

StopReading(x) ==
    IF x.phase # "open" THEN x
    ELSE [x EXCEPT !.client   = IF x.upstream.socket /\ ~@.paused THEN Pause(@) ELSE @,
                   !.upstream = IF x.client.socket /\ ~@.paused THEN Pause(@) ELSE @]

ResumeIfAllowed(m, c, from) ==
    LET x == m.conn[c]
        to == x[Other(from)]
    IN  IF x.phase = "open" /\ x[from].socket /\ to.socket /\ to.queued = 0 /\ MayRead(m, c)
        THEN [m EXCEPT !.conn[c][from] = Resume(@)]
        ELSE m

StartReading(m, c) == ResumeIfAllowed(ResumeIfAllowed(m, c, "client"), c, "upstream")

Stopped(m, S) == [m EXCEPT !.conn = [c \in Conns |-> IF c \in S THEN StopReading(@[c]) ELSE @[c]]]
Started(m, S) == [m EXCEPT !.conn = [c \in Conns |-> IF c \in S THEN StartReading(m, c).conn[c] ELSE @[c]]]

OverBudget(m, p) ==
    LET blocks == p \in Projects /\ p \notin m.budget.blocked /\ m.budget.of[p] > ProjectBuffer
        saturates == ~m.budget.saturated /\ m.budget.held > TotalBuffer
    IN  Stopped([m EXCEPT !.budget.blocked = IF blocks THEN @ \cup {p} ELSE @,
                          !.budget.saturated = @ \/ saturates],
                (IF blocks THEN Members(m, p) ELSE {}) \cup (IF saturates THEN Conns ELSE {}))

(* Slip: a budget crossed back restarts the share, and never the others.    *)
UnderShare(m, p) ==
    LET unblocks == p \in m.budget.blocked /\ 2 * m.budget.of[p] <= ProjectBuffer
    IN  Started([m EXCEPT !.budget.blocked = IF unblocks THEN @ \ {p} ELSE @,
                          !.budget.saturated = @ /\ 2 * m.budget.held > TotalBuffer],
                IF unblocks THEN Members(m, p) ELSE {})

UnderBudget(m, p) ==
    LET unblocks == p \in m.budget.blocked /\ 2 * m.budget.of[p] <= ProjectBuffer
        drains == m.budget.saturated /\ 2 * m.budget.held <= TotalBuffer
    IN  Started([m EXCEPT !.budget.blocked = IF unblocks THEN @ \ {p} ELSE @,
                          !.budget.saturated = @ /\ ~drains],
                (IF unblocks THEN Members(m, p) ELSE {}) \cup (IF drains THEN Conns ELSE {}))

(* Bytes that start or stop waiting in c; a share all have left is no more. *)
Adds(m, p, bytes) ==
    IF Members(m, p) = {} \/ p = Nobody THEN m.budget.of ELSE [m.budget.of EXCEPT ![p] = @ + bytes]

Account(m, c, bytes) ==
    LET p == m.conn[c].share
        counted == [m EXCEPT !.budget.held = @ + bytes, !.budget.of = Adds(m, p, bytes)]
    IN  IF bytes > 0 THEN OverBudget(counted, p)
        ELSE IF bytes < 0 THEN UnderBudget(counted, p)
        ELSE counted

(* Its place, and its share, the last one's with what it had stopped.       *)
Leave(m, c) ==
    LET p == m.conn[c].share
        left == [m EXCEPT !.conn[c].phase = "closed"]
    IN  IF p = Nobody \/ Members(left, p) # {} THEN left
        ELSE [left EXCEPT !.budget.of[p] = 0, !.budget.blocked = @ \ {p}]

Full(m, p) == Cardinality(Members(m, p)) >= MaxPerProject

Join(m, c, p) ==
    OverBudget([m EXCEPT !.conn[c].share = p, !.budget.of[p] = @ + Held(m.conn[c])], p)

------------------------------------------------------------------------------
(* A connection's end.                                                      *)

Ended(x) == [Vacant EXCEPT !.waits = x.waits, !.outside = x.outside \ {x.attempt}]

(* Both sides at once: its place and its bytes are given back.  Attempts    *)
(* still under way are not called off.                                      *)
Close(m, c) ==
    LET left == Leave(m, c)
        counted == Account(left, c, -Held(m.conn[c]))
    IN  [counted EXCEPT !.conn[c] = Ended(m.conn[c])]

(* One side is gone: what waited for it is dropped, what waits for the      *)
(* other goes first, which is read again to see it close.                   *)
SideClosed(m, c, gone) ==
    LET dropped == Account([m EXCEPT !.conn[c][gone] = [@ EXCEPT !.socket = FALSE, !.reads = FALSE, !.queued = 0]],
                           c, -m.conn[c][gone].queued)
        other == dropped.conn[c][Other(gone)]
    IN  IF ~other.socket \/ other.queued = 0 THEN Close(dropped, c)
        ELSE [dropped EXCEPT !.conn[c][Other(gone)] = Resume([@ EXCEPT !.ending = TRUE])]

------------------------------------------------------------------------------
(* Bytes between the two sides.                                             *)

(* n bytes for a side, of which its socket takes k at once if none waits.   *)
Send(m, c, to, n, k) ==
    LET s == m.conn[c][to]
        kept == IF s.queued = 0 THEN n - k ELSE n
        short == s.queued = 0 /\ kept > 0
        fed == [m EXCEPT !.conn[c][to] = [IF short THEN WrittenShort(s) ELSE s EXCEPT !.queued = @ + kept],
                         !.conn[c][Other(to)] =
                             IF kept > 0 /\ s.queued + kept > BufferBytes /\ ~@.paused THEN Pause(@) ELSE @]
    IN  IF ~s.socket THEN m ELSE Account(fed, c, kept)

(* What waits for a side is written, k of it, and the other side reads      *)
(* again once all of it is.                                                 *)
Flush(m, c, to, k) ==
    LET s == m.conn[c][to]
        written == [m EXCEPT !.conn[c][to] = [IF k < s.queued THEN WrittenShort(s) ELSE s EXCEPT !.queued = @ - k],
                             !.conn[c].quiet = @ /\ k = 0]
        counted == Account(written, c, -k)
    IN  IF k < s.queued THEN counted
        ELSE IF s.ending THEN Close(counted, c)
        ELSE ResumeIfAllowed(counted, c, Other(to))

(* What a client sent before its tunnel opened, within its cap and the      *)
(* budgets, or the connection is refused.                                   *)
HoldEarly(m, c, n) ==
    LET kept == Account([m EXCEPT !.conn[c].upstream.queued = @ + n], c, n)
    IN  IF n = 0 THEN m
        ELSE IF kept.conn[c].upstream.queued > PendingBytes \/ ~MayRead(kept, c) THEN Close(kept, c)
        ELSE kept

------------------------------------------------------------------------------
(* The CONNECT port, and what the two ports share.                          *)

(* A client connects: beyond the last place, it is refused at once.         *)
Enters(c) ==
    /\ conn[c] = Vacant
    /\ Cardinality({d \in Conns : Alive(conn[d])}) < MaxConnections
    /\ conn' = [conn EXCEPT ![c].phase = "head", ![c].client = Socket]
    /\ UNCHANGED budget

(* The kernel says whose the connection is: a project's joins its share, or *)
(* is refused when the share is full (admit).                               *)
Identified(c) ==
    /\ Alive(conn[c]) /\ conn[c].caller = "asked"
    /\ \E who \in Projects \cup {Nobody} :
         LET known == [Now EXCEPT !.conn[c].caller = who]
         IN  Becomes(IF who = Nobody THEN known
                     ELSE IF Full(Now, who) THEN Close(known, c)
                     ELSE Join(known, c, who))

(* The head is there, with n bytes behind it: nothing more is read until    *)
(* the decision.  On the status port what follows a head is dropped.        *)
HeadArrives(c) ==
    /\ conn[c].phase = "head"
    /\ LET deciding == [Now EXCEPT !.conn[c].phase = "deciding", !.conn[c].client = Pause(@)]
       IN  \E n \in {0, 1} : Becomes(IF c \in Tunnels THEN HoldEarly(deciding, c, n) ELSE deciding)

(* A read already under way delivers after the pause.                       *)
EarlyData(c) ==
    /\ c \in Tunnels /\ conn[c].phase = "deciding"
    /\ Becomes(HoldEarly(Now, c, 1))

(* The head does not come in time, is too large, or is none; the caller, or *)
(* where it goes, is refused; the name does not resolve, or to an address   *)
(* of the machine.                                                          *)
Refused(c) ==
    /\ \/ conn[c].phase = "head"
       \/ conn[c].phase = "deciding" /\ conn[c].caller # "asked" /\ conn[c].attempt = 0
    /\ Becomes(Close(Now, c))

(* A project may go where it asks: the first address is tried (connect).    *)
Allowed(c) ==
    /\ c \in Tunnels /\ conn[c].phase = "deciding" /\ conn[c].attempt = 0
    /\ conn[c].caller \in Projects
    /\ conn' = [conn EXCEPT ![c].attempt = 1, ![c].waits = {1}]
    /\ UNCHANGED budget

Trying(c) == conn[c].phase = "deciding" /\ conn[c].attempt \in conn[c].waits

(* The next address, each attempt with its number, or the refusal: the last *)
(* attempt is given up on too.                                              *)
NextAddress(c, waits) ==
    LET x == conn[c]
        given == [x EXCEPT !.waits = waits]
        next == [x EXCEPT !.waits = waits \cup {x.attempt + 1}, !.attempt = x.attempt + 1]
    IN  Becomes(IF x.attempt = Addresses THEN Close([Now EXCEPT !.conn[c] = given], c)
                ELSE [Now EXCEPT !.conn[c] = next])

AttemptFails(c) == Trying(c) /\ NextAddress(c, conn[c].waits \ {conn[c].attempt})

\* Its delay runs out: the socket may still open.
AttemptExpires(c) == Trying(c) /\ NextAddress(c, conn[c].waits)

(* A socket adopts the connection only if its attempt is still the current  *)
(* one.                                                                     *)
Adopts(c, a) == Alive(conn[c]) /\ a = conn[c].attempt

(* The tunnel opens: a budget already crossed holds it back like the        *)
(* others, and what came early is written, k of it.                         *)
Tunnelled(m, c, k) ==
    LET open == [m EXCEPT !.conn[c].phase = "open",
                          !.conn[c].upstream = [@ EXCEPT !.socket = TRUE, !.reads = TRUE]]
        held == IF MayRead(open, c) THEN open ELSE [open EXCEPT !.conn[c] = StopReading(@)]
    IN  Flush(held, c, "upstream", k)

(* An address answers.  Its socket is adopted as it opens, and the tunnel   *)
(* opened by the promise that resolves: one step here, since only promises  *)
(* already resolved run between the two, no timer and no other socket.      *)
Opens(c, a) ==
    /\ a \in conn[c].waits
    /\ IF Adopts(c, a)
       THEN \E k \in 0..conn[c].upstream.queued :
              Becomes(Tunnelled([Now EXCEPT !.conn[c].waits = @ \ {a}, !.conn[c].outside = @ \cup {a}], c, k))
       ELSE conn' = [conn EXCEPT ![c].waits = @ \ {a}] /\ UNCHANGED budget

(* A given up attempt ends without an answer.                               *)
LateFails(c, a) ==
    /\ a \in conn[c].waits /\ ~(Trying(c) /\ a = conn[c].attempt)
    /\ conn' = [conn EXCEPT ![c].waits = @ \ {a}]
    /\ UNCHANGED budget

(* A side delivers what it read: to the other, or to nobody once the other  *)
(* is gone, which is no activity.                                           *)
Delivers(c, from) ==
    /\ c \in Tunnels /\ conn[c].phase = "open"
    /\ conn[c][from].socket /\ conn[c][from].reads /\ conn[c][Other(from)].socket
    /\ \E k \in {0, 1} : Becomes(Send([Now EXCEPT !.conn[c].quiet = FALSE], c, Other(from), 1, k))

\* Slip: what reaches nobody counts as activity.
DropIsActivity(c) == conn' = [conn EXCEPT ![c].quiet = FALSE]
DropIsNothing(c) == UNCHANGED conn

Drops(c, from) ==
    /\ c \in Tunnels /\ conn[c].phase = "open"
    /\ conn[c][from].socket /\ conn[c][from].reads /\ ~conn[c][Other(from)].socket
    /\ DropIsNothing(c) /\ UNCHANGED budget

(* A side takes what waits for it, some or all.                             *)
Drains(c, to) ==
    /\ conn[c].phase = "open" /\ conn[c][to].socket
    /\ \E k \in 1..conn[c][to].queued : Becomes(Flush(Now, c, to, k))

(* A peer closes, or its socket fails.  A caller of the status port leaves  *)
(* nothing to deliver.                                                      *)
PeerCloses(c, side) ==
    /\ Alive(conn[c]) /\ conn[c][side].socket
    /\ LET gone == [Now EXCEPT !.conn[c].outside = IF side = "upstream" THEN @ \ {conn[c].attempt} ELSE @]
       IN  Becomes(IF c \in Tunnels THEN SideClosed(gone, c, side) ELSE Close(gone, c))

------------------------------------------------------------------------------
(* The status port: a whole answer, and the connection closed once written. *)
Answers(c) ==
    /\ c \in Calls /\ conn[c].phase = "deciding" /\ conn[c].caller # "asked"
    /\ \E k \in 0..AnswerBytes :
         LET sent == Send([Now EXCEPT !.conn[c].phase = "open"], c, "client", AnswerBytes, k)
         IN  Becomes(IF k = AnswerBytes THEN Close(sent, c) ELSE [sent EXCEPT !.conn[c].client.ending = TRUE])

------------------------------------------------------------------------------
(* The clock: idleMs without a byte delivered, then the sweep.              *)
GoesQuiet(c) ==
    /\ conn[c].phase = "open" /\ ~conn[c].quiet
    /\ conn' = [conn EXCEPT ![c].quiet = TRUE]
    /\ UNCHANGED budget

Sweep(c) ==
    /\ conn[c].phase = "open" /\ conn[c].quiet
    /\ Becomes(Close(Now, c))

EgressNext ==
    \E c \in Conns :
       \/ Enters(c) \/ Identified(c) \/ HeadArrives(c) \/ EarlyData(c) \/ Refused(c)
       \/ Allowed(c) \/ AttemptFails(c) \/ AttemptExpires(c) \/ Answers(c)
       \/ GoesQuiet(c) \/ Sweep(c)
       \/ \E a \in 1..Addresses : Opens(c, a) \/ LateFails(c, a)
       \/ \E side \in Sides : Delivers(c, side) \/ Drops(c, side) \/ Drains(c, side) \/ PeerCloses(c, side)

EgressSpec == EgressInit /\ [][EgressNext]_egressVars

------------------------------------------------------------------------------
(* Types, and what each phase may hold.                                     *)
Side == [socket : BOOLEAN, reads : BOOLEAN, paused : BOOLEAN, queued : Nat, ending : BOOLEAN]
EgressTypeOK ==
    /\ \A c \in Conns :
         /\ conn[c].phase \in {"head", "deciding", "open", "closed"}
         /\ conn[c].caller \in Projects \cup {Nobody, "asked"} /\ conn[c].share \in Projects \cup {Nobody}
         /\ conn[c].client \in Side /\ conn[c].upstream \in Side /\ conn[c].quiet \in BOOLEAN
         /\ conn[c].attempt \in 0..Addresses /\ conn[c].waits \cup conn[c].outside \subseteq 1..Addresses
    /\ budget.held \in Nat /\ budget.of \in [Projects -> Nat]
    /\ budget.blocked \subseteq Projects /\ budget.saturated \in BOOLEAN

(* What waits in a set of connections, whatever the admission counted.      *)
Bytes(each, S) == UNION {{<<c, side>>} \X (1..each[c][side].queued) : c \in S, side \in Sides}
Waiting(S) == Cardinality(Bytes(conn, S))

(* No tunnel is forgotten: a side that is not read, both peers there, waits *)
(* for bytes of its own to go, or for a budget still crossed, whose bytes   *)
(* are there to go, through every way a connection may end; one whose peer  *)
(* is gone is read, to see it close (admission.ts, `underBudget`; proxy.ts, *)
(* `close` and `sideClosed`).                                               *)
NotForgotten ==
    /\ \A c \in Tunnels, side \in Sides :
         LET x == conn[c]
         IN  x.phase = "open" /\ x[side].socket /\ ~x[side].reads
               => x[Other(side)].socket /\ (x[Other(side)].queued > 0 \/ ~MayRead(Now, c))
    /\ \A p \in budget.blocked : 2 * Waiting(Members(Now, p)) > ProjectBuffer
    /\ budget.saturated => 2 * Waiting(Conns) > TotalBuffer

(* What the process holds is bounded: of bytes, past the total, only the    *)
(* read under way and the answers of the status port; of sockets outside,   *)
(* those of open tunnels alone, whatever attempt answers late (proxy.ts,    *)
(* DEFAULT_LIMITS and `connect`).                                           *)
HoldBounded ==
    /\ Waiting(Conns) <= TotalBuffer + 1 + Cardinality(Calls) * AnswerBytes
    /\ \A c \in Conns : conn[c].outside = IF conn[c].upstream.socket THEN {conn[c].attempt} ELSE {}

(* A tunnel one peer has left only ever drains: nothing is added to what    *)
(* waits in it, and nothing but a byte that left keeps it from the sweep    *)
(* (proxy.ts, `sideClosed`).                                                *)
Halved(x) == x.phase = "open" /\ ~(x.client.socket /\ x.upstream.socket)
HalvedDrains ==
    [][\A c \in Tunnels : Halved(conn[c]) /\ conn'[c].phase = "open" =>
          /\ Held(conn'[c]) <= Held(conn[c])
          /\ conn'[c].quiet \/ ~conn[c].quiet \/ Held(conn'[c]) < Held(conn[c])]_egressVars
=============================================================================
