------------------------------ MODULE AccessPlan ------------------------------
(***************************************************************************)
(* What the gatekeeper decides before it touches anything: planGeneral of  *)
(* dashboard/src/gatekeeper/plan.ts, with rules.ts and the generator of    *)
(* the preview locks, buildFragment of api/src/locks.ts.                   *)
(*                                                                         *)
(* A site's general access lives in up to four files: its manifest         *)
(* (`portal` or `lock`, never both), its Caddy block (with or without the  *)
(* portal's guard), the codes file and the locks' fragment, both shared by *)
(* every site.                                                             *)
(***************************************************************************)
EXTENDS Naturals, FiniteSets

CONSTANTS
  Site,
  Static,   \* sites without `start`: the portal cannot guard them
  Code,     \* six-character codes
  NoCode

ASSUME PlanAssumption ==
  /\ Site # {}
  /\ Static \subseteq Site
  /\ NoCode \notin Code

Access == {"public", "restricted", "code"}
Action == {"on", "off", "code", "renew"}

targetOf(action) ==
  CASE action = "on" -> "restricted"
    [] action = "off" -> "public"
    [] OTHER -> "code"

Manifest == [portal : BOOLEAN, lock : BOOLEAN]

(* The manifest refuses portal and lock together; a static site has no portal. *)
Valid(s, m) == ~(m.portal /\ m.lock) /\ (m.portal => s \notin Static)

(* The block generated from a manifest; "hand": touched up by hand. *)
Block == {"open", "guard", "hand"}
generateFragment(m) == IF m.portal THEN "guard" ELSE "open"

(* The codes file: its entries, missing, or one that does not read. *)
Entries == [Site -> Code \cup {NoCode}]
None == [s \in Site |-> NoCode]
Holding(entries) == [kind |-> "read", entries |-> entries]
Absent == [kind |-> "absent", entries |-> None]
Torn == [kind |-> "torn", entries |-> None]
CodesFile == [kind : {"read"}, entries : Entries] \cup {Absent, Torn}
Readable(codes) == codes.kind # "torn"

(* What the plan reads: this site's manifest and block, the codes file, the
   fragment in service, and every site's `lock`. *)
Deployed ==
  [manifest : Manifest, block : Block, codes : CodesFile, fragment : Entries, locks : [Site -> BOOLEAN]]

-----------------------------------------------------------------------------
(* buildFragment: a lock without a code, or a code without a lock, anywhere,
   interrupts everything. *)
Buildable(locks, codes) == \A t \in Site : locks[t] <=> codes[t] # NoCode

targetManifest(target) == [portal |-> target = "restricted", lock |-> target = "code"]

(* What planGeneral derives from its reading of site s. *)
inService(s, d) == d.fragment[s]
hasCode(s, d) == Readable(d.codes) /\ d.codes.entries[s] # NoCode
currentCode(s, d) == IF Readable(d.codes) THEN d.codes.entries[s] ELSE NoCode
involved(s, action, d) ==
  targetOf(action) = "code" \/ d.manifest.lock \/ inService(s, d) # NoCode \/ hasCode(s, d)

(* The access asked for is in place, and nothing of another is left behind. *)
InPlace(s, action, d) ==
  /\ action # "renew"
  /\ d.manifest = targetManifest(targetOf(action))
  /\ IF targetOf(action) = "code"
       THEN currentCode(s, d) # NoCode /\ inService(s, d) = currentCode(s, d)
       ELSE ~hasCode(s, d) /\ inService(s, d) = NoCode

(* The code in force once done; drawn is never the one it replaces. *)
DrawnFrom(s, d) ==
  Code \ {IF currentCode(s, d) # NoCode THEN currentCode(s, d) ELSE inService(s, d)}
CodeAfter(s, action, d, drawn) ==
  IF targetOf(action) # "code" THEN NoCode
  ELSE IF action = "renew" \/ currentCode(s, d) = NoCode THEN drawn
  ELSE currentCode(s, d)

NewCodes(s, action, d, drawn) == [d.codes.entries EXCEPT ![s] = CodeAfter(s, action, d, drawn)]
NewLocks(s, action, d) == [d.locks EXCEPT ![s] = (targetOf(action) = "code")]

(* The refusals, before and after "already in place" is told. *)
RefusedFirst(s, action, d) ==
  \/ ~Valid(s, d.manifest)
  \/ d.block # generateFragment(d.manifest)
  \/ action = "renew" /\ ~d.manifest.lock
RefusedThen(s, action, d, drawn) ==
  \/ ~Valid(s, targetManifest(targetOf(action)))
  \/ /\ involved(s, action, d)
     /\ \/ ~Readable(d.codes)
        \/ ~Buildable(NewLocks(s, action, d), NewCodes(s, action, d, drawn))

Kind(s, action, d, drawn) ==
  IF RefusedFirst(s, action, d) THEN "rejects"
  ELSE IF InPlace(s, action, d) THEN "nothing"
  ELSE IF RefusedThen(s, action, d, drawn) THEN "rejects"
  ELSE "change"

(* The files once done.  A file equal to the one read is not written: the
   codes file only when this site's entry changes, the block only when the
   portal changes. *)
Goal(s, action, d, drawn) ==
  LET codes == NewCodes(s, action, d, drawn)
  IN [manifest |-> targetManifest(targetOf(action)),
      block    |-> generateFragment(targetManifest(targetOf(action))),
      codes    |-> IF involved(s, action, d) /\ codes # d.codes.entries THEN Holding(codes) ELSE d.codes,
      fragment |-> IF involved(s, action, d) THEN codes ELSE d.fragment]
=============================================================================
