------------------------------ MODULE DataSwap ------------------------------
(***************************************************************************)
(* What a restore promises of one project's data, with none of its steps:  *)
(* the data leaves its place only once it is saved, waits beside it while  *)
(* the restored data is tried, and comes back whole or is accepted away.   *)
(***************************************************************************)
EXTENDS Integers

CONSTANTS Content, Absent

VARIABLES
    data,     \* what is in the data folder, or Absent
    kept,     \* what was set aside beside it, or Absent
    latest,   \* the data the project has: as last written, or last accepted
    saved     \* latest is in a snapshot

vars == <<data, kept, latest, saved>>

Init ==
    /\ data = latest
    /\ latest \in Content
    /\ kept = Absent
    /\ saved = FALSE

(* The project writes its data, or a snapshot of it is taken or forgotten. *)
Work ==
    /\ data # Absent
    /\ kept = Absent
    /\ latest' \in Content
    /\ data' = latest'
    /\ saved' \in BOOLEAN
    /\ UNCHANGED kept

SetAside ==
    /\ saved
    /\ kept = Absent
    /\ kept' = latest
    /\ data' = Absent
    /\ UNCHANGED <<latest, saved>>

(* The restored data is put in place, and may be taken away again.         *)
Try ==
    /\ kept = latest
    /\ data = Absent
    /\ data' \in Content
    /\ UNCHANGED <<kept, latest, saved>>

GiveUp ==
    /\ kept = latest
    /\ data' = Absent
    /\ UNCHANGED <<kept, latest, saved>>

PutBack ==
    /\ data = Absent
    /\ data' = latest
    /\ kept' = Absent
    /\ UNCHANGED <<latest, saved>>

Accept ==
    /\ data # Absent
    /\ kept = latest
    /\ saved
    /\ kept' = Absent
    /\ latest' = data
    /\ saved' \in BOOLEAN
    /\ UNCHANGED data

Next == Work \/ SetAside \/ Try \/ GiveUp \/ PutBack \/ Accept

Spec == Init /\ [][Next]_vars
=============================================================================
