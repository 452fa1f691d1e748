--------------------------- MODULE DeploymentBook ---------------------------
(***************************************************************************)
(* What the control API promises of a deployment, whatever the uploads,    *)
(* the tracker, the steward and the installer do in between: its state     *)
(* only moves forward, none -> awaiting -> running -> succeeded or failed, *)
(* or awaiting -> expired; at most MaxRunning run at once; and its end     *)
(* enters the audit once, in the very step that decides it.                *)
(* Deployments implements this specification.                              *)
(***************************************************************************)
EXTENDS Naturals, Sequences, FiniteSets

CONSTANTS Dep, MaxRunning

VARIABLES state, told

Awaiting == {d \in Dep : state[d] = "awaiting"}
Running == {d \in Dep : state[d] = "running"}

(* The states of the deployments, those of `gone` expired.                 *)
Expired(gone) == [d \in Dep |-> IF d \in gone THEN "expired" ELSE state[d]]

Init ==
    /\ state = [d \in Dep |-> "none"]
    /\ told = [d \in Dep |-> << >>]

(* A new deployment is opened, in the place of some that still waited.     *)
Opens(d, gone) ==
    /\ state[d] = "none"
    /\ state' = [Expired(gone) EXCEPT ![d] = "awaiting"]
    /\ UNCHANGED told

Expires(gone) ==
    /\ gone # {}
    /\ state' = Expired(gone)
    /\ UNCHANGED told

Starts(d) ==
    /\ state[d] = "awaiting"
    /\ Cardinality(Running) < MaxRunning
    /\ state' = [state EXCEPT ![d] = "running"]
    /\ UNCHANGED told

Ends(d, how) ==
    /\ state[d] = "running"
    /\ state' = [state EXCEPT ![d] = how]
    /\ told' = [told EXCEPT ![d] = Append(@, how)]

Next ==
    \/ \E gone \in SUBSET Awaiting : Expires(gone)
    \/ \E d \in Dep : \/ \E gone \in SUBSET Awaiting : Opens(d, gone)
                      \/ Starts(d)
                      \/ \E how \in {"succeeded", "failed"} : Ends(d, how)

Spec == Init /\ [][Next]_<<state, told>>
=============================================================================
