-------------------------- MODULE MCMonitorAndEgress --------------------------
(***************************************************************************)
(* Small instances of Monitor and of Egress for TLC: Caddy and one site     *)
(* behind it; tunnels and projects, which are interchangeable.  The two     *)
(* programs share nothing: a behaviour is of one, the other stays as it     *)
(* begins.                                                                  *)
(***************************************************************************)
EXTENDS Monitor, Egress, TLC

CONSTANTS caddy, blog

VARIABLE part   \* the program this behaviour is of

MCInit == part \in {"monitor", "egress"} /\ MonitorInit /\ EgressInit

InMonitor == part = "monitor" /\ MonitorNext /\ UNCHANGED <<part, egressVars>>
InEgress  == part = "egress"  /\ EgressNext  /\ UNCHANGED <<part, monitorVars>>

MCSpec == MCInit /\ [][InMonitor \/ InEgress]_<<part, monitorVars, egressVars>>

Sym == Permutations(Tunnels) \cup Permutations(Projects)
==============================================================================
