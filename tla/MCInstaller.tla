---- MODULE MCInstaller ----
(* Bounds for TLC: how many of each kind of run, and of faults. *)
EXTENDS Installer, TLC

\* One of each run; one step of a way back that fails; and one run killed, or
\* one restore of Caddy that fails.
OneOfEach == [kind \in Kinds |-> 1]

Sym == Permutations(Slugs)
====
