----------------------------- MODULE MCCaddyLock -----------------------------
(* Instances of CaddyLock for TLC: gatekeeper and installer runs g1, g2, g3 *)
(* and a workstation run d1, as model values of their own so that a cfg  *)
(* can give each its part.                                                  *)
EXTENDS CaddyLock

CONSTANTS g1, g2, g3, d1
=============================================================================
