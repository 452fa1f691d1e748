------------------------------ MODULE MCRestore ------------------------------
(* A small instance of Restore: the bounds are in the configurations.      *)
EXTENDS Restore
=============================================================================
