------------------------------- MODULE MCRename -------------------------------
(* A small instance of Rename: the names and the bounds are in the          *)
(* configuration.                                                           *)
EXTENDS Rename
==============================================================================
